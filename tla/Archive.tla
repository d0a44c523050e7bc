------------------------------- MODULE Archive -------------------------------
(***************************************************************************)
(* The backfills of the archive: statements and weekly prices              *)
(* (backfillFundamentals.ts), weekly books (backfillBrokerWeekly.ts) and   *)
(* daily books (backfillBrokerSummary.ts).  The three are one loop over    *)
(* what is not archived yet, under the quota of the upstream, which the    *)
(* worker spends as well; any run may end anywhere and be started again.   *)
(*                                                                         *)
(* An item is a script, a symbol and a key: a kind of payload, a week or a *)
(* date.  Of a payload the row keeps the day it came, whether it is whole  *)
(* and the quarters the upstream had released.  The worker archives what   *)
(* it is answered too; of that only the listed shares are read here again, *)
(* and they are a constant of the readers.                                 *)
(***************************************************************************)
EXTENDS Integers, FiniteSets, FiniteSetsExt

CONSTANTS
    Symbols,
    Universe,         \* the symbols asked for: those traded enough
    Turnover,         \* rank of a symbol in the universe, the largest first
    Kinds,            \* kinds of payload asked for, of 1..4
    FromWeek,         \* first week asked for
    BookDays,         \* dates of books asked for
    FreshDays,        \* a payload older than this is asked for again, 30
    MaxRequests,      \* --max-requests
    MinRemaining,     \* --min-remaining
    Quota,            \* calls a day of the upstream's key
    OthersMax,        \* bound of the worker's calls a day, its daily ceiling
    MaxBlind,         \* bound of the model, see blind
    QuarterDays,      \* days of a quarter
    PayloadQuarters,  \* quarters of a payload, 12
    Unavailable,      \* items the upstream always answers with an error
    FirstDay, MaxDay, \* the days of the model
    Initial,          \* what is archived on the first day
    Released,         \* quarters released by the first day
    None

Scripts == {"fundamentals", "weekly", "books"}

Income   == 1
Balance  == 2
CashFlow == 3
History  == 4

ASSUME ArchiveAssumption ==
    /\ MinRemaining \in Nat /\ Quota \in Nat /\ MaxRequests \in Nat
    /\ None \notin Nat
    /\ Universe \subseteq Symbols
    /\ \A s \in Symbols : Turnover[s] \in Nat
    /\ Kinds \subseteq {Income, Balance, CashFlow, History}

VARIABLES
    day,
    released,   \* upstream: quarters whose statements it has
    stored,     \* the newest row of each archived item
    script,     \* the script that runs, None between runs
    todo,       \* its pending items
    requests,   \* requests of the run
    told,       \* x-ratelimit-remaining as last read, None before
    quota,      \* upstream: calls left today
    others,     \* calls of the worker today
    blind,      \* history: calls the run was not told of: of the worker, or
                \* its own when the answer has no header
    overdrawn   \* history: requests, but for the first, sent with no more than
                \* MinRemaining left

runState == <<script, todo, requests, told, blind, overdrawn>>
vars     == <<day, released, stored, quota, others, runState>>

Init ==
    /\ day = FirstDay /\ released = Released
    /\ stored = Initial
    /\ script = None /\ todo = {} /\ requests = 0 /\ told = None
    /\ quota = Quota /\ others = 0
    /\ blind = 0 /\ overdrawn = 0

\* What a script asks for; the week of today is not over.
Keys(sc) ==
    CASE sc = "fundamentals" -> Kinds
      [] sc = "weekly"       -> FromWeek..(day - 1)
      [] sc = "books"        -> (day - BookDays + 1)..day

\* A statement may be stored empty; of a book some rows are better than none,
\* but it is asked for again.
Keeps(sc, answer) ==
    CASE sc = "fundamentals" -> answer \in {"whole", "empty"}
      [] sc = "weekly"       -> answer = "whole"
      [] sc = "books"        -> answer \in {"whole", "sparse"}

IsDone(item) ==
    /\ item \in DOMAIN stored
    /\ item[1] = "fundamentals" => stored[item].at > day - FreshDays
    /\ item[1] = "books"        => stored[item].whole

Pending(sc) == {item \in {sc} \X Universe \X Keys(sc) : ~IsDone(item)}

\* Symbol by symbol, so that a finished symbol is complete.
Precedes(i, j) ==
    \/ Turnover[i[2]] < Turnover[j[2]]
    \/ i[2] = j[2] /\ i[3] < j[3]

NextItem == CHOOSE i \in todo : \A j \in todo \ {i} : Precedes(i, j)

Start(sc) ==
    /\ script = None
    /\ script' = sc /\ todo' = Pending(sc)
    /\ requests' = 0 /\ told' = None
    /\ blind' = 0 /\ overdrawn' = 0
    /\ UNCHANGED <<day, released, stored, quota, others>>

\* MUTANT: stops only below the reserve.
MutMayAsk == requests < MaxRequests /\ (told # None => told >= MinRemaining)

MayAsk == requests < MaxRequests /\ (told # None => told > MinRemaining)

Row(answer) == [at |-> day, whole |-> answer = "whole",
                until |-> IF script = "fundamentals" /\ answer = "whole" THEN released ELSE 0]

\* MUTANT: an item that fails ends the run.
MutGoesOn(answer) == answer \notin {"limited", "lost", "error"}

\* Out of calls, or the run dies with the answer in its hands.
GoesOn(answer) == answer \notin {"limited", "lost"}

\* One request, its answer and, if it is kept, its row.  Without a call left
\* the upstream answers 429.
Fetch(answer, header) ==
    LET item == NextItem
    IN  /\ script # None /\ todo # {} /\ MayAsk
        /\ answer = "limited" <=> quota = 0
        /\ item \in Unavailable => answer \in {"error", "limited"}
        /\ ~header => blind < MaxBlind
        /\ quota' = IF answer = "limited" THEN quota ELSE quota - 1
        /\ requests' = requests + 1
        /\ told' = IF header THEN quota' ELSE told
        /\ blind' = IF header THEN blind ELSE blind + 1
        /\ overdrawn' = IF requests > 0 /\ quota <= MinRemaining THEN overdrawn + 1 ELSE overdrawn
        /\ stored' = IF Keeps(script, answer)
                     THEN [i \in DOMAIN stored \cup {item} |-> IF i = item THEN Row(answer) ELSE stored[i]]
                     ELSE stored
        /\ IF GoesOn(answer) THEN todo' = todo \ {item} /\ script' = script
                             ELSE todo' = {} /\ script' = None
        /\ UNCHANGED <<day, released, others>>

Stop ==
    /\ script # None /\ (todo = {} \/ ~MayAsk)
    /\ script' = None /\ todo' = {}
    /\ UNCHANGED <<day, released, stored, quota, others, requests, told, blind, overdrawn>>

\* A call of the worker: its own ceiling and the upstream's quota.
OtherCall ==
    /\ quota > 0 /\ others < OthersMax
    /\ quota' = quota - 1 /\ others' = others + 1
    /\ IF script = None THEN blind' = blind ELSE blind < MaxBlind /\ blind' = blind + 1
    /\ UNCHANGED <<day, released, stored, script, todo, requests, told, overdrawn>>

\* The calls are counted anew; the bound stops the calendar only.
NewDay ==
    /\ day' = Min({day + 1, MaxDay})
    /\ quota' = Quota /\ others' = 0
    /\ UNCHANGED <<released, stored, runState>>

QuarterEnd(q) == (q + 1) * QuarterDays

\* The upstream has a quarter's statements some day after its end.
Release ==
    /\ QuarterEnd(released) < day
    /\ released' = released + 1
    /\ UNCHANGED <<day, stored, quota, others, runState>>

Answers == {"whole", "sparse", "empty", "error", "limited", "lost"}

Next ==
    \/ \E sc \in Scripts : Start(sc)
    \/ \E answer \in Answers, header \in BOOLEAN : Fetch(answer, header)
    \/ OtherCall \/ Stop \/ NewDay \/ Release

\* Now and then a day begins with no run going and each script is started first, and the upstream does not fail for ever where it can answer.
Fairness ==
    /\ \A sc \in Scripts : /\ SF_vars(quota = Quota /\ Start(sc))
                          /\ SF_vars(script = sc /\ Fetch("whole", TRUE))
    /\ WF_vars(Stop) /\ SF_vars(script = None /\ NewDay)
    /\ WF_vars(\E answer \in Answers, header \in BOOLEAN : Fetch(answer, header))

Spec     == Init /\ [][Next]_vars
FairSpec == Spec /\ Fairness

-----------------------------------------------------------------------------
(* Properties.                                                             *)

\* backfillFundamentals.ts:25-27: a run stops when no more than --min-remaining
\* calls are left.  It learns what is left from its own answers, and the worker
\* spends the same quota: beyond the reserve go at most as many of its requests as
\* there were calls it was not told of, the first request aside.
ReserveKept == overdrawn <= blind

\* "Re-run to continue (resumable)": as long as what the upstream never answers does
\* not fill a run, everything else gets archived, wherever runs were cut off.
Unarchived == UNION {Pending(sc) : sc \in Scripts} \ Unavailable

EverythingIsArchived ==
    (Cardinality(Unavailable) < MaxRequests) => []<>(Unarchived = {})

=============================================================================
