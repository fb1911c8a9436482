------------------------------ MODULE Journal ------------------------------
(***************************************************************************)
(* The signal journal: SignalLog (app/storage/signal_log.py) as the webhook *)
(* and the dashboard (app/api/dashboard.py) of every worker use it, each    *)
(* with an instance of its own over one SQLite file.  A call first makes    *)
(* sure of the schema, then runs its statements one by one; every statement *)
(* is atomic and sees what the others have written, nothing spans two.  The *)
(* database may refuse a statement (locked by another connection, disk      *)
(* full), and a worker may die between two.                                 *)
(***************************************************************************)
EXTENDS Risk, Sequences, FiniteSets

CONSTANTS Workers,    \* uvicorn --workers
          Calls,      \* calls under way at a time
          MaxRows,    \* bound of the model: rows of the table
          MaxFaults,  \* bound of the model: refused statements and crashes
          Databases,  \* what a bridge finds: "none" or the version of an older one
          Alerts,     \* alerts that are recorded
          Rrs,        \* suggested_rr of their decisions, 0 for none
          Budget,     \* plan_equity_hint at risk_per_trade_pct
          Bodies      \* OutcomeUpdate: outcome, pnl, exit_price, 0 when not given

ASSUME JournalAssumption ==
  /\ \A body \in Bodies : body.outcome \in {"win", "loss", "breakeven"}
  /\ MaxFaults \in Nat

\* The SignalLog objects: one of the webhook and one of the dashboard per worker.
Writers   == Workers \X {"webhook"}
Readers   == Workers \X {"dashboard"}
Instances == Writers \cup Readers

VARIABLES
  columns,  \* groups of columns the signals table has
  rows,     \* the table, a row's id is its place
  aged,     \* rows 1..aged are older than the window of the queries
  ready,    \* ready[i]: _initialised of instance i
  call,     \* call[c]: a call under way
  faults,   \* refused statements and crashes so far
  refused   \* history: refused[i]: columns whose ALTER instance i passed over
            \* although they were not there

journalVars == <<columns, rows, aged, ready, call, faults, refused>>

-----------------------------------------------------------------------------
(* The schema.                                                               *)

AllColumns == {"base", "execution", "outcome", "plan", "detail"}

ColumnsOf(database) ==
  CASE database = "none" -> {}
    [] database = "v1"   -> {"base"}
    [] database = "v2"   -> {"base", "execution", "outcome"}
    [] OTHER             -> AllColumns

\* The ALTERs in their order, those of one version's group as one.
Migrations == <<"execution", "outcome", "plan", "detail">>

\* executescript(_SCHEMA): a table that is not there is made whole, then the
\* index on (signal, outcome) needs that column.
ScriptColumns == IF columns = {} THEN AllColumns ELSE columns
ScriptWorks   == "outcome" \in ScriptColumns

-----------------------------------------------------------------------------
(* Rows.                                                                     *)

None == [none |-> TRUE]

\* What a PATCH stores: R and money come from the row's plan when there is an
\* exit price, money only if the body has none.
Settled(plan, body) ==
  LET known  == body.exit # 0 /\ plan # None
      points == OutcomePoints(plan, body.exit)
  IN [outcome |-> body.outcome,
      exit    |-> body.exit,
      r       |-> IF known THEN <<points, plan.distance>> ELSE << >>,
      pnl     |-> IF known /\ body.pnl = 0 THEN points * plan.lot ELSE body.pnl]

Open == [outcome |-> "none", exit |-> 0, r |-> << >>, pnl |-> 0]

OldRow == [plan |-> None, order |-> None, result |-> Open]

Recorded(plan, order) == [plan |-> plan, order |-> order, result |-> Open]

-----------------------------------------------------------------------------
(* Calls.  A call is at a place; "alter" counts the migrations done, "memory" *)
(* is what its first statement read, "counts" what its SELECTs returned,      *)
(* "begin" is history: what a reading found when it began.                    *)

Closed == {i \in 1..Len(rows) : rows[i].result # Open}

\* The SELECTs of the two aggregate queries, in order; the first four of stats
\* count the same rows, its last two the rows with a flag set.
Selects == [stats   |-> <<"all", "placed">>,
            winrate |-> <<"closed", "closed">>]

NoLog == <<"none", "none">>

Idle == [pc |-> "idle", op |-> "none", log |-> NoLog, alter |-> 0, id |-> 0,
         memory |-> None, body |-> None, counts |-> << >>,
         begin |-> [aged |-> 0, length |-> 0, closed |-> {}]]

\* The window and the closed rows, where a reading begins.
Beginning(op) ==
  IF op \in DOMAIN Selects THEN [aged |-> aged, length |-> Len(rows), closed |-> Closed]
                           ELSE Idle.begin

JournalInit ==
  /\ \E d \in Databases :
       /\ columns = ColumnsOf(d)
       /\ rows = IF d = "none" THEN << >> ELSE <<OldRow>>
  /\ aged = 0
  /\ ready = [i \in Instances |-> FALSE]
  /\ call = [c \in Calls |-> Idle]
  /\ faults = 0 /\ refused = [i \in Instances |-> {}]

GoTo(c, place) == call' = [call EXCEPT ![c].pc = place]

\* A request reaches instance i: init_schema comes first unless it has run.
Begins(c, i, op, id, body) ==
  /\ call[c] = Idle
  /\ call' = [call EXCEPT ![c] = [Idle EXCEPT
       !.pc = IF ready[i] THEN "run" ELSE "script",
       !.op = op, !.log = i, !.id = id, !.body = body,
       !.begin = Beginning(op)]]
  /\ UNCHANGED <<columns, rows, aged, ready, faults, refused>>

\* Fault: init_schema is over after the script.
ScriptOnly(c) ==
  /\ call[c].pc = "script"
  /\ columns' = ScriptColumns
  /\ call' = [call EXCEPT ![c].pc = IF ScriptWorks THEN "alter" ELSE "broken",
                          ![c].alter = Len(Migrations)]
  /\ UNCHANGED <<rows, aged, ready, faults, refused>>

Script(c) ==
  /\ call[c].pc = "script"
  /\ columns' = ScriptColumns
  /\ GoTo(c, IF ScriptWorks THEN "alter" ELSE "broken")
  /\ UNCHANGED <<rows, aged, ready, faults, refused>>

\* Bound of the model: the faults that may still happen.
OneMoreFault == faults < MaxFaults /\ faults' = faults + 1

\* The script is refused, before the table is made or at one of its indexes:
\* the exception goes to the caller.
ScriptRefused(c) ==
  /\ call[c].pc = "script" /\ OneMoreFault
  /\ columns' \in {columns, ScriptColumns}
  /\ GoTo(c, "failed")
  /\ UNCHANGED <<rows, aged, ready, refused>>

\* The next ALTER; one whose column is there raises and is passed over.
Alter(c) ==
  /\ call[c].pc = "alter" /\ call[c].alter < Len(Migrations)
  /\ columns' = columns \cup {Migrations[call[c].alter + 1]}
  /\ call' = [call EXCEPT ![c].alter = @ + 1]
  /\ UNCHANGED <<rows, aged, ready, faults, refused>>

\* It raises although the column is not there, and is passed over as well.
AlterRefused(c) ==
  /\ call[c].pc = "alter" /\ call[c].alter < Len(Migrations)
  /\ Migrations[call[c].alter + 1] \notin columns /\ OneMoreFault
  /\ refused' = [refused EXCEPT ![call[c].log] = @ \cup {Migrations[call[c].alter + 1]}]
  /\ call' = [call EXCEPT ![c].alter = @ + 1]
  /\ UNCHANGED <<columns, rows, aged, ready>>

Initialised(c) ==
  /\ call[c].pc = "alter" /\ call[c].alter = Len(Migrations)
  /\ ready' = [ready EXCEPT ![call[c].log] = TRUE]
  /\ GoTo(c, "run")
  /\ UNCHANGED <<columns, rows, aged, faults, refused>>

Ends(c) == call' = [call EXCEPT ![c] = Idle]

\* The columns a call's statements name beyond those of every version; get_by_id
\* is a SELECT *.
Named(c) ==
  CASE call[c].pc = "write"   -> {"outcome", "detail"}
    [] call[c].op = "record"  -> {"execution", "plan"}
    [] call[c].op = "stats"   -> {"execution"}
    [] call[c].op = "winrate" -> {"outcome"}
    [] OTHER -> {}

Runs(c, place) == call[c].pc = place /\ Named(c) \subseteq columns

\* A statement that names a column the table has not raises, and the call with it.
Breaks(c) ==
  /\ call[c].pc \in {"run", "write"} /\ ~(Named(c) \subseteq columns)
  /\ GoTo(c, "broken")
  /\ UNCHANGED <<columns, rows, aged, ready, faults, refused>>

\* So does one that the database refuses.
StatementRefused(c) ==
  /\ call[c].pc \in {"run", "write"} /\ OneMoreFault
  /\ GoTo(c, "failed")
  /\ UNCHANGED <<columns, rows, aged, ready, refused>>

\* _insert_blocking: the alert with its plan and what the executor returned.
Insert(c, alert, rr) ==
  /\ Runs(c, "run") /\ call[c].op = "record"
  /\ \E order \in {None, CTraderOrder("hybrid", alert, rr)} :
       rows' = Append(rows, Recorded(BuildPlan("hybrid", alert, rr, Budget), order))
  /\ Ends(c)
  /\ UNCHANGED <<columns, aged, ready, faults, refused>>

\* update_outcome: get_by_id, 404 when there is no such row.
ReadRow(c) ==
  /\ call[c].pc = "run" /\ call[c].op = "patch"
  /\ IF call[c].id \in 1..Len(rows)
     THEN call' = [call EXCEPT ![c].memory = rows[call[c].id].plan, ![c].pc = "write"]
     ELSE Ends(c)
  /\ UNCHANGED <<columns, rows, aged, ready, faults, refused>>

\* Fault: a PATCH without a pnl leaves the pnl of an earlier one.
WriteOutcomeKeepingPnl(c) ==
  /\ Runs(c, "write")
  /\ LET new == Settled(call[c].memory, call[c].body) IN
       rows' = [rows EXCEPT ![call[c].id].result =
                  [new EXCEPT !.pnl = IF new.pnl = 0 THEN rows[call[c].id].result.pnl ELSE @]]
  /\ Ends(c)
  /\ UNCHANGED <<columns, aged, ready, faults, refused>>

\* One UPDATE of every outcome column, from the plan read before.
WriteOutcome(c) ==
  /\ Runs(c, "write")
  /\ rows' = [rows EXCEPT ![call[c].id].result = Settled(call[c].memory, call[c].body)]
  /\ Ends(c)
  /\ UNCHANGED <<columns, aged, ready, faults, refused>>

\* What the WHERE of a SELECT asks of row i, and the ids it counts.
Meets(select, i) ==
  /\ select = "placed" => rows[i].order # None
  /\ select = "closed" => rows[i].result # Open

Counted(select) == {i \in (aged + 1)..Len(rows) : Meets(select, i)}

\* Fault: the window is left out of the aggregates.
SelectAllTime(c) ==
  /\ Runs(c, "run") /\ call[c].op \in DOMAIN Selects
  /\ LET query == Selects[call[c].op] IN
       /\ Len(call[c].counts) < Len(query)
       /\ LET select == query[Len(call[c].counts) + 1] IN
            call' = [call EXCEPT ![c].counts =
                       Append(@, Cardinality({i \in 1..Len(rows) :
                         select = "closed" => rows[i].result # Open}))]
  /\ UNCHANGED <<columns, rows, aged, ready, faults, refused>>

\* _stats_blocking, _winrate_blocking: the next SELECT.
Select(c) ==
  /\ Runs(c, "run") /\ call[c].op \in DOMAIN Selects
  /\ LET query == Selects[call[c].op] IN
       /\ Len(call[c].counts) < Len(query)
       /\ call' = [call EXCEPT ![c].counts =
                     Append(@, Cardinality(Counted(query[Len(@) + 1])))]
  /\ UNCHANGED <<columns, rows, aged, ready, faults, refused>>

Answer(c) ==
  /\ \/ call[c].pc \in {"failed", "broken"}
     \/ /\ call[c].pc = "run" /\ call[c].op \in DOMAIN Selects
        /\ Len(call[c].counts) = Len(Selects[call[c].op])
  /\ Ends(c)
  /\ UNCHANGED <<columns, rows, aged, ready, faults, refused>>

\* Worker w dies, its calls with it; its instances start afresh.
Crash(w) ==
  /\ OneMoreFault
  /\ ready' = [i \in Instances |-> i[1] # w /\ ready[i]]
  /\ refused' = [i \in Instances |-> IF i[1] = w THEN {} ELSE refused[i]]
  /\ call' = [c \in Calls |-> IF call[c].log[1] = w THEN Idle ELSE call[c]]
  /\ UNCHANGED <<columns, rows, aged>>

\* The oldest row leaves the window.
Age ==
  /\ aged < Len(rows)
  /\ aged' = aged + 1
  /\ UNCHANGED <<columns, rows, ready, call, faults, refused>>

\* Bound of the model: the rows there are and those under way.
Room == Len(rows) + Cardinality({c \in Calls : call[c].op = "record"}) < MaxRows

JournalNext ==
  \/ \E c \in Calls :
       \/ \E i \in Writers : Room /\ Begins(c, i, "record", 0, None)
       \/ \E i \in Readers :
            \/ \E op \in {"stats", "winrate"} : Begins(c, i, op, 0, None)
            \/ \E id \in 1..MaxRows, body \in Bodies : Begins(c, i, "patch", id, body)
       \/ Script(c) \/ ScriptRefused(c) \/ Alter(c) \/ AlterRefused(c) \/ Initialised(c)
       \/ \E alert \in Alerts, rr \in Rrs : Insert(c, alert, rr)
       \/ ReadRow(c) \/ WriteOutcome(c)
       \/ Select(c) \/ Breaks(c) \/ StatementRefused(c) \/ Answer(c)
  \/ \E w \in Workers : Crash(w)
  \/ Age

JournalSpec == JournalInit /\ [][JournalNext]_journalVars

-----------------------------------------------------------------------------

\* "Older databases are migrated in-place via idempotent ALTER TABLE statements
\* in _init_schema_blocking" (signal_log.py:8): no call fails for a column that
\* the table has not.
MigratedInPlace == \A c \in Calls : call[c].pc # "broken"

\* What a migration may leave undone: an instance that takes the schema for ready
\* lacks no column but one whose ALTER it saw refused, and a call fails for a
\* missing column only in such an instance or on a table of the first version.
\* Migrations of several instances at a time, a crash between two ALTERs and a
\* refused script leave no column out (_init_schema_blocking, init_schema).
MissingOnlyIfRefused ==
  /\ \A i \in Instances : ready[i] => AllColumns \ columns \subseteq refused[i]
  /\ \A c \in Calls : call[c].pc = "broken" =>
       refused[call[c].log] # {} \/ "outcome" \notin columns

\* Outcome, exit price, R and money of a row are those of one and the same
\* PATCH, reckoned by the plan of that row, in whatever order two updates of it
\* and the inserts of others interleave (dashboard update_outcome).
OutcomeWhole ==
  \A i \in Closed : \E body \in Bodies : rows[i].result = Settled(rows[i].plan, body)

\* The rows that met a SELECT's condition all the while since a call began,
\* and those that met it at some time.
Throughout(begin, select) ==
  {i \in (aged + 1)..begin.length :
     Meets(select, i) /\ (select = "closed" => i \in begin.closed)}

Sometime(begin, select) == {i \in (begin.aged + 1)..Len(rows) : Meets(select, i)}

\* A SELECT of stats or winrate counts every row that met its condition while
\* the whole reading lasted and none that never did: what two SELECTs of one
\* answer disagree by has happened between them (_stats_blocking,
\* _winrate_blocking).
ReadingsBracketed ==
  \A c \in Calls : \A k \in 1..Len(call[c].counts) :
    LET select == Selects[call[c].op][k]
    IN /\ Cardinality(Throughout(call[c].begin, select)) <= call[c].counts[k]
       /\ call[c].counts[k] <= Cardinality(Sometime(call[c].begin, select))

=============================================================================
