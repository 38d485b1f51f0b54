------------------------------ MODULE History ------------------------------
(***************************************************************************)
(* The history of inputs and outputs the Core keeps in a database:         *)
(* STMYSQLClient (mysql-client.c), the points it stores when a peer        *)
(* becomes ready (register_ready_client of mdns.c) and the handlers of     *)
(* their changes (main.c).  The database may go and come back, the         *)
(* connection may break in the middle of a query, and the Core may die     *)
(* and be started again; the tables outlive both.                          *)
(*                                                                         *)
(* A query blocks the main loop.  The database is a table of labels and,   *)
(* for each point, its rows in the order of their identifiers.             *)
(***************************************************************************)
EXTENDS Integers, Sequences

CONSTANTS
    Points,      \* names of inputs and outputs
    Values,      \* values of a point
    Stored,      \* what %lf leaves of a value, six digits
    Reconnects,  \* the Core was built with MYSQL_OPT_RECONNECT
    None,
    MaxClock,    \* bound: the clock of the database
    MaxRows,     \* bound: rows of a point
    MaxFaults    \* bound: outages, broken connections and deaths

ASSUME HistoryAssumption ==
    /\ Stored \in [Values -> Values]
    /\ \A v \in Values : Stored[Stored[v]] = Stored[v]
    /\ Reconnects \in BOOLEAN
    /\ None \notin Points \cup Values
    /\ MaxClock \in Nat /\ MaxRows \in Nat /\ MaxFaults \in Nat

VARIABLES
    up,       \* the database answers
    clock,    \* its clock, in milliseconds
    labels,   \* points that have a label
    rows,     \* the history of each point
    handle,   \* the connection of the Core: "none" if it never had one
    core,     \* the Core runs
    value,    \* the value of a point that is registered
    step,     \* the point whose registration is under way, and how far
    skipped,  \* since the last row of a point there was a change, or a look at
              \* it, that did not get through (for the properties only)
    faults    \* faults so far

tables == <<labels, rows>>
vars == <<up, clock, tables, handle, core, value, step, skipped, faults>>

Idle == [point |-> None, do |-> "nothing", val |-> None, last |-> None]

TypeOK ==
    /\ up \in BOOLEAN /\ clock \in 0 .. MaxClock
    /\ labels \subseteq Points
    /\ rows \in [Points -> Seq([val : Values, at : 0 .. MaxClock])]
    /\ \A p \in Points : rows[p] # <<>> => p \in labels
    /\ handle \in {"connected", "lost", "none"}
    /\ handle = "connected" => up
    /\ handle # "none" \/ step # Idle => core
    /\ core \in BOOLEAN
    /\ value \in [Points -> Values \cup {None}]
    /\ step \in {Idle} \cup [point : Points, do : {"label", "last", "store"},
                             val : Values, last : Values \cup {None}]
    /\ step # Idle => value[step.point] = None
    /\ skipped \in [Points -> BOOLEAN]
    /\ faults \in 0 .. MaxFaults

Init ==
    /\ up \in BOOLEAN
    /\ clock = 0
    /\ labels = {}
    /\ rows = [p \in Points |-> <<>>]
    /\ handle = IF up THEN "connected" ELSE "none"
    /\ core = TRUE
    /\ value = [p \in Points |-> None]
    /\ step = Idle
    /\ skipped = [p \in Points |-> FALSE]
    /\ faults = 0

-----------------------------------------------------------------------------
(***************************************************************************)
(* A query                                                                 *)
(***************************************************************************)

\* What becomes of a query.  A connection may break after the query was carried
\* out and before its answer; one that is lost is made anew by the next query, or
\* by the one after.
Outcomes ==
    CASE handle = "connected" -> {"answered"} \cup {o \in {"unanswered"} : faults < MaxFaults}
      [] handle = "lost" /\ up /\ Reconnects -> {"answered", "failed"}
      [] OTHER -> {"failed"}

CarriedOut(outcome) == outcome # "failed"

Queries(outcome) ==
    /\ outcome \in Outcomes
    /\ handle' = CASE outcome = "answered" -> "connected"
                   [] outcome = "unanswered" -> "lost"
                   [] OTHER -> handle
    /\ faults' = IF outcome = "unanswered" THEN faults + 1 ELSE faults

\* Mutant: a row needs no label.
StoresUnlabelled(p, v, outcome) ==
    /\ Len(rows[p]) < MaxRows
    /\ Queries(outcome)
    /\ IF CarriedOut(outcome)
       THEN /\ rows' = [rows EXCEPT ![p] = Append(@, [val |-> Stored[v], at |-> clock])]
            /\ skipped' = [skipped EXCEPT ![p] = FALSE]
       ELSE /\ skipped' = [skipped EXCEPT ![p] = TRUE]
            /\ UNCHANGED rows

\* st_mysql_client_store_history.  The row refers to a label, which there may not
\* be.
Stores(p, v, outcome) ==
    /\ Len(rows[p]) < MaxRows
    /\ Queries(outcome)
    /\ IF CarriedOut(outcome) /\ p \in labels
       THEN /\ rows' = [rows EXCEPT ![p] = Append(@, [val |-> Stored[v], at |-> clock])]
            /\ skipped' = [skipped EXCEPT ![p] = FALSE]
       ELSE /\ skipped' = [skipped EXCEPT ![p] = TRUE]
            /\ UNCHANGED rows

\* Mutant: the oldest row comes first.
OldestRows(p) ==
    {rows[p][i] : i \in {j \in DOMAIN rows[p] :
                            \A k \in DOMAIN rows[p] : rows[p][k].at >= rows[p][j].at}}

\* The rows ORDER BY timestamp DESC may have first.
NewestRows(p) ==
    {rows[p][i] : i \in {j \in DOMAIN rows[p] :
                            \A k \in DOMAIN rows[p] : rows[p][k].at <= rows[p][j].at}}

-----------------------------------------------------------------------------
(***************************************************************************)
(* Registration of a point of a peer that became ready                     *)
(***************************************************************************)

Free == core /\ step = Idle

\* One whose flags say so is left out of the history.
Register(p) ==
    /\ Free /\ value[p] = None
    /\ \E v \in Values :
          \/ /\ step' = [point |-> p, do |-> "label", val |-> v, last |-> None]
             /\ UNCHANGED <<value, skipped>>
          \/ /\ value' = [value EXCEPT ![p] = v]
             /\ skipped' = [skipped EXCEPT ![p] = TRUE]
             /\ UNCHANGED step
    /\ UNCHANGED <<up, clock, tables, handle, core, faults>>

\* A failure is not looked at.
StoreLabel ==
    /\ step.do = "label"
    /\ \E outcome \in Outcomes :
          /\ Queries(outcome)
          /\ labels' = IF CarriedOut(outcome) THEN labels \cup {step.point} ELSE labels
    /\ step' = [step EXCEPT !.do = "last"]
    /\ UNCHANGED <<up, clock, rows, core, value, skipped>>

\* st_mysql_client_get_last_history_value: ST_INVALID_VALUE, which is no value of
\* the point, if there is no row or no answer.
GetLastValue ==
    /\ step.do = "last"
    /\ \E outcome \in Outcomes :
          /\ Queries(outcome)
          /\ IF outcome = "answered"
             THEN /\ step' \in [point : {step.point}, do : {"store"}, val : {step.val},
                                last : IF rows[step.point] = <<>> THEN {None}
                                       ELSE {r.val : r \in NewestRows(step.point)}]
                  /\ UNCHANGED skipped
             ELSE /\ step' = [step EXCEPT !.do = "store"]
                  /\ skipped' = [skipped EXCEPT ![step.point] = TRUE]
    /\ UNCHANGED <<up, clock, tables, core, value>>

\* Mutant: a value found is stored again.
StoreFirstAlways ==
    /\ step.do = "store"
    /\ value' = [value EXCEPT ![step.point] = step.val]
    /\ step' = Idle
    /\ \E outcome \in Outcomes : Stores(step.point, step.val, outcome)
    /\ UNCHANGED <<up, clock, labels, core>>

\* The value is stored unless it is the last one stored.
StoreFirst ==
    /\ step.do = "store"
    /\ value' = [value EXCEPT ![step.point] = step.val]
    /\ step' = Idle
    /\ IF step.last = step.val
       THEN /\ skipped' = [skipped EXCEPT ![step.point] = FALSE]
            /\ UNCHANGED <<rows, handle, faults>>
       ELSE \E outcome \in Outcomes : Stores(step.point, step.val, outcome)
    /\ UNCHANGED <<up, clock, labels, core>>

-----------------------------------------------------------------------------
(***************************************************************************)
(* Changes                                                                 *)
(***************************************************************************)

\* st_core_input_changed_callback, st_core_output_changed_callback; the flags
\* may keep the change out of the history.
Changed(p) ==
    /\ Free /\ value[p] # None
    /\ \E v \in Values \ {value[p]} :
          /\ value' = [value EXCEPT ![p] = v]
          /\ \/ \E outcome \in Outcomes : Stores(p, v, outcome)
             \/ /\ skipped' = [skipped EXCEPT ![p] = TRUE]
                /\ UNCHANGED <<rows, handle, faults>>
    /\ UNCHANGED <<up, clock, labels, core, step>>

\* The row of a service's statistics is a query like any other.
OnStatsChanged ==
    /\ Free
    /\ \E outcome \in Outcomes : Queries(outcome)
    /\ UNCHANGED <<up, clock, tables, core, value, step, skipped>>

\* The peer of a point is withdrawn.
Gone(p) ==
    /\ Free /\ value[p] # None
    /\ value' = [value EXCEPT ![p] = None]
    /\ UNCHANGED <<up, clock, tables, handle, core, step, skipped, faults>>

-----------------------------------------------------------------------------
(***************************************************************************)
(* Faults                                                                  *)
(***************************************************************************)

DatabaseGoes ==
    /\ up /\ faults < MaxFaults
    /\ faults' = faults + 1
    /\ up' = FALSE
    /\ handle' = IF handle = "connected" THEN "lost" ELSE handle
    /\ UNCHANGED <<clock, tables, core, value, step, skipped>>

DatabaseReturns ==
    /\ ~up
    /\ up' = TRUE
    /\ UNCHANGED <<clock, tables, handle, core, value, step, skipped, faults>>

Tick ==
    /\ clock < MaxClock
    /\ clock' = clock + 1
    /\ UNCHANGED <<up, tables, handle, core, value, step, skipped, faults>>

\* The Core ends, perhaps in the middle of a registration, with all it knew.
CoreDies ==
    /\ core /\ faults < MaxFaults
    /\ faults' = faults + 1
    /\ core' = FALSE
    /\ handle' = "none"
    /\ value' = [p \in Points |-> None]
    /\ step' = Idle
    /\ UNCHANGED <<up, clock, tables, skipped>>

\* st_mysql_client_new: a Core that cannot connect goes on without.
CoreStarts ==
    /\ ~core
    /\ core' = TRUE
    /\ handle' = IF up THEN "connected" ELSE "none"
    /\ UNCHANGED <<up, clock, tables, value, step, skipped, faults>>

Next ==
    \/ \E p \in Points : Register(p) \/ Changed(p) \/ Gone(p)
    \/ StoreLabel \/ GetLastValue \/ StoreFirst
    \/ OnStatsChanged
    \/ DatabaseGoes \/ DatabaseReturns \/ Tick
    \/ CoreDies \/ CoreStarts

Spec == Init /\ [][Next]_vars

-----------------------------------------------------------------------------
(***************************************************************************)
(* Properties                                                              *)
(***************************************************************************)

\* The history of a point ends with its value, as far as six digits tell it, across
\* outages of the database and deaths of the Core: registration makes good what
\* was missed while the peer or the Core was away.  Only a point some change or
\* some query of which did not get through since its last row may differ, until it
\* changes or is registered again.
LatestRowIsValue ==
    \A p \in Points : value[p] # None /\ ~skipped[p] =>
        \E r \in NewestRows(p) : r.val = Stored[value[p]]

\* No row repeats the one before unless something in between did not get through,
\* six digits do not tell the values apart, or two rows before have the same time
\* and the look at the last one could not tell which it was.
NoRowRepeated ==
    [][\A p \in Points :
          LET n == Len(rows[p])
              row == rows'[p][n + 1]
          IN  n > 0 /\ Len(rows'[p]) > n /\ row.val = rows[p][n].val =>
                  \/ skipped[p]
                  \/ \E v \in Values : v # Stored[v] /\ Stored[v] = row.val
                  \/ n > 1 /\ rows[p][n - 1].at = rows[p][n].at]_vars
=============================================================================
