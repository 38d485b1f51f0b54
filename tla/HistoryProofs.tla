--------------------------- MODULE HistoryProofs ---------------------------
(***************************************************************************)
(* What the history holds, for any points, values and bounds, with proofs. *)
(* The registration of a point compares its value with a row read two      *)
(* queries before; the invariant carries what was read across them.        *)
(***************************************************************************)
EXTENDS History, TLAPS

\* The rows of a point are in the order of their times, none is of the future, and
\* all hold values of six digits.
RowsInOrder ==
    \A p \in Points : \A i \in DOMAIN rows[p] :
        /\ rows[p][i].at <= clock
        /\ Stored[rows[p][i].val] = rows[p][i].val
        /\ \A j \in DOMAIN rows[p] : i <= j => rows[p][i].at <= rows[p][j].at

Newest(p, v) == \E r \in NewestRows(p) : r.val = v

\* What a registration found, if it got an answer, is still the newest row.
LookedUp ==
    /\ step.last # None => step.do = "store" /\ Newest(step.point, step.last)
    /\ step.do = "store" /\ step.last = None /\ ~skipped[step.point]
          => rows[step.point] = <<>>

IInv == TypeOK /\ RowsInOrder /\ LookedUp /\ LatestRowIsValue

Row == [val : Values, at : 0 .. MaxClock]

\* A query leaves a connection that a running Core can have.
LEMMA QueriesKeepType ==
    ASSUME TypeOK, NEW o, Queries(o), core, UNCHANGED up
    PROVE  /\ handle' \in {"connected", "lost", "none"}
           /\ handle' = "connected" => up'
           /\ faults' \in 0 .. MaxFaults
  BY HistoryAssumption DEF TypeOK, Queries, Outcomes

\* A row is appended with the time there is, which is the newest.
LEMMA StoresRow ==
    ASSUME TypeOK, RowsInOrder, core, NEW p \in Points, NEW v \in Values, NEW o,
           Stores(p, v, o), UNCHANGED <<up, clock, labels>>
    PROVE  /\ rows' \in [Points -> Seq(Row)]
           /\ \A q \in Points : rows'[q] # <<>> => q \in labels
           /\ skipped' \in [Points -> BOOLEAN]
           /\ RowsInOrder'
           /\ skipped'[p] \/ Newest(p, Stored[v])'
           /\ \A q \in Points \ {p} : rows'[q] = rows[q] /\ skipped'[q] = skipped[q]
<1>1. CASE ~(CarriedOut(o) /\ p \in labels)
  <2>1. rows' = rows /\ skipped' = [skipped EXCEPT ![p] = TRUE]
    BY <1>1 DEF Stores
  <2>2. skipped' \in [Points -> BOOLEAN] /\ skipped'[p]
    BY <2>1 DEF TypeOK
  <2>3. RowsInOrder'
    BY <2>1 DEF RowsInOrder
  <2> QED BY <2>1, <2>2, <2>3 DEF TypeOK, Row
<1>2. CASE CarriedOut(o) /\ p \in labels
  <2> DEFINE new == [val |-> Stored[v], at |-> clock]
             s == rows[p]
             n == Len(s)
  <2>1. s \in Seq(Row) /\ new \in Row /\ clock \in 0 .. MaxClock
    BY HistoryAssumption DEF TypeOK, Row
  <2>2. /\ Append(s, new) \in Seq(Row)
        /\ Len(Append(s, new)) = n + 1
        /\ Append(s, new)[n + 1] = new
        /\ \A i \in 1 .. n : Append(s, new)[i] = s[i]
        /\ n \in Nat /\ DOMAIN s = 1 .. n /\ DOMAIN Append(s, new) = 1 .. n + 1
    BY <2>1
  <2>3. rows' = [rows EXCEPT ![p] = Append(s, new)] /\ rows \in [Points -> Seq(Row)]
    BY <1>2 DEF Stores, TypeOK, Row
  <2>4. rows'[p] = Append(s, new) /\ \A q \in Points \ {p} : rows'[q] = rows[q]
    BY <2>3
  <2>5. skipped' = [skipped EXCEPT ![p] = FALSE] /\ skipped \in [Points -> BOOLEAN]
    BY <1>2 DEF Stores, TypeOK
  <2>6. rows' \in [Points -> Seq(Row)]
    BY <2>2, <2>3
  <2>7. \A q \in Points : rows'[q] # <<>> => q \in labels
    BY <1>2, <2>4 DEF TypeOK
  <2>8. Stored[Stored[v]] = Stored[v]
    BY HistoryAssumption
  <2>9. RowsInOrder'
    <3> SUFFICES ASSUME NEW q \in Points, NEW i \in DOMAIN rows'[q]
                 PROVE  /\ rows'[q][i].at <= clock
                        /\ Stored[rows'[q][i].val] = rows'[q][i].val
                        /\ \A j \in DOMAIN rows'[q] :
                              i <= j => rows'[q][i].at <= rows'[q][j].at
      BY DEF RowsInOrder
    <3>1. CASE q # p
      BY <2>4, <3>1 DEF RowsInOrder
    <3>2. CASE q = p /\ i = n + 1
      <4>1. rows'[q][i] = new
        BY <2>2, <2>4, <3>2
      <4>2. \A j \in DOMAIN rows'[q] : i <= j => j = i
        BY <2>2, <2>4, <3>2
      <4> QED BY <2>1, <2>8, <4>1, <4>2
    <3>3. CASE q = p /\ i # n + 1
      <4>1. i \in 1 .. n /\ rows'[q][i] = s[i]
        BY <2>2, <2>4, <3>3
      <4>2. /\ s[i].at <= clock
            /\ Stored[s[i].val] = s[i].val
            /\ \A j \in 1 .. n : i <= j => s[i].at <= s[j].at
        BY <2>2, <4>1 DEF RowsInOrder
      <4>3. \A j \in DOMAIN rows'[q] :
               \/ j \in 1 .. n /\ rows'[q][j] = s[j]
               \/ rows'[q][j].at = clock
        BY <2>2, <2>4, <3>3
      <4> QED BY <4>1, <4>2, <4>3
    <3> QED BY <3>1, <3>2, <3>3
  <2>10. Newest(p, Stored[v])'
    <3>1. n + 1 \in DOMAIN rows'[p] /\ rows'[p][n + 1] = new
      BY <2>2, <2>4
    <3>2. \A k \in DOMAIN rows'[p] : rows'[p][k].at <= clock
      BY <2>9 DEF RowsInOrder
    <3>3. \A k \in DOMAIN rows'[p] : rows'[p][k].at <= rows'[p][n + 1].at
      BY <3>1, <3>2
    <3>4. rows'[p][n + 1] \in NewestRows(p)'
      BY <3>1, <3>3 DEF NewestRows
    <3> QED BY <3>1, <3>4 DEF Newest
  <2> QED BY <2>4, <2>5, <2>6, <2>7, <2>9, <2>10
<1> QED BY <1>1, <1>2

\* What holds of the tables before a step that leaves them alone holds after it.
LEMMA RowsUnchanged ==
    ASSUME UNCHANGED rows, RowsInOrder, UNCHANGED clock
    PROVE  /\ RowsInOrder'
           /\ \A p : NewestRows(p)' = NewestRows(p)
  BY DEF RowsInOrder, NewestRows

\* A change of one point that is stored or given up leaves the rows of the others the
\* newest.
LEMMA LatestAfterChange ==
    ASSUME LatestRowIsValue, NEW p \in Points, NEW v,
           value'[p] = v, \A q \in Points \ {p} : value'[q] = value[q],
           skipped'[p] \/ Newest(p, Stored[v])',
           \A q \in Points \ {p} : rows'[q] = rows[q] /\ skipped'[q] = skipped[q]
    PROVE  LatestRowIsValue'
<1> SUFFICES ASSUME NEW q \in Points, value'[q] # None, ~skipped'[q]
             PROVE  \E r \in NewestRows(q)' : r.val = Stored[value'[q]]
  BY DEF LatestRowIsValue
<1>1. CASE q = p
  BY <1>1 DEF Newest, NewestRows
<1>2. CASE q # p
  <2>1. NewestRows(q)' = NewestRows(q)
    BY <1>2 DEF NewestRows
  <2>2. \E r \in NewestRows(q) : r.val = Stored[value[q]]
    BY <1>2 DEF LatestRowIsValue
  <2> QED BY <1>2, <2>1, <2>2
<1> QED BY <1>1, <1>2

\* The initial states satisfy the invariant.
LEMMA InitIInv == Init => IInv
<1> SUFFICES ASSUME Init PROVE IInv
  OBVIOUS
<1>1. TypeOK
  <2>1. rows \in [Points -> Seq(Row)]
    BY DEF Init
  <2> QED BY <2>1, HistoryAssumption DEF Init, TypeOK, Idle, Row
<1>2. RowsInOrder /\ LookedUp /\ LatestRowIsValue
  BY DEF Init, RowsInOrder, LookedUp, LatestRowIsValue, Idle
<1> QED BY <1>1, <1>2 DEF IInv

\* A step that leaves the rows, the values and the registration under way alone.
LEMMA TablesAlone ==
    ASSUME IInv, UNCHANGED <<rows, clock, value, step, skipped>>
    PROVE  RowsInOrder' /\ LookedUp' /\ LatestRowIsValue'
<1>1. RowsInOrder' /\ \A p : NewestRows(p)' = NewestRows(p)
  BY RowsUnchanged DEF IInv
<1>2. LookedUp'
  BY <1>1 DEF IInv, LookedUp, Newest
<1>3. LatestRowIsValue'
  BY <1>1 DEF IInv, LatestRowIsValue
<1> QED BY <1>1, <1>2, <1>3

\* A registration begins, or the point is left out of the history.
LEMMA RegisterIInv ==
    ASSUME IInv, NEW p \in Points, Register(p)
    PROVE  IInv'
<1> USE DEF IInv
<1>1. RowsInOrder' /\ \A q : NewestRows(q)' = NewestRows(q)
  BY RowsUnchanged DEF Register, tables
<1>2. PICK v \in Values :
        \/ /\ step' = [point |-> p, do |-> "label", val |-> v, last |-> None]
           /\ UNCHANGED <<value, skipped>>
        \/ /\ value' = [value EXCEPT ![p] = v]
           /\ skipped' = [skipped EXCEPT ![p] = TRUE]
           /\ UNCHANGED step
  BY DEF Register
<1>3. /\ core /\ step = Idle /\ value[p] = None
      /\ UNCHANGED <<up, clock, labels, rows, handle, core, faults>>
  BY DEF Register, Free, tables
<1>4. step' # Idle => value'[step'.point] = None
  BY <1>2, <1>3 DEF TypeOK
<1>5. /\ value' \in [Points -> Values \cup {None}]
      /\ skipped' \in [Points -> BOOLEAN]
      /\ step' \in {Idle} \cup [point : Points, do : {"label", "last", "store"},
                                val : Values, last : Values \cup {None}]
      /\ \A q \in Points : value'[q] # value[q] => skipped'[q]
      /\ \A q \in Points : skipped[q] => skipped'[q]
  <2>1. CASE step' = [point |-> p, do |-> "label", val |-> v, last |-> None]
             /\ UNCHANGED <<value, skipped>>
    BY <2>1 DEF TypeOK
  <2>2. CASE /\ value' = [value EXCEPT ![p] = v]
             /\ skipped' = [skipped EXCEPT ![p] = TRUE]
             /\ UNCHANGED step
    BY <2>2 DEF TypeOK
  <2> QED BY <1>2, <2>1, <2>2
<1>12. TypeOK'
  BY <1>3, <1>4, <1>5 DEF TypeOK
<1>6. LookedUp'
  BY <1>2, <1>3 DEF LookedUp, Idle
<1>7. LatestRowIsValue'
  BY <1>1, <1>5 DEF LatestRowIsValue
<1> QED BY <1>1, <1>12, <1>6, <1>7

\* The label is stored, or not; no row is touched.
LEMMA StoreLabelIInv ==
    ASSUME IInv, StoreLabel
    PROVE  IInv'
<1> USE DEF IInv
<1>1. PICK o \in Outcomes :
         Queries(o) /\ labels' = IF CarriedOut(o) THEN labels \cup {step.point} ELSE labels
  BY DEF StoreLabel
<1>2. /\ step.do = "label" /\ step' = [step EXCEPT !.do = "last"]
      /\ UNCHANGED <<up, clock, rows, core, value, skipped>>
  BY DEF StoreLabel
<1>3. step # Idle /\ core
  BY <1>2 DEF Idle, TypeOK
<1>4. /\ handle' \in {"connected", "lost", "none"}
      /\ handle' = "connected" => up'
      /\ faults' \in 0 .. MaxFaults
  BY <1>1, <1>2, <1>3, QueriesKeepType
<1>5. /\ step' \in [point : Points, do : {"label", "last", "store"},
                    val : Values, last : Values \cup {None}]
      /\ step'.point = step.point /\ step'.do = "last"
  BY <1>2, <1>3 DEF TypeOK
<1>6. labels' \subseteq Points /\ labels \subseteq labels'
  BY <1>1, <1>3 DEF TypeOK
<1>7. TypeOK'
  BY <1>2, <1>3, <1>4, <1>5, <1>6 DEF TypeOK
<1>8. RowsInOrder'
  BY <1>2, RowsUnchanged
<1>9. LookedUp'
  BY <1>2, <1>3, <1>5 DEF LookedUp, TypeOK
<1>10. LatestRowIsValue'
  BY <1>2, RowsUnchanged DEF LatestRowIsValue
<1> QED BY <1>7, <1>8, <1>9, <1>10

\* What is read is a value of a newest row.
LEMMA GetLastValueIInv ==
    ASSUME IInv, GetLastValue
    PROVE  IInv'
<1> USE DEF IInv
<1>1. PICK o \in Outcomes :
        /\ Queries(o)
        /\ IF o = "answered"
           THEN /\ step' \in [point : {step.point}, do : {"store"}, val : {step.val},
                              last : IF rows[step.point] = <<>> THEN {None}
                                     ELSE {r.val : r \in NewestRows(step.point)}]
                /\ UNCHANGED skipped
           ELSE /\ step' = [step EXCEPT !.do = "store"]
                /\ skipped' = [skipped EXCEPT ![step.point] = TRUE]
  BY DEF GetLastValue
<1>2. step.do = "last" /\ UNCHANGED <<up, clock, labels, rows, core, value>>
  BY DEF GetLastValue, tables
<1>3. /\ step # Idle /\ core
      /\ step \in [point : Points, do : {"label", "last", "store"},
                   val : Values, last : Values \cup {None}]
  BY <1>2 DEF Idle, TypeOK
<1>4. /\ handle' \in {"connected", "lost", "none"}
      /\ handle' = "connected" => up'
      /\ faults' \in 0 .. MaxFaults
  BY <1>1, <1>2, <1>3, QueriesKeepType
<1>5. \A q : NewestRows(q)' = NewestRows(q)
  BY <1>2, RowsUnchanged
<1>6. \A q \in Points : \A r \in NewestRows(q) : r.val \in Values
  <2> SUFFICES ASSUME NEW q \in Points, NEW i \in DOMAIN rows[q]
               PROVE  rows[q][i].val \in Values
    BY DEF NewestRows
  <2>1. rows[q] \in Seq(Row)
    BY DEF TypeOK, Row
  <2>2. rows[q][i] \in Row
    BY <2>1
  <2> QED BY <2>2 DEF Row
<1>7. /\ step' \in [point : Points, do : {"label", "last", "store"},
                    val : Values, last : Values \cup {None}]
      /\ step'.point = step.point
      /\ skipped' \in [Points -> BOOLEAN]
      /\ LookedUp'
  <2>1. CASE o = "answered" /\ rows[step.point] = <<>>
    BY <1>1, <1>2, <1>3, <2>1 DEF LookedUp, TypeOK
  <2>2. CASE o = "answered" /\ rows[step.point] # <<>>
    <3>1. PICK r \in NewestRows(step.point) :
             step' = [point |-> step.point, do |-> "store", val |-> step.val, last |-> r.val]
      BY <1>1, <2>2
    <3>2. r.val \in Values /\ r.val # None
      BY <1>3, <1>6, HistoryAssumption
    <3>3. Newest(step.point, r.val)'
      BY <1>5, <3>1 DEF Newest
    <3>4. skipped' = skipped
      BY <1>1, <2>2
    <3>5. step'.do = "store" /\ step'.last = r.val /\ step'.point = step.point
      BY <3>1
    <3>6. LookedUp'
      BY <3>2, <3>3, <3>5 DEF LookedUp
    <3> QED BY <1>3, <3>1, <3>2, <3>4, <3>6 DEF TypeOK
  <2>3. CASE o # "answered"
    <3>1. /\ step' \in [point : Points, do : {"label", "last", "store"},
                        val : Values, last : Values \cup {None}]
          /\ step'.point = step.point /\ step'.last = None
      BY <1>1, <1>2, <1>3, <2>3 DEF LookedUp
    <3>2. skipped'[step.point] /\ skipped' \in [Points -> BOOLEAN]
      BY <1>1, <1>3, <2>3 DEF TypeOK
    <3> QED BY <1>3, <3>1, <3>2 DEF LookedUp
  <2> QED BY <2>1, <2>2, <2>3
<1>8. TypeOK'
  BY <1>2, <1>3, <1>4, <1>7 DEF TypeOK
<1>9. RowsInOrder'
  BY <1>2, RowsUnchanged
<1>10. LatestRowIsValue'
  <2>1. \A q \in Points : skipped[q] => skipped'[q]
    BY <1>1, <1>3 DEF TypeOK
  <2> QED BY <1>2, <1>5, <2>1 DEF LatestRowIsValue
<1> QED BY <1>7, <1>8, <1>9, <1>10

\* The look at the last value made the row that is left out unnecessary.
LEMMA StoreFirstIInv ==
    ASSUME IInv, StoreFirst
    PROVE  IInv'
<1> USE DEF IInv
<1>7. step.do = "store"
  BY DEF StoreFirst
<1>8. core /\ step.point \in Points /\ step.val \in Values
  BY <1>7 DEF Idle, TypeOK
<1>2. PICK p \in Points, v \in Values : core /\ p = step.point /\ v = step.val
  BY <1>8
<1>1. /\ step.do = "store" /\ value' = [value EXCEPT ![p] = v] /\ step' = Idle
      /\ UNCHANGED <<up, clock, labels, core>>
  BY <1>2 DEF StoreFirst
<1>3. /\ value' \in [Points -> Values \cup {None}]
      /\ value'[p] = v /\ \A q \in Points \ {p} : value'[q] = value[q]
  BY <1>1, <1>2 DEF TypeOK
<1>4. LookedUp'
  BY <1>1, HistoryAssumption DEF LookedUp, Idle
<1>5. CASE step.last = v
  <2>1. skipped' = [skipped EXCEPT ![p] = FALSE] /\ UNCHANGED <<rows, handle, faults>>
    BY <1>2, <1>5 DEF StoreFirst
  <2>2. TypeOK'
    BY <1>1, <1>3, <2>1 DEF TypeOK
  <2>3. RowsInOrder' /\ \A q : NewestRows(q)' = NewestRows(q)
    BY <1>1, <2>1, RowsUnchanged
  <2>4. PICK r \in NewestRows(p) : r.val = v
    BY <1>1, <1>2, <1>5, HistoryAssumption DEF LookedUp, Newest
  <2>5. Stored[v] = v
    BY <1>2, <2>4 DEF NewestRows, RowsInOrder
  <2>6. \A q \in Points \ {p} : skipped'[q] = skipped[q]
    BY <1>2, <2>1 DEF TypeOK
  <2>7. LatestRowIsValue'
    BY <1>3, <2>3, <2>4, <2>5, <2>6 DEF LatestRowIsValue
  <2> QED BY <1>4, <2>2, <2>3, <2>7
<1>6. CASE step.last # v
  <2>1. PICK o \in Outcomes : Stores(p, v, o)
    BY <1>2, <1>6 DEF StoreFirst
  <2>2. /\ rows' \in [Points -> Seq(Row)]
        /\ \A q \in Points : rows'[q] # <<>> => q \in labels
        /\ skipped' \in [Points -> BOOLEAN]
        /\ RowsInOrder'
        /\ skipped'[p] \/ Newest(p, Stored[v])'
        /\ \A q \in Points \ {p} : rows'[q] = rows[q] /\ skipped'[q] = skipped[q]
    BY <1>1, <1>2, <2>1, StoresRow
  <2>3. /\ handle' \in {"connected", "lost", "none"}
        /\ handle' = "connected" => up'
        /\ faults' \in 0 .. MaxFaults
    BY <1>1, <1>2, <2>1, QueriesKeepType DEF Stores
  <2>4. TypeOK'
    BY <1>1, <1>2, <1>3, <2>2, <2>3 DEF TypeOK, Row
  <2>5. LatestRowIsValue'
    BY <1>3, <2>2, LatestAfterChange
  <2> QED BY <1>4, <2>2, <2>4, <2>5
<1> QED BY <1>5, <1>6

\* A change, in the history or not.
LEMMA ChangedIInv ==
    ASSUME IInv, NEW p \in Points, Changed(p)
    PROVE  IInv'
<1> USE DEF IInv
<1>1. core /\ step = Idle /\ UNCHANGED <<up, clock, labels, core, step>>
  BY DEF Changed, Free
<1>2. PICK v \in Values :
        /\ value' = [value EXCEPT ![p] = v]
        /\ \/ \E o \in Outcomes : Stores(p, v, o)
           \/ /\ skipped' = [skipped EXCEPT ![p] = TRUE]
              /\ UNCHANGED <<rows, handle, faults>>
  BY DEF Changed
<1>3. /\ value' \in [Points -> Values \cup {None}]
      /\ value'[p] = v /\ \A q \in Points \ {p} : value'[q] = value[q]
  BY <1>2 DEF TypeOK
<1>4. LookedUp'
  BY <1>1, HistoryAssumption DEF LookedUp, Idle
<1>5. CASE \E o \in Outcomes : Stores(p, v, o)
  <2>1. PICK o \in Outcomes : Stores(p, v, o)
    BY <1>5
  <2>2. /\ rows' \in [Points -> Seq(Row)]
        /\ \A q \in Points : rows'[q] # <<>> => q \in labels
        /\ skipped' \in [Points -> BOOLEAN]
        /\ RowsInOrder'
        /\ skipped'[p] \/ Newest(p, Stored[v])'
        /\ \A q \in Points \ {p} : rows'[q] = rows[q] /\ skipped'[q] = skipped[q]
    BY <1>1, <2>1, StoresRow
  <2>3. /\ handle' \in {"connected", "lost", "none"}
        /\ handle' = "connected" => up'
        /\ faults' \in 0 .. MaxFaults
    BY <1>1, <2>1, QueriesKeepType DEF Stores
  <2>4. TypeOK'
    BY <1>1, <1>3, <2>2, <2>3 DEF TypeOK, Row
  <2>5. LatestRowIsValue'
    BY <1>3, <2>2, LatestAfterChange
  <2> QED BY <1>4, <2>2, <2>4, <2>5
<1>6. CASE skipped' = [skipped EXCEPT ![p] = TRUE] /\ UNCHANGED <<rows, handle, faults>>
  <2>1. /\ skipped' \in [Points -> BOOLEAN] /\ skipped'[p]
        /\ \A q \in Points \ {p} : skipped'[q] = skipped[q]
    BY <1>6 DEF TypeOK
  <2>2. TypeOK'
    BY <1>1, <1>3, <1>6, <2>1 DEF TypeOK
  <2>3. RowsInOrder' /\ \A q : NewestRows(q)' = NewestRows(q)
    BY <1>1, <1>6, RowsUnchanged
  <2>4. LatestRowIsValue'
    BY <1>3, <2>1, <2>3 DEF LatestRowIsValue
  <2> QED BY <1>4, <2>2, <2>3, <2>4
<1> QED BY <1>2, <1>5, <1>6

\* Points that leave, one or all, take their values with them.
LEMMA LeaveIInv ==
    ASSUME IInv, (\E p \in Points : Gone(p)) \/ CoreDies
    PROVE  IInv'
<1> USE DEF IInv
<1>1. UNCHANGED <<up, clock, labels, rows, skipped>>
  BY DEF Gone, CoreDies, tables
<1>2. /\ value' \in [Points -> Values \cup {None}]
      /\ \A q \in Points : value'[q] \in {None, value[q]}
  BY DEF Gone, CoreDies, TypeOK
<1>3. step' = Idle
  BY DEF Gone, CoreDies, Free
<1>4. TypeOK'
  <2>1. CASE \E p \in Points : Gone(p)
    <3>1. core /\ UNCHANGED <<handle, core, faults>>
      BY <2>1 DEF Gone, Free
    <3> QED BY <1>1, <1>2, <1>3, <3>1 DEF TypeOK
  <2>2. CASE CoreDies
    <3>1. faults' \in 0 .. MaxFaults
      BY <2>2, HistoryAssumption DEF CoreDies, TypeOK
    <3> QED BY <1>1, <1>2, <1>3, <2>2, <3>1 DEF CoreDies, TypeOK
  <2> QED BY <2>1, <2>2
<1>5. RowsInOrder' /\ \A q : NewestRows(q)' = NewestRows(q)
  BY <1>1, RowsUnchanged
<1>6. LookedUp'
  BY <1>3 DEF LookedUp, Idle
<1>7. LatestRowIsValue'
  BY <1>1, <1>2, <1>5 DEF LatestRowIsValue
<1> QED BY <1>4, <1>5, <1>6, <1>7

\* Time only makes the rows older.
LEMMA TickIInv ==
    ASSUME IInv, Tick
    PROVE  IInv'
<1> USE DEF IInv
<1>1. /\ clock' = clock + 1 /\ clock < MaxClock
      /\ UNCHANGED <<up, labels, rows, handle, core, value, step, skipped, faults>>
  BY DEF Tick, tables
<1>2. TypeOK'
  <2>1. clock' \in 0 .. MaxClock
    BY <1>1, HistoryAssumption DEF TypeOK
  <2> QED BY <1>1, <2>1 DEF TypeOK
<1>3. RowsInOrder'
  <2> SUFFICES ASSUME NEW q \in Points, NEW i \in DOMAIN rows[q]
               PROVE  rows[q][i].at <= clock + 1
    BY <1>1 DEF RowsInOrder
  <2>1. rows[q] \in Seq(Row)
    BY DEF TypeOK, Row
  <2>2. rows[q][i].at \in Int /\ rows[q][i].at <= clock /\ clock \in Int
    <3>1. rows[q][i] \in Row
      BY <2>1
    <3> QED BY <3>1, HistoryAssumption DEF RowsInOrder, Row, TypeOK
  <2> QED BY <2>2
<1>4. \A q : NewestRows(q)' = NewestRows(q)
  BY <1>1 DEF NewestRows
<1>5. LookedUp' /\ LatestRowIsValue'
  BY <1>1, <1>4 DEF LookedUp, LatestRowIsValue, Newest
<1> QED BY <1>2, <1>3, <1>5

\* The database or the Core comes or goes, or a row of statistics is stored.
LEMMA ConnectionIInv ==
    ASSUME IInv, OnStatsChanged \/ DatabaseGoes \/ DatabaseReturns \/ CoreStarts
    PROVE  IInv'
<1> USE DEF IInv
<1>1. UNCHANGED <<labels, rows, clock, value, step, skipped>>
  BY DEF OnStatsChanged, DatabaseGoes, DatabaseReturns, CoreStarts, tables
<1>2. RowsInOrder' /\ LookedUp' /\ LatestRowIsValue'
  BY <1>1, TablesAlone
<1>3. CASE OnStatsChanged
  <2>1. core /\ UNCHANGED <<up, core>> /\ \E o \in Outcomes : Queries(o)
    BY <1>3 DEF OnStatsChanged, Free
  <2>2. /\ handle' \in {"connected", "lost", "none"}
        /\ handle' = "connected" => up'
        /\ faults' \in 0 .. MaxFaults
    BY <2>1, QueriesKeepType
  <2> QED BY <1>1, <1>2, <2>1, <2>2 DEF TypeOK
<1>4. CASE DatabaseGoes
  <2>1. faults' \in 0 .. MaxFaults
    BY <1>4, HistoryAssumption DEF DatabaseGoes, TypeOK
  <2> QED BY <1>1, <1>2, <1>4, <2>1 DEF DatabaseGoes, TypeOK
<1>5. CASE DatabaseReturns
  BY <1>1, <1>2, <1>5 DEF DatabaseReturns, TypeOK
<1>6. CASE CoreStarts
  BY <1>1, <1>2, <1>6 DEF CoreStarts, TypeOK
<1> QED BY <1>3, <1>4, <1>5, <1>6

\* The invariant is inductive.
LEMMA NextIInv == IInv /\ [Next]_vars => IInv'
<1> SUFFICES ASSUME IInv, [Next]_vars PROVE IInv'
  OBVIOUS
<1>1. ASSUME NEW p \in Points, Register(p) PROVE IInv'
  BY <1>1, RegisterIInv
<1>2. ASSUME NEW p \in Points, Changed(p) PROVE IInv'
  BY <1>2, ChangedIInv
<1>3. CASE (\E p \in Points : Gone(p)) \/ CoreDies
  BY <1>3, LeaveIInv
<1>4. CASE StoreLabel
  BY <1>4, StoreLabelIInv
<1>5. CASE GetLastValue
  BY <1>5, GetLastValueIInv
<1>6. CASE StoreFirst
  BY <1>6, StoreFirstIInv
<1>7. CASE OnStatsChanged \/ DatabaseGoes \/ DatabaseReturns \/ CoreStarts
  BY <1>7, ConnectionIInv
<1>8. CASE Tick
  BY <1>8, TickIInv
<1>9. CASE UNCHANGED vars
  <2>1. UNCHANGED <<up, clock, labels, rows, handle, core, value, step, skipped, faults>>
    BY <1>9 DEF vars, tables
  <2>2. RowsInOrder' /\ LookedUp' /\ LatestRowIsValue'
    BY <2>1, TablesAlone
  <2>3. TypeOK'
    BY <2>1 DEF IInv, TypeOK
  <2> QED BY <2>2, <2>3 DEF IInv
<1> QED BY <1>1, <1>2, <1>3, <1>4, <1>5, <1>6, <1>7, <1>8, <1>9 DEF Next

\* What a row repeats is the newest row, if its time tells it from the one before.
LEMMA LastIsNewest ==
    ASSUME TypeOK, RowsInOrder, NEW p \in Points, NEW n, n = Len(rows[p]), n > 0,
           ~(n > 1 /\ rows[p][n - 1].at = rows[p][n].at),
           NEW r \in NewestRows(p)
    PROVE  r = rows[p][n]
<1>0. rows[p] \in Seq(Row)
  BY DEF TypeOK, Row
<1>1. n \in Nat /\ DOMAIN rows[p] = 1 .. n
  BY <1>0
<1>2. PICK i \in 1 .. n : r = rows[p][i] /\ \A k \in 1 .. n : rows[p][k].at <= rows[p][i].at
  BY <1>1 DEF NewestRows
<1>3. \A k \in 1 .. n : rows[p][k].at \in Int
  <2> SUFFICES ASSUME NEW k \in 1 .. n PROVE rows[p][k].at \in Int
    OBVIOUS
  <2>1. rows[p][k] \in Row
    BY <1>0, <1>1
  <2> QED BY <2>1, HistoryAssumption DEF Row
<1>4. CASE i < n
  <2>1. n - 1 \in 1 .. n /\ i <= n - 1 /\ n > 1
    BY <1>1, <1>4
  <2>2. rows[p][i].at <= rows[p][n - 1].at /\ rows[p][n - 1].at <= rows[p][n].at
    BY <1>1, <2>1 DEF RowsInOrder
  <2>3. rows[p][n].at <= rows[p][i].at
    BY <1>1, <1>2
  <2>4. rows[p][i].at \in Int /\ rows[p][n - 1].at \in Int /\ rows[p][n].at \in Int
    BY <1>1, <1>3, <2>1
  <2>5. \A a, b, c \in Int : a <= b /\ b <= c /\ c <= a => b = c
    OBVIOUS
  <2>6. rows[p][n - 1].at = rows[p][n].at
    BY <2>2, <2>3, <2>4, <2>5
  <2> QED BY <2>1, <2>6
<1> QED BY <1>1, <1>2, <1>4

RepeatExcused(p) ==
    LET n == Len(rows[p])
        row == rows'[p][n + 1]
    IN  n > 0 /\ Len(rows'[p]) > n /\ row.val = rows[p][n].val =>
            \/ skipped[p]
            \/ \E v \in Values : v # Stored[v] /\ Stored[v] = row.val
            \/ n > 1 /\ rows[p][n - 1].at = rows[p][n].at

\* A value stored that differs from the one the newest row stands for.
LEMMA StoresExcused ==
    ASSUME TypeOK, RowsInOrder, NEW p \in Points, NEW v \in Values, NEW o, Stores(p, v, o),
           NEW u \in Values, u # v,
           ~skipped[p] /\ rows[p] # <<>> => Newest(p, Stored[u])
    PROVE  RepeatExcused(p)
<1> DEFINE n == Len(rows[p])
<1>1. SUFFICES ASSUME n > 0, Len(rows'[p]) > n, rows'[p][n + 1].val = rows[p][n].val,
                      ~skipped[p], ~(n > 1 /\ rows[p][n - 1].at = rows[p][n].at)
               PROVE  \E w \in Values : w # Stored[w] /\ Stored[w] = rows'[p][n + 1].val
  BY DEF RepeatExcused
<1>10. rows \in [Points -> Seq(Row)]
  BY DEF TypeOK, Row
<1>2. rows[p] \in Seq(Row) /\ n \in Nat /\ rows \in [Points -> Seq(Row)]
  BY <1>10
<1>3. rows' # rows
  BY <1>1, <1>2
<1>4. rows' = [rows EXCEPT ![p] = Append(@, [val |-> Stored[v], at |-> clock])]
  BY <1>3 DEF Stores
<1>5. rows'[p] = Append(rows[p], [val |-> Stored[v], at |-> clock])
  BY <1>2, <1>4
<1>6. rows'[p][n + 1] = [val |-> Stored[v], at |-> clock]
  BY <1>2, <1>5
<1>7. PICK r \in NewestRows(p) : r.val = Stored[u]
  BY <1>1, <1>2 DEF Newest
<1>8. r = rows[p][n]
  BY <1>1, <1>7, LastIsNewest
<1>9. Stored[v] = Stored[u] /\ rows'[p][n + 1].val = Stored[v]
  BY <1>1, <1>6, <1>7, <1>8
<1> QED BY <1>9

\* Every step that repeats a row has its excuse.
LEMMA NextRepeats == IInv /\ [Next]_vars => \A p \in Points : RepeatExcused(p)
<1> SUFFICES ASSUME IInv, [Next]_vars, NEW p \in Points PROVE RepeatExcused(p)
  OBVIOUS
<1> USE DEF IInv
<1>10. rows[p] \in Seq(Row)
  BY DEF TypeOK, Row
<1>0. Len(rows[p]) \in Nat
  BY <1>10
<1>1. CASE rows'[p] = rows[p]
  BY <1>0, <1>1 DEF RepeatExcused
<1>2. CASE rows'[p] # rows[p] /\ StoreFirst
  <2>1. step.do = "store" /\ core
    BY <1>2 DEF StoreFirst, TypeOK, Idle
  <2>2. step.point \in Points /\ step.val \in Values /\ step.last \in Values \cup {None}
    BY <2>1 DEF TypeOK, Idle
  <2>3. PICK o \in Outcomes : step.last # step.val /\ Stores(step.point, step.val, o)
    BY <1>2 DEF StoreFirst
  <2>4. step.point = p
    BY <1>2, <2>2, <2>3 DEF Stores, TypeOK
  <2>5. CASE step.last = None
    <3>1. skipped[p] \/ Len(rows[p]) = 0
      BY <2>1, <2>4, <2>5 DEF LookedUp
    <3> QED BY <3>1 DEF RepeatExcused
  <2>6. CASE step.last # None
    <3>1. step.last \in Values /\ Newest(p, step.last)
      BY <2>2, <2>4, <2>6 DEF LookedUp
    <3>2. Stored[step.last] = step.last
      BY <3>1 DEF Newest, NewestRows, RowsInOrder
    <3> QED BY <2>2, <2>3, <2>4, <3>1, <3>2, StoresExcused
  <2> QED BY <2>5, <2>6
<1>3. CASE rows'[p] # rows[p] /\ \E q \in Points : Changed(q)
  <2>1. PICK q \in Points : Changed(q)
    BY <1>3
  <2>2. PICK v \in Values, o \in Outcomes : v # value[q] /\ Stores(q, v, o)
    BY <1>3, <2>1 DEF Changed
  <2>3. q = p
    BY <1>3, <2>2 DEF Stores, TypeOK
  <2>4. value[p] \in Values
    BY <2>1, <2>3 DEF Changed, TypeOK
  <2>5. ~skipped[p] => Newest(p, Stored[value[p]])
    BY <2>4, HistoryAssumption DEF LatestRowIsValue, Newest
  <2> QED BY <2>2, <2>3, <2>4, <2>5, StoresExcused
<1>4. rows'[p] = rows[p] \/ StoreFirst \/ \E q \in Points : Changed(q)
  BY DEF Next, Register, Gone, StoreLabel, GetLastValue, OnStatsChanged, DatabaseGoes,
         DatabaseReturns, Tick, CoreDies, CoreStarts, tables, vars
<1> QED BY <1>1, <1>2, <1>3, <1>4

-----------------------------------------------------------------------------
(***************************************************************************)
(* Theorems                                                                *)
(***************************************************************************)

\* The invariant holds throughout.
THEOREM InvariantHolds == Spec => []IInv
  BY InitIInv, NextIInv, PTL DEF Spec

\* The tables and the connection have their types, and no row lacks its label.
THEOREM TypeOKHolds == Spec => []TypeOK
<1>1. IInv => TypeOK
  BY DEF IInv
<1> QED BY InvariantHolds, <1>1, PTL

\* The history of a point ends with its value, whatever becomes of the database,
\* of its connection and of the Core, unless something did not get through since.
THEOREM LatestRowIsValueHolds == Spec => []LatestRowIsValue
<1>1. IInv => LatestRowIsValue
  BY DEF IInv
<1> QED BY InvariantHolds, <1>1, PTL

\* No row repeats the one before without an excuse.
THEOREM NoRowRepeatedHolds == Spec => NoRowRepeated
<1>1. IInv /\ [Next]_vars => [\A p \in Points : RepeatExcused(p)]_vars
  BY NextRepeats
<1>2. Spec => [][\A p \in Points : RepeatExcused(p)]_vars
  BY InvariantHolds, <1>1, PTL DEF Spec
<1> QED BY <1>2 DEF NoRowRepeated, RepeatExcused
=============================================================================
