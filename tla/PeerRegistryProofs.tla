-------------------------- MODULE PeerRegistryProofs --------------------------
(***************************************************************************)
(* Proofs about PeerRegistry: for any sets of names, records, clients and  *)
(* ids, and whatever the allocator and the peers do, the tables of the     *)
(* Core agree with one another after every callback, and the registry      *)
(* implements PeerTable.                                                   *)
(***************************************************************************)
EXTENDS PeerRegistry, Naturals, TLAPS

\* The inductive invariant.  No conjunct is inductive alone: that a removed
\* record's start gets cancelled rests on the record naming the start in flight
\* (PendingOwnsStart), that the last reply finds its record allocated on the
\* converse (NoOrphanStart), and that the tables survive the steps of a start on
\* a registered client being READY (PeersAdvertised).
IInv ==
    /\ TypeOK
    /\ PendingOwnsStart
    /\ NoOrphanStart
    /\ PeersAdvertised
    /\ TablesCurrent
    /\ DebugPeersAgree

\* Rebuilt returns tables, and depends only on the snapshots of the clients that
\* are registered: st_core_setup_inputs_hash_table reads no other.
LEMMA RebuiltIsTable ==
    ASSUME NEW cl, NEW snap, NEW f \in Rebuilt(cl, snap)
    PROVE  f \in [Points -> Clients \cup {None}]
BY DEF Rebuilt

LEMMA RebuiltLocal ==
    ASSUME NEW cl, NEW snap1, NEW snap2,
           \A c \in Clients : (\E n \in Names : cl[n] = c) => snap1[c] = snap2[c]
    PROVE  Rebuilt(cl, snap1) = Rebuilt(cl, snap2)
<1>1. ASSUME NEW p \in Points
      PROVE  {c \in Clients : (\E n \in Names : cl[n] = c) /\ p \in snap1[c]}
                = {c \in Clients : (\E n \in Names : cl[n] = c) /\ p \in snap2[c]}
  OBVIOUS
<1>2. QED
  BY <1>1 DEF Rebuilt

\* A start's states, as TypeOK has them; CancelledBy keeps a start one.
Starts == [stage : Stages, cancelled : BOOLEAN, data : Records \cup {None}]

LEMMA UnusedIsStart == Unused \in Starts
BY DEF Unused, Starts, Stages

LEMMA CancelledIsStart ==
    ASSUME start \in [Clients -> Starts], NEW r, NEW c \in Clients
    PROVE  CancelledBy(r, c) \in Starts
<1>1. start[c] \in Starts
  OBVIOUS
<1>2. [start[c] EXCEPT !.cancelled = TRUE] \in Starts
  BY <1>1 DEF Starts
<1>3. QED
  BY <1>1, <1>2 DEF CancelledBy

\* Initially every table is empty.
LEMMA InitIInv == Init => IInv
<1> SUFFICES ASSUME Init PROVE IInv
  OBVIOUS
<1>1. TypeOK
  BY ConstantsAssumption DEF Init, TypeOK, Freed, Unused, Stages
<1>2. PendingOwnsStart /\ NoOrphanStart
  BY DEF Init, PendingOwnsStart, NoOrphanStart, InFlight, CallStages, Unused, Freed
<1>3. PeersAdvertised /\ DebugPeersAgree
  BY DEF Init, PeersAdvertised, DebugPeersAgree, Known
<1>4. TablesCurrent
  <2>1. \A c \in Clients : ~ \E n \in Names : clients[n] = c
    BY ConstantsAssumption DEF Init
  <2>2. \A p \in Points : {c \in Clients : (\E n \in Names : clients[n] = c)
                                              /\ p \in snapshot[c]} = {}
    BY <2>1
  <2>3. table \in [Points -> Clients \cup {None}]
    BY DEF Init
  <2>4. \A p \in Points : table[p] = None
    BY DEF Init
  <2>5. QED
    BY <2>2, <2>3, <2>4 DEF TablesCurrent, Rebuilt
<1>5. QED
  BY <1>1, <1>2, <1>3, <1>4 DEF IInv

-----------------------------------------------------------------------------
(***************************************************************************)
(* Each callback preserves the invariant                                   *)
(***************************************************************************)

\* An announcement: the record and the client it takes are unused, so no start
\* and no registered peer refers to them.
LEMMA AddedStep ==
    ASSUME IInv, NEW n \in Names, OnServiceAdded(n)
    PROVE  IInv'
<1> USE DEF IInv
<1>1. CASE ~(n \in Matching /\ ~Known(n))
  <2>1. UNCHANGED <<up, rec, pending, clients, start, snapshot, table, peers>>
    BY <1>1 DEF OnServiceAdded
  <2>2. TypeOK'
    BY <2>1 DEF OnServiceAdded, TypeOK
  <2>3. PendingOwnsStart' /\ NoOrphanStart'
    BY <2>1 DEF PendingOwnsStart, NoOrphanStart, StillPending, InFlight, Holds
  <2>4. PeersAdvertised' /\ DebugPeersAgree'
    BY <2>1 DEF OnServiceAdded, PeersAdvertised, DebugPeersAgree, Known
  <2>5. TablesCurrent'
    BY <2>1 DEF TablesCurrent, Rebuilt
  <2>6. QED
    BY <2>2, <2>3, <2>4, <2>5
<1>2. CASE n \in Matching /\ ~Known(n)
  <2>1. UNCHANGED <<up, clients, snapshot, table, stopped, unevaluated>>
        /\ advertised' = advertised \cup {n}
    BY DEF OnServiceAdded
  <2>2. PICK r \in Records, c \in Clients :
           /\ rec[r] = Freed
           /\ start[c].stage = "unused"
           /\ rec' = [rec EXCEPT ![r] = [name |-> n, client |-> c]]
           /\ pending' = [pending EXCEPT ![n] = r]
           /\ start' = [start EXCEPT ![c] =
                          [stage |-> "connect", cancelled |-> FALSE, data |-> r]]
           /\ peers' = [peers EXCEPT ![n] = "connecting"]
    BY <1>2 DEF OnServiceAdded, StartPending, Allocatable, DebugPeerNow
  <2>3. clients[n] = None /\ pending[n] = None /\ r # None /\ c # None
    BY <1>2, ConstantsAssumption DEF Known
  <2>4. TypeOK'
    BY <2>1, <2>2 DEF TypeOK, Stages, CallStages
  <2>5. PendingOwnsStart'
    BY <2>2, <2>3, ConstantsAssumption
       DEF PendingOwnsStart, TypeOK, StillPending, InFlight, CallStages, Holds, Freed
  <2>6. NoOrphanStart'
    BY <2>2, <2>3, ConstantsAssumption
       DEF NoOrphanStart, PendingOwnsStart, TypeOK, InFlight, CallStages, Freed
  <2>7. PeersAdvertised'
    BY <2>1, <2>2, <2>3 DEF PeersAdvertised, TypeOK, Known
  <2>8. DebugPeersAgree'
    BY <2>1, <2>2, <2>3 DEF DebugPeersAgree, TypeOK
  <2>9. TablesCurrent'
    BY <2>1 DEF TablesCurrent, Rebuilt
  <2>10. QED
    BY <2>4, <2>5, <2>6, <2>7, <2>8, <2>9
<1>3. QED
  BY <1>1, <1>2

\* A withdrawal.
LEMMA RemovedStep ==
    ASSUME IInv, NEW n \in Names, OnServiceRemoved(n)
    PROVE  IInv'
<1> USE DEF IInv
<1>1. TypeOK'
  <2>1. table' \in [Points -> Clients \cup {None}]
    BY RebuiltIsTable DEF OnServiceRemoved, TablesAfterRemoval, TypeOK
  <2>2. start' \in [Clients -> Starts]
    <3>1. start \in [Clients -> Starts]
      BY DEF TypeOK, Starts
    <3>2. ASSUME NEW c \in Clients PROVE CancelledBy(pending[n], c) \in Starts
      BY <3>1, CancelledIsStart
    <3>3. start' = [c \in Clients |->
                      IF c = clients[n] THEN Unused
                      ELSE IF pending[n] # None THEN CancelledBy(pending[n], c)
                      ELSE start[c]]
      BY DEF OnServiceRemoved
    <3>4. QED
      BY <3>1, <3>2, <3>3, UnusedIsStart, Zenon
  <2>3. rec' \in [Records -> [name : Names \cup {None}, client : Clients \cup {None}]]
    BY DEF OnServiceRemoved, FreeRecord, Freed, TypeOK
  <2>4. pending' \in [Names -> Records \cup {None}]
    BY DEF OnServiceRemoved, PendingAfterRemoval, TypeOK
  <2>5. peers' \in [Names -> {"none", "connecting", "ready"}]
    BY DEF OnServiceRemoved, DebugPeerLost, TypeOK
  <2>6. QED
    BY <2>1, <2>2, <2>3, <2>4, <2>5 DEF OnServiceRemoved, TypeOK, Starts
<1>2. PendingOwnsStart'
  <2>1. ASSUME NEW m \in Names, pending'[m] # None
        PROVE  rec'[pending'[m]].name = m
    BY <2>1, ConstantsAssumption
       DEF OnServiceRemoved, PendingAfterRemoval, FreeRecord, PendingOwnsStart, TypeOK
  <2>2. ASSUME NEW r \in Records, rec'[r] # Freed
        PROVE  /\ StillPending(r)'
               /\ rec'[r].client \in Clients
               /\ InFlight(rec[r].client)'
               /\ ~start'[rec'[r].client].cancelled
               /\ Holds(rec[r].client, r)'
    <3>1. rec'[r] = rec[r] /\ r # pending[n]
      BY <2>2, ConstantsAssumption DEF OnServiceRemoved, FreeRecord, TypeOK
    <3>2. StillPending(r)'
      BY <2>2, <3>1 DEF OnServiceRemoved, PendingAfterRemoval, PendingOwnsStart, StillPending, TypeOK
    <3>3. start'[rec[r].client] = start[rec[r].client]
      BY <2>2, <3>1, ConstantsAssumption, SMTT(20)
         DEF OnServiceRemoved, PendingAfterRemoval, CancelledBy, PendingOwnsStart, PeersAdvertised, TypeOK,
             StillPending, InFlight, CallStages, Holds, Freed
    <3>4. QED
      BY <2>2, <3>1, <3>2, <3>3 DEF PendingOwnsStart, InFlight, Holds
  <2>3. QED
    BY <2>1, <2>2 DEF PendingOwnsStart, Freed
<1>3. NoOrphanStart'
  BY ConstantsAssumption
     DEF OnServiceRemoved, PendingAfterRemoval, CancelledBy, FreeRecord, PendingOwnsStart, NoOrphanStart,
         PeersAdvertised, TypeOK, StillPending, InFlight, CallStages, Holds, Freed, Unused
<1>4. PeersAdvertised'
  BY ConstantsAssumption
     DEF OnServiceRemoved, PendingAfterRemoval, CancelledBy, PendingOwnsStart, PeersAdvertised, TypeOK,
         InFlight, CallStages, Known, Freed
<1>5. DebugPeersAgree'
  BY DEF OnServiceRemoved, PendingAfterRemoval, DebugPeerLost, DebugPeersAgree, TypeOK, Known
<1>6. TablesCurrent'
  <2>1. CASE clients[n] # None
    BY <2>1 DEF OnServiceRemoved, TablesAfterRemoval, TablesCurrent, Rebuilt
  <2>2. CASE clients[n] = None
    <3>1. UNCHANGED <<clients, snapshot, table>>
      BY <2>2, ConstantsAssumption DEF OnServiceRemoved, PendingAfterRemoval, TablesAfterRemoval, TypeOK
    <3>2. QED
      BY <3>1 DEF TablesCurrent, Rebuilt
  <2>3. QED
    BY <2>1, <2>2
<1>7. QED
  BY <1>1, <1>2, <1>3, <1>4, <1>5, <1>6

\* A step of a start moves neither records nor tables: what the invariant says of
\* them rests on the client's stage and snapshot, which only its own start reads.
LEMMA AdvanceStep ==
    ASSUME IInv, NEW c \in Clients, NEW stage \in CallStages, NEW next \in CallStages,
           NEW points \in SUBSET Points, Answered(c, stage), Advance(c, next, points)
    PROVE  IInv'
<1> USE DEF IInv
<1>1. /\ UNCHANGED <<up, advertised, rec, pending, clients, table, peers, stopped,
                     unevaluated>>
      /\ start' = [start EXCEPT ![c].stage = next]
      /\ snapshot' = [snapshot EXCEPT ![c] = @ \cup points]
  BY DEF Advance
<1>2. InFlight(c) /\ ~start[c].cancelled
  BY DEF Answered, InFlight
<1>3. TypeOK'
  BY <1>1 DEF TypeOK, Stages
<1>4. PendingOwnsStart'
  BY <1>1, SMTT(20) DEF PendingOwnsStart, TypeOK, StillPending, InFlight, Holds
<1>5. NoOrphanStart'
  BY <1>1, <1>2 DEF NoOrphanStart, TypeOK, InFlight, CallStages
<1>6. PeersAdvertised'
  BY <1>1, <1>2, ConstantsAssumption
     DEF PeersAdvertised, TypeOK, InFlight, CallStages, Known
<1>7. DebugPeersAgree'
  BY <1>1 DEF DebugPeersAgree
<1>8. TablesCurrent'
  <2>1. \A n \in Names : clients[n] # c
    BY <1>2, ConstantsAssumption DEF PeersAdvertised, InFlight, CallStages
  <2>2. \A d \in Clients : (\E n \in Names : clients[n] = d) => snapshot[d] = snapshot'[d]
    BY <1>1, <2>1 DEF TypeOK
  <2>3. Rebuilt(clients, snapshot) = Rebuilt(clients, snapshot')
    BY <2>2, RebuiltLocal
  <2>4. QED
    BY <1>1, <2>3 DEF TablesCurrent
<1>9. QED
  BY <1>3, <1>4, <1>5, <1>6, <1>7, <1>8

\* A completion that finds its start cancelled.
LEMMA CancelledStep ==
    ASSUME IInv, NEW c \in Clients, OnCancelledCall(c)
    PROVE  IInv'
<1> USE DEF IInv
<1>1. /\ UNCHANGED <<up, advertised, rec, pending, clients, table, peers, stopped,
                     unevaluated>>
      /\ start' = [start EXCEPT ![c].stage = "returning"]
      /\ snapshot' = [snapshot EXCEPT ![c] = {}]
      /\ InFlight(c) /\ start[c].cancelled
  BY DEF OnCancelledCall, FindsCancelled
<1>2. TypeOK'
  BY <1>1 DEF TypeOK, Stages
<1>3. PendingOwnsStart'
  BY <1>1 DEF PendingOwnsStart, TypeOK, StillPending, InFlight, Holds
<1>4. NoOrphanStart'
  BY <1>1 DEF NoOrphanStart, TypeOK, InFlight, CallStages
<1>5. PeersAdvertised'
  BY <1>1, ConstantsAssumption DEF PeersAdvertised, TypeOK, InFlight, CallStages, Known
<1>6. DebugPeersAgree'
  BY <1>1 DEF DebugPeersAgree
<1>7. TablesCurrent'
  <2>1. \A n \in Names : clients[n] # c
    BY <1>1, ConstantsAssumption DEF PeersAdvertised, InFlight, CallStages
  <2>2. \A d \in Clients : (\E n \in Names : clients[n] = d) => snapshot[d] = snapshot'[d]
    BY <1>1, <2>1 DEF TypeOK
  <2>3. Rebuilt(clients, snapshot) = Rebuilt(clients, snapshot')
    BY <2>2, RebuiltLocal
  <2>4. QED
    BY <1>1, <2>3 DEF TablesCurrent
<1>8. QED
  BY <1>2, <1>3, <1>4, <1>5, <1>6, <1>7

\* A start that ends well finds its own record: it registers itself, under the
\* name mDNS still advertises.
LEMMA GetStatsFindsOwnRecord ==
    ASSUME IInv, NEW c \in Clients, OnGetStats(c)
    PROVE  /\ start[c].data \in Records
           /\ rec[start[c].data].client = c
           /\ rec[start[c].data].name \in Names
           /\ pending[rec[start[c].data].name] = start[c].data
<1>1. InFlight(c) /\ ~start[c].cancelled
  BY DEF OnGetStats, Answered, InFlight, CallStages
<1>2. start[c].data \in Records /\ rec[start[c].data].client = c
  BY <1>1 DEF IInv, NoOrphanStart
<1>3. rec[start[c].data] # Freed
  BY <1>2, ConstantsAssumption DEF Freed
<1>4. QED
  BY <1>2, <1>3 DEF IInv, PendingOwnsStart, StillPending

LEMMA ReadyStep ==
    ASSUME IInv, NEW c \in Clients, OnGetStats(c)
    PROVE  IInv'
<1> DEFINE r == start[c].data
           n == rec[r].name
<1>1. r \in Records /\ n \in Names /\ rec[r].client = c /\ pending[n] = r
  BY GetStatsFindsOwnRecord
<1>2. /\ UNCHANGED <<up, advertised, snapshot, stopped>>
      /\ start' = [start EXCEPT ![c] = [stage |-> "ready", cancelled |-> FALSE, data |-> None]]
      /\ pending' = [pending EXCEPT ![n] = None]
      /\ rec' = [rec EXCEPT ![r] = Freed]
      /\ clients' = [clients EXCEPT ![n] = c]
      /\ peers' = [peers EXCEPT ![n] = "ready"]
      /\ table' \in Rebuilt(clients', snapshot')
      /\ unevaluated' = IF stopped THEN unevaluated \cup {n} ELSE {}
  BY <1>1 DEF OnGetStats, Register, FreeRecord, WithPeer, DebugPeerNow, FullPass
<1>3. InFlight(c)
  BY DEF OnGetStats, Answered, InFlight, CallStages
<1>4. r # None /\ c # None /\ clients[n] = None
  BY <1>1, ConstantsAssumption DEF IInv, PeersAdvertised
<1> HIDE DEF r, n
<1> USE DEF IInv
<1>5. TypeOK'
  <2>1. table' \in [Points -> Clients \cup {None}]
    BY <1>2, RebuiltIsTable
  <2>2. QED
    BY <1>1, <1>2, <2>1 DEF TypeOK, Freed, Stages
<1>6. PendingOwnsStart'
  <2>1. ASSUME NEW m \in Names, pending'[m] # None
        PROVE  rec'[pending'[m]].name = m
    BY <1>1, <1>2, <2>1, ConstantsAssumption DEF PendingOwnsStart, TypeOK
  <2>2. ASSUME NEW q \in Records, rec'[q] # Freed
        PROVE  /\ StillPending(q)'
               /\ rec'[q].client \in Clients
               /\ InFlight(rec[q].client)'
               /\ ~start'[rec'[q].client].cancelled
               /\ Holds(rec[q].client, q)'
    <3>1. q # r /\ rec'[q] = rec[q]
      BY <1>1, <1>2, <2>2 DEF TypeOK
    <3>2. rec[q].client # c
      BY <2>2, <3>1 DEF PendingOwnsStart, Holds, r
    <3>3. StillPending(q)'
      BY <1>1, <1>2, <2>2, <3>1 DEF PendingOwnsStart, StillPending, TypeOK
    <3>4. QED
      BY <1>1, <1>2, <2>2, <3>1, <3>2, <3>3 DEF PendingOwnsStart, InFlight, Holds, TypeOK
  <2>3. QED
    BY <2>1, <2>2 DEF PendingOwnsStart, Freed
<1>7. NoOrphanStart'
  <2>1. ASSUME NEW d \in Clients, d # c, start[d].data = r, InFlight(d), ~start[d].cancelled
        PROVE  FALSE
    BY <1>1, <2>1 DEF NoOrphanStart
  <2>2. QED
    BY <1>1, <1>2, <2>1 DEF NoOrphanStart, TypeOK, InFlight, CallStages
<1>8. PeersAdvertised'
  BY <1>1, <1>2, <1>3, <1>4, ConstantsAssumption
     DEF PeersAdvertised, TypeOK, Known, InFlight, CallStages
<1>9. DebugPeersAgree'
  BY <1>1, <1>2, <1>4 DEF DebugPeersAgree, TypeOK
<1>10. TablesCurrent'
  BY <1>2 DEF TablesCurrent, Rebuilt
<1>11. QED
  BY <1>5, <1>6, <1>7, <1>8, <1>9, <1>10

\* pending_client_free of the record at r, when the start of c is over: either r
\* is the record of c itself or c was cancelled and r has been handed out again.
\* In both cases the start the record names is cancelled or gone.
LEMMA FailStep ==
    ASSUME IInv, NEW c \in Clients, NEW r \in Records, StillPending(r),
           rec[r].client = c \/ start[c].cancelled,
           InFlight(c) \/ start[c].stage = "returning",
           FailPending(c, r),
           snapshot' = [snapshot EXCEPT ![c] = {}],
           UNCHANGED <<up, advertised, clients, table, stopped, unevaluated>>
    PROVE  IInv'
<1> DEFINE n == rec[r].name
<1> USE DEF IInv
<1>1. n \in Names /\ pending[n] = r /\ r # None
  BY ConstantsAssumption DEF StillPending
<1>2. rec[r] # Freed
  BY <1>1, ConstantsAssumption DEF Freed
<1>3. /\ rec[r].client \in Clients
      /\ InFlight(rec[r].client)
      /\ \A q \in Records : rec[q] # Freed /\ rec[q].client = rec[r].client => q = r
  BY <1>2 DEF PendingOwnsStart, Holds
<1>4. /\ pending' = [pending EXCEPT ![n] = None]
      /\ rec' = [rec EXCEPT ![r] = Freed]
      /\ peers' = [peers EXCEPT ![n] = "none"]
      /\ start' = [d \in Clients |->
                     IF d = c THEN Unused
                     ELSE IF d = rec[r].client THEN [start[d] EXCEPT !.cancelled = TRUE]
                     ELSE start[d]]
  BY DEF FailPending, FreeRecord, DebugPeerLost, CancelledBy
<1>5. ASSUME NEW q \in Records, rec[q] # Freed, q # r
      PROVE  rec[q].client # c
  BY <1>3, <1>5 DEF PendingOwnsStart
<1>6. \A m \in Names : clients[m] # c
  BY ConstantsAssumption DEF PeersAdvertised, InFlight, CallStages
<1> HIDE DEF n
<1>7. TypeOK'
  <2>1. start' \in [Clients -> Starts]
    <3>1. \A d \in Clients : start[d] \in Starts
      BY DEF TypeOK, Starts
    <3>2. \A d \in Clients : [start[d] EXCEPT !.cancelled = TRUE] \in Starts
      BY <3>1 DEF Starts
    <3>3. QED
      BY <1>4, <3>1, <3>2, UnusedIsStart, Zenon
  <2>2. rec' \in [Records -> [name : Names \cup {None}, client : Clients \cup {None}]]
    BY <1>4 DEF TypeOK, Freed
  <2>3. pending' \in [Names -> Records \cup {None}]
    BY <1>4 DEF TypeOK
  <2>4. peers' \in [Names -> {"none", "connecting", "ready"}]
    BY <1>4 DEF TypeOK
  <2>5. snapshot' \in [Clients -> SUBSET Points]
    BY DEF TypeOK
  <2>6. QED
    BY <2>1, <2>2, <2>3, <2>4, <2>5 DEF TypeOK, Starts
<1>8. PendingOwnsStart'
  <2>1. ASSUME NEW m \in Names, pending'[m] # None
        PROVE  rec'[pending'[m]].name = m
    BY <1>1, <1>4, <2>1, ConstantsAssumption DEF PendingOwnsStart, TypeOK, n
  <2>2. ASSUME NEW q \in Records, rec'[q] # Freed
        PROVE  /\ StillPending(q)'
               /\ rec'[q].client \in Clients
               /\ InFlight(rec[q].client)'
               /\ ~start'[rec'[q].client].cancelled
               /\ Holds(rec[q].client, q)'
    <3>1. q # r /\ rec'[q] = rec[q] /\ rec[q] # Freed
      BY <1>4, <2>2 DEF TypeOK
    <3>2. rec[q].client # c /\ rec[q].client # rec[r].client
      BY <1>3, <1>5, <3>1
    <3>3. StillPending(q)'
      BY <1>1, <1>4, <3>1 DEF PendingOwnsStart, StillPending, TypeOK
    <3>4. QED
      BY <1>4, <3>1, <3>2, <3>3 DEF PendingOwnsStart, InFlight, Holds
  <2>3. QED
    BY <2>1, <2>2 DEF PendingOwnsStart, Freed
<1>9. NoOrphanStart'
  <2>1. ASSUME NEW d \in Clients, d # c, d # rec[r].client
        PROVE  start'[d] = start[d] /\ (rec[start[d].data].client = d => start[d].data # r)
    BY <1>4, <2>1
  <2>2. ASSUME NEW d \in Clients, d # c, d = rec[r].client
        PROVE  start'[d].cancelled /\ start'[d].data = start[d].data
               /\ start'[d].stage = start[d].stage
    BY <1>4, <2>2 DEF TypeOK
  <2>3. start'[c] = Unused
    BY <1>4
  <2>4. QED
    BY <1>3, <1>4, <2>1, <2>2, <2>3 DEF NoOrphanStart, TypeOK, InFlight, CallStages, Unused
<1>10. PeersAdvertised'
  BY <1>1, <1>3, <1>4, <1>6, ConstantsAssumption
     DEF PeersAdvertised, TypeOK, Known, InFlight, CallStages
<1>11. DebugPeersAgree'
  BY <1>1, <1>4, ConstantsAssumption DEF DebugPeersAgree, PeersAdvertised, TypeOK
<1>12. TablesCurrent'
  <2>1. ASSUME NEW d \in Clients, d # c PROVE snapshot'[d] = snapshot[d]
    <3>1. snapshot \in [Clients -> SUBSET Points]
      BY DEF TypeOK
    <3>2. QED
      BY <2>1, <3>1
  <2>2. \A d \in Clients : (\E m \in Names : clients[m] = d) => snapshot[d] = snapshot'[d]
    BY <1>6, <2>1, Zenon
  <2>3. Rebuilt(clients, snapshot) = Rebuilt(clients, snapshot')
    <3> DEFINE after == snapshot'
    <3>1. \A d \in Clients : (\E m \in Names : clients[m] = d) => snapshot[d] = after[d]
      BY <2>2
    <3> HIDE DEF after
    <3>2. Rebuilt(clients, snapshot) = Rebuilt(clients, after)
      BY <3>1, RebuiltLocal
    <3>3. QED
      BY <3>2 DEF after
  <2>4. QED
    BY <2>3 DEF TablesCurrent
<1>13. QED
  BY <1>7, <1>8, <1>9, <1>10, <1>11, <1>12

LEMMA StartFailedStep ==
    ASSUME IInv, NEW c \in Clients, OnStartFailed(c)
    PROVE  IInv'
<1> DEFINE r == start[c].data
<1>1. InFlight(c) /\ ~start[c].cancelled
  BY DEF OnStartFailed
<1>2. r \in Records /\ rec[r].client = c
  BY <1>1 DEF IInv, NoOrphanStart
<1>3. StillPending(r)
  BY <1>2, ConstantsAssumption DEF IInv, PendingOwnsStart, Freed
<1>4. QED
  BY <1>1, <1>2, <1>3, FailStep DEF OnStartFailed

\* The late result of a cancelled start.
LEMMA LateResultStep ==
    ASSUME IInv, NEW c \in Clients, OnLateResult(c)
    PROVE  IInv'
<1> DEFINE r == start[c].data
<1>1. start[c].stage = "returning" /\ start[c].cancelled /\ r \in Records
  BY DEF OnLateResult, IInv, NoOrphanStart
<1>2. CASE StillPending(r) /\ FailPending(c, r) /\ up' = up
  BY <1>1, <1>2, FailStep DEF OnLateResult
<1>3. CASE ~(StillPending(r) /\ FailPending(c, r) /\ up' = up)
  <2> USE DEF IInv
  <2>1. /\ up' \in BOOLEAN
        /\ start' = [start EXCEPT ![c] = Unused]
        /\ snapshot' = [snapshot EXCEPT ![c] = {}]
        /\ UNCHANGED <<rec, pending, peers, advertised, clients, table, stopped, unevaluated>>
    BY <1>3 DEF OnLateResult
  <2>2. TypeOK'
    BY <2>1 DEF TypeOK, Unused, Stages
  <2>3. PendingOwnsStart'
    BY <1>1, <2>1 DEF PendingOwnsStart, TypeOK, StillPending, InFlight, Holds
  <2>4. NoOrphanStart'
    BY <2>1 DEF NoOrphanStart, TypeOK, InFlight, CallStages, Unused
  <2>5. PeersAdvertised'
    BY <1>1, <2>1, ConstantsAssumption DEF PeersAdvertised, TypeOK, Known
  <2>6. DebugPeersAgree'
    BY <2>1 DEF DebugPeersAgree
  <2>7. TablesCurrent'
    <3>1. \A d \in Clients : (\E n \in Names : clients[n] = d) => snapshot[d] = snapshot'[d]
      BY <1>1, <2>1, ConstantsAssumption DEF TypeOK, PeersAdvertised
    <3>2. Rebuilt(clients, snapshot) = Rebuilt(clients, snapshot')
      BY <3>1, RebuiltLocal
    <3>3. QED
      BY <2>1, <3>2 DEF TablesCurrent
  <2>8. QED
    BY <2>2, <2>3, <2>4, <2>5, <2>6, <2>7
<1>4. QED
  BY <1>2, <1>3

-----------------------------------------------------------------------------
(***************************************************************************)
(* The theorems                                                            *)
(***************************************************************************)

\* The debugger's stops and a stuttering step leave every table alone.
LEMMA StopStep ==
    ASSUME IInv, EnterStopped \/ Continue \/ UNCHANGED vars
    PROVE  IInv'
<1>1. /\ UNCHANGED <<up, advertised, rec, pending, clients, start, snapshot, table,
                     peers, unevaluated>>
      /\ stopped' \in BOOLEAN
  BY DEF EnterStopped, Continue, vars, IInv, TypeOK
<1>2. TypeOK'
  BY <1>1 DEF IInv, TypeOK
<1>3. PendingOwnsStart' /\ NoOrphanStart'
  BY <1>1 DEF IInv, PendingOwnsStart, NoOrphanStart, StillPending, InFlight, Holds
<1>4. PeersAdvertised' /\ DebugPeersAgree' /\ TablesCurrent'
  BY <1>1 DEF IInv, PeersAdvertised, DebugPeersAgree, TablesCurrent, Rebuilt, Known
<1>5. QED
  BY <1>2, <1>3, <1>4 DEF IInv

\* The calls of a start that was not cancelled.
LEMMA CallStep ==
    ASSUME IInv, NEW c \in Clients, OnConnected(c) \/ OnGetInputs(c) \/ OnGetOutputs(c)
    PROVE  IInv'
<1>1. CASE OnConnected(c)
  BY <1>1, AdvanceStep DEF OnConnected, CallStages
<1>2. CASE OnGetInputs(c)
  <2>1. PICK points \in SUBSET Inputs : Advance(c, "get_outputs", points)
    BY <1>2 DEF OnGetInputs
  <2>2. QED
    BY <1>2, <2>1, AdvanceStep DEF OnGetInputs, CallStages, Points
<1>3. CASE OnGetOutputs(c)
  <2>1. PICK points \in SUBSET Outputs : Advance(c, "get_stats", points)
    BY <1>3 DEF OnGetOutputs
  <2>2. QED
    BY <1>3, <2>1, AdvanceStep DEF OnGetOutputs, CallStages, Points
<1>4. QED
  BY <1>1, <1>2, <1>3

LEMMA NextIInv == IInv /\ [Next]_vars => IInv'
<1> SUFFICES ASSUME IInv, [Next]_vars PROVE IInv'
  OBVIOUS
<1>1. CASE \E n \in Names : OnServiceAdded(n)
  BY <1>1, AddedStep
<1>2. CASE \E n \in Names : OnServiceRemoved(n)
  BY <1>2, RemovedStep
<1>3. ASSUME NEW c \in Clients, StartStep(c) PROVE IInv'
  <2>1. CASE OnConnected(c) \/ OnGetInputs(c) \/ OnGetOutputs(c)
    BY <2>1, CallStep
  <2>2. CASE OnGetStats(c)
    BY <2>2, ReadyStep
  <2>3. CASE OnStartFailed(c)
    BY <2>3, StartFailedStep
  <2>4. CASE OnCancelledCall(c)
    BY <2>4, CancelledStep
  <2>5. CASE OnLateResult(c)
    BY <2>5, LateResultStep
  <2>6. QED
    BY <1>3, <2>1, <2>2, <2>3, <2>4, <2>5 DEF StartStep
<1>4. CASE EnterStopped \/ Continue \/ UNCHANGED vars
  BY <1>4, StopStep
<1>5. QED
  BY <1>1, <1>2, <1>3, <1>4 DEF Next

\* The tables of the Core stay well-formed and agree with one another.
THEOREM InvariantHolds == Spec => []IInv
BY InitIInv, NextIInv, PTL DEF Spec

\* Type correctness of the registry's state, for any constants.
THEOREM TypeOKHolds == Spec => []TypeOK
<1>1. IInv => TypeOK
  BY DEF IInv
<1>2. QED
  BY <1>1, InvariantHolds, PTL

\* A record in pending_clients lives exactly as long as the start it owns, and a start
\* that was not cancelled has a record to end in: nothing leaves a client connecting
\* that no callback knows of.
THEOREM RecordsOwnStartsHolds == Spec => []RecordsOwnStarts
<1>1. IInv => RecordsOwnStarts
  BY DEF IInv, RecordsOwnStarts
<1>2. QED
  BY <1>1, InvariantHolds, PTL

\* A peer is pending or registered only while mDNS advertises it, and registered
\* only with a READY client of its own.
THEOREM PeersAdvertisedHolds == Spec => []PeersAdvertised
<1>1. IInv => PeersAdvertised
  BY DEF IInv
<1>2. QED
  BY <1>1, InvariantHolds, PTL

\* Each entry of all_inputs and all_outputs is followed to a registered client
\* that mirrors the point, after every callback.
THEOREM TablesCurrentHolds == Spec => []TablesCurrent
<1>1. IInv => TablesCurrent
  BY DEF IInv
<1>2. QED
  BY <1>1, InvariantHolds, PTL

\* ListPeers of the debug server tells the Core's own view of the peers.
THEOREM DebugPeersAgreeHolds == Spec => []DebugPeersAgree
<1>1. IInv => DebugPeersAgree
  BY DEF IInv
<1>2. QED
  BY <1>1, InvariantHolds, PTL

\* A registered peer whose rules no full pass has evaluated became registered
\* while the debugger held evaluation (src/mdns.c calls engine_apply otherwise).
THEOREM OnlyStopsSkipPassesHolds == Spec => OnlyStopsSkipPasses
<1> DEFINE A == \A n \in Names : clients[n] = None /\ clients'[n] # None =>
                   (IF stopped THEN n \in unevaluated' ELSE unevaluated' = {})
<1>1. ASSUME IInv, Next PROVE A
  <2>1. CASE \E n \in Names : OnServiceAdded(n)
    BY <2>1 DEF OnServiceAdded
  <2>2. ASSUME NEW n \in Names, OnServiceRemoved(n) PROVE A
    <3>1. clients \in [Names -> Clients \cup {None}]
      BY <1>1 DEF IInv, TypeOK
    <3>2. clients' = [clients EXCEPT ![n] = None]
      BY <2>2 DEF OnServiceRemoved
    <3>3. QED
      BY <3>1, <3>2
  <2>3. ASSUME NEW c \in Clients, OnGetStats(c) PROVE A
    <3> DEFINE n == rec[start[c].data].name
    <3>1. clients \in [Names -> Clients \cup {None}]
      BY <1>1 DEF IInv, TypeOK
    <3>2. /\ clients' = [clients EXCEPT ![n] = rec[start[c].data].client]
          /\ unevaluated' = IF stopped THEN unevaluated \cup {n} ELSE {}
      BY <2>3 DEF OnGetStats, Register, WithPeer, FullPass
    <3>3. QED
      BY <3>1, <3>2
  <2>4. ASSUME NEW c \in Clients, StartStep(c), ~OnGetStats(c) PROVE clients' = clients
    BY <2>4 DEF StartStep, OnConnected, OnGetInputs, OnGetOutputs, Advance,
                OnCancelledCall, OnStartFailed, OnLateResult
  <2>5. CASE EnterStopped \/ Continue
    BY <2>5 DEF EnterStopped, Continue
  <2>6. QED
    BY <1>1, <2>1, <2>2, <2>3, <2>4, <2>5 DEF Next
<1>2. IInv /\ [Next]_vars => [A]_vars
  BY <1>1
<1>3. QED
  BY <1>2, InvariantHolds, PTL DEF Spec, OnlyStopsSkipPasses

-----------------------------------------------------------------------------
(***************************************************************************)
(* The way of a start                                                      *)
(***************************************************************************)

\* The completions a start has before it, at most, from each stage.
StepsLeft(stage) ==
    CASE stage = "connect"     -> 5
      [] stage = "get_inputs"  -> 4
      [] stage = "get_outputs" -> 3
      [] stage = "get_stats"   -> 2
      [] stage = "returning"   -> 1
      [] OTHER                 -> 0

UnderWay(c) == InFlight(c) \/ start[c].stage = "returning"

GoesOn(c) == StepsLeft(start'[c].stage) < StepsLeft(start[c].stage)

\* A start stays where it is or gets nearer its end; one that was cancelled stays
\* so until it is over, and its client does not become READY.
GoesForward(c) ==
    UnderWay(c) =>
        /\ start'[c].stage = start[c].stage \/ GoesOn(c)
        /\ start[c].cancelled => /\ start'[c].stage # "ready"
                                 /\ start'[c].cancelled \/ start'[c].stage = "unused"

\* A start left alone, cancelled or over.
LEMMA LeftForward ==
    ASSUME TypeOK, NEW c \in Clients,
           start'[c] \in {start[c], Unused, [start[c] EXCEPT !.cancelled = TRUE]}
    PROVE  GoesForward(c)
<1>1. start[c] \in Starts
  BY DEF TypeOK, Starts
<1>2. \/ start'[c] = start[c]
      \/ start'[c].stage = "unused"
      \/ start'[c].stage = start[c].stage /\ start'[c].cancelled
  BY <1>1 DEF Unused, Starts
<1>3. UnderWay(c) => StepsLeft("unused") < StepsLeft(start[c].stage) /\ start[c].stage # "ready"
  BY DEF UnderWay, InFlight, CallStages, StepsLeft
<1>4. QED
  BY <1>2, <1>3 DEF GoesForward, GoesOn

\* A completion of the start of c, for which alone it moves.
LEMMA CompletionForward ==
    ASSUME IInv, NEW c \in Clients, StartStep(c)
    PROVE  GoesOn(c) /\ \A d \in Clients : GoesForward(d)
<1>1. start \in [Clients -> Starts] /\ TypeOK
  BY DEF IInv, TypeOK, Starts
<1>2. UnderWay(c)
  BY DEF StartStep, OnConnected, OnGetInputs, OnGetOutputs, OnGetStats, OnStartFailed,
         OnCancelledCall, OnLateResult, FindsCancelled, Answered, UnderWay, InFlight, CallStages
<1>3. ASSUME NEW stage \in Stages, NEW next \in Stages, start[c].stage = stage,
             ~start[c].cancelled, StepsLeft(next) < StepsLeft(stage),
             start' = [start EXCEPT ![c].stage = next]
      PROVE  GoesOn(c) /\ \A d \in Clients : GoesForward(d)
  <2>1. /\ start'[c].stage = next
        /\ \A d \in Clients \ {c} : start'[d] = start[d]
    BY <1>1, <1>3 DEF Starts
  <2>2. \A d \in Clients \ {c} : GoesForward(d)
    BY <1>1, <2>1, LeftForward
  <2>3. GoesOn(c) /\ GoesForward(c)
    BY <1>3, <2>1 DEF GoesOn, GoesForward
  <2>4. QED
    BY <2>2, <2>3
<1>4. CASE OnConnected(c) \/ OnGetInputs(c) \/ OnGetOutputs(c)
  <2>1. /\ StepsLeft("get_inputs") < StepsLeft("connect")
        /\ StepsLeft("get_outputs") < StepsLeft("get_inputs")
        /\ StepsLeft("get_stats") < StepsLeft("get_outputs")
    BY DEF StepsLeft
  <2>2. PICK stage \in Stages, next \in Stages :
           /\ Answered(c, stage) /\ StepsLeft(next) < StepsLeft(stage)
           /\ start' = [start EXCEPT ![c].stage = next]
    <3>1. CASE OnConnected(c)
      BY <2>1, <3>1 DEF OnConnected, Advance, Stages, CallStages
    <3>2. CASE OnGetInputs(c)
      BY <2>1, <3>2 DEF OnGetInputs, Advance, Stages, CallStages
    <3>3. CASE OnGetOutputs(c)
      BY <2>1, <3>3 DEF OnGetOutputs, Advance, Stages, CallStages
    <3>4. QED
      BY <1>4, <3>1, <3>2, <3>3
  <2>3. start[c].stage = stage /\ ~start[c].cancelled
    BY <2>2 DEF Answered
  <2>4. QED
    BY <1>3, <2>2, <2>3
<1>5. CASE OnGetStats(c)
  <2>1. /\ start[c].stage = "get_stats" /\ ~start[c].cancelled
        /\ start' = [start EXCEPT ![c] =
                        [stage |-> "ready", cancelled |-> FALSE, data |-> None]]
    BY <1>5 DEF OnGetStats, Answered
  <2>2. /\ start'[c].stage = "ready"
        /\ \A d \in Clients \ {c} : start'[d] = start[d]
    BY <1>1, <2>1
  <2>3. \A d \in Clients \ {c} : GoesForward(d)
    BY <1>1, <2>2, LeftForward
  <2>4. GoesOn(c) /\ GoesForward(c)
    BY <2>1, <2>2 DEF GoesOn, GoesForward, StepsLeft
  <2>5. QED
    BY <2>3, <2>4
<1>6. CASE OnCancelledCall(c)
  <2>1. /\ start[c].stage \in CallStages
        /\ start' = [start EXCEPT ![c].stage = "returning"]
    BY <1>6 DEF OnCancelledCall, FindsCancelled, InFlight
  <2>2. /\ start'[c].stage = "returning" /\ start'[c].cancelled = start[c].cancelled
        /\ \A d \in Clients \ {c} : start'[d] = start[d]
    BY <1>1, <2>1 DEF Starts
  <2>3. \A d \in Clients \ {c} : GoesForward(d)
    BY <1>1, <2>2, LeftForward
  <2>4. GoesOn(c) /\ GoesForward(c)
    BY <2>1, <2>2 DEF GoesOn, GoesForward, StepsLeft, CallStages
  <2>5. QED
    BY <2>3, <2>4
<1>7. CASE OnStartFailed(c) \/ OnLateResult(c)
  <2>1. /\ start'[c] = Unused
        /\ \A d \in Clients \ {c} :
              start'[d] \in {start[d], [start[d] EXCEPT !.cancelled = TRUE]}
    <3>1. CASE \E r : FailPending(c, r)
      BY <3>1 DEF FailPending, CancelledBy
    <3>2. CASE start' = [start EXCEPT ![c] = Unused]
      BY <1>1, <3>2
    <3>3. QED
      BY <1>7, <3>1, <3>2 DEF OnStartFailed, OnLateResult
  <2>2. \A d \in Clients : GoesForward(d)
    BY <1>1, <2>1, LeftForward
  <2>3. GoesOn(c)
    BY <1>2, <2>1 DEF GoesOn, UnderWay, InFlight, CallStages, StepsLeft, Unused
  <2>4. QED
    BY <2>2, <2>3
<1>8. QED
  BY <1>4, <1>5, <1>6, <1>7 DEF StartStep

\* An announcement begins a start only with a client that has none, and a withdrawal
\* cancels one or releases a client that is READY.
LEMMA SignalsForward ==
    ASSUME IInv, NEW n \in Names, OnServiceAdded(n) \/ OnServiceRemoved(n),
           NEW d \in Clients
    PROVE  GoesForward(d)
<1>1. start \in [Clients -> Starts] /\ TypeOK
  BY DEF IInv, TypeOK, Starts
<1>2. CASE OnServiceAdded(n)
  <2>1. CASE UNCHANGED start
    BY <1>1, <2>1, LeftForward
  <2>2. CASE StartPending(n)
    <3>1. PICK c \in Clients :
             start[c].stage = "unused" /\ \E x : start' = [start EXCEPT ![c] = x]
      BY <2>2 DEF StartPending
    <3>2. CASE d = c
      BY <3>1, <3>2 DEF GoesForward, UnderWay, InFlight, CallStages
    <3>3. CASE d # c
      <4>1. start'[d] = start[d]
        BY <1>1, <3>1, <3>3
      <4>2. QED
        BY <1>1, <4>1, LeftForward
    <3>4. QED
      BY <3>2, <3>3
  <2>3. QED
    BY <1>2, <2>1, <2>2 DEF OnServiceAdded
<1>3. CASE OnServiceRemoved(n)
  <2>1. start'[d] \in {start[d], Unused, CancelledBy(pending[n], d)}
    BY <1>3 DEF OnServiceRemoved
  <2>2. CancelledBy(pending[n], d) \in {start[d], [start[d] EXCEPT !.cancelled = TRUE]}
    BY DEF CancelledBy
  <2>3. QED
    BY <1>1, <2>1, <2>2, LeftForward
<1>4. QED
  BY <1>2, <1>3

(* The safety half of StartsEnd, and more: a start goes through its calls in their
   order, five completions at most, each of which brings it nearer its end, whatever is
   announced and withdrawn meanwhile and also when a late result takes it for its own; a
   start that was cancelled is not revived, its client never becomes READY
   (st_client_start_async of lib/client.c, pending_client_free of src/mdns.c). *)
THEOREM StartsGoForwardHolds ==
    Spec => [][\A c \in Clients : GoesForward(c) /\ (StartStep(c) => GoesOn(c))]_vars
<1>1. ASSUME IInv, Next
      PROVE  \A c \in Clients : GoesForward(c) /\ (StartStep(c) => GoesOn(c))
  <2>1. \A c \in Clients : StartStep(c) => GoesOn(c)
    BY <1>1, CompletionForward
  <2>2. ASSUME NEW c \in Clients
        PROVE  GoesForward(c)
    <3>1. CASE EnterStopped \/ Continue
      <4>1. start'[c] = start[c] /\ TypeOK
        BY <1>1, <3>1 DEF EnterStopped, Continue, IInv
      <4>2. QED
        BY <4>1, LeftForward
    <3>2. QED
      BY <1>1, <3>1, CompletionForward, SignalsForward DEF Next
  <2>3. QED
    BY <2>1, <2>2
<1>2. IInv /\ [Next]_vars =>
         [\A c \in Clients : GoesForward(c) /\ (StartStep(c) => GoesOn(c))]_vars
  BY <1>1
<1>3. QED
  BY <1>2, InvariantHolds, PTL DEF Spec

-----------------------------------------------------------------------------
(***************************************************************************)
(* The registry implements the abstract peer table                         *)
(***************************************************************************)

\* A step that moves neither tables nor announcements is a stutter of PeerTable.
LEMMA StutterMaps ==
    ASSUME UNCHANGED <<advertised, pending, clients>>
    PROVE  UNCHANGED Abstract!tableVars
BY DEF Abstract!tableVars, Status

\* The record r of an advertised, pending peer goes: the peer gives up.
LEMMA FailMaps ==
    ASSUME IInv, NEW c \in Clients, NEW r \in Records, StillPending(r),
           FailPending(c, r), UNCHANGED <<advertised, clients>>
    PROVE  Abstract!Next
<1> DEFINE n == rec[r].name
<1>1. n \in Names /\ pending[n] = r /\ r # None
  BY ConstantsAssumption DEF StillPending
<1>2. clients[n] = None
  BY <1>1 DEF IInv, PeersAdvertised
<1>3. pending' = [pending EXCEPT ![n] = None]
  BY DEF FailPending
<1> HIDE DEF n
<1>4. Abstract!GiveUp(n)
  BY <1>1, <1>2, <1>3 DEF Abstract!GiveUp, Status, IInv, TypeOK
<1>5. QED
  BY <1>1, <1>4 DEF Abstract!Next

LEMMA StepMaps == IInv /\ [Next]_vars => [Abstract!Next]_(Abstract!tableVars)
<1> SUFFICES ASSUME IInv, [Next]_vars
             PROVE  Abstract!Next \/ UNCHANGED Abstract!tableVars
  OBVIOUS
<1>1. ASSUME NEW n \in Names, OnServiceAdded(n) PROVE Abstract!Announce(n)
  <2>1. advertised' = advertised \cup {n} /\ clients' = clients
    BY <1>1 DEF OnServiceAdded
  <2>2. CASE n \in Matching /\ ~Known(n)
    <3>1. PICK r \in Records : pending' = [pending EXCEPT ![n] = r]
      BY <1>1, <2>2 DEF OnServiceAdded, StartPending
    <3>2. clients[n] = None /\ pending[n] = None /\ r # None
      BY <2>2, ConstantsAssumption DEF Known
    <3>3. \A m \in Names : Status(m)' = IF m = n THEN "connecting" ELSE Status(m)
      BY <2>1, <3>1, <3>2 DEF Status, IInv, TypeOK
    <3>4. [m \in Names |-> Status(m)]' = [[m \in Names |-> Status(m)] EXCEPT ![n] = "connecting"]
      BY <3>3
    <3>5. [m \in Names |-> Status(m)][n] = "absent"
      BY <3>2 DEF Status
    <3>6. QED
      BY <2>1, <2>2, <3>4, <3>5 DEF Abstract!Announce
  <2>3. CASE ~(n \in Matching /\ ~Known(n))
    <3>1. pending' = pending
      BY <1>1, <2>3 DEF OnServiceAdded
    <3>2. QED
      BY <2>1, <2>3, <3>1 DEF Abstract!Announce, Status, Known
  <2>4. QED
    BY <2>2, <2>3
<1>2. ASSUME NEW n \in Names, OnServiceRemoved(n) PROVE Abstract!Withdraw(n)
  BY <1>2 DEF OnServiceRemoved, PendingAfterRemoval, Abstract!Withdraw, Status, IInv, TypeOK
<1>3. ASSUME NEW c \in Clients, OnGetStats(c) PROVE Abstract!Next
  <2> DEFINE n == rec[start[c].data].name
  <2>1. /\ n \in Names /\ pending[n] = start[c].data /\ start[c].data \in Records
        /\ rec[start[c].data].client = c
    BY <1>3, GetStatsFindsOwnRecord
  <2>2. clients[n] = None /\ n \in advertised /\ c # None /\ pending[n] # None
    BY <2>1, ConstantsAssumption DEF IInv, PeersAdvertised, Known
  <2>3. /\ pending' = [pending EXCEPT ![n] = None]
        /\ clients' = [clients EXCEPT ![n] = c]
        /\ advertised' = advertised
    BY <1>3, <2>1 DEF OnGetStats, Register, WithPeer
  <2> HIDE DEF n
  <2>4. Abstract!BecomeReady(n)
    BY <2>1, <2>2, <2>3 DEF Abstract!BecomeReady, Status, IInv, TypeOK
  <2>5. QED
    BY <2>1, <2>4 DEF Abstract!Next
<1>4. ASSUME NEW c \in Clients, OnStartFailed(c) PROVE Abstract!Next
  <2>1. start[c].data \in Records /\ StillPending(start[c].data)
    BY <1>4, ConstantsAssumption
       DEF OnStartFailed, IInv, NoOrphanStart, PendingOwnsStart, Freed
  <2>2. QED
    BY <1>4, <2>1, FailMaps DEF OnStartFailed
<1>5. ASSUME NEW c \in Clients, OnLateResult(c)
      PROVE  Abstract!Next \/ UNCHANGED Abstract!tableVars
  <2>1. start[c].data \in Records /\ UNCHANGED <<advertised, clients>>
    BY <1>5 DEF OnLateResult, IInv, NoOrphanStart
  <2>2. CASE StillPending(start[c].data) /\ FailPending(c, start[c].data)
    BY <2>1, <2>2, FailMaps
  <2>3. CASE ~(StillPending(start[c].data) /\ FailPending(c, start[c].data))
    <3>1. pending' = pending
      BY <1>5, <2>3 DEF OnLateResult
    <3>2. QED
      BY <2>1, <3>1, StutterMaps
  <2>4. QED
    BY <2>2, <2>3
<1>6. ASSUME NEW c \in Clients,
             OnConnected(c) \/ OnGetInputs(c) \/ OnGetOutputs(c) \/ OnCancelledCall(c)
      PROVE  UNCHANGED Abstract!tableVars
  <2>1. UNCHANGED <<advertised, pending, clients>>
    BY <1>6 DEF OnConnected, OnGetInputs, OnGetOutputs, OnCancelledCall, Advance
  <2>2. QED
    BY <2>1, StutterMaps
<1>7. CASE EnterStopped \/ Continue \/ UNCHANGED vars
  <2>1. UNCHANGED <<advertised, pending, clients>>
    BY <1>7 DEF EnterStopped, Continue, vars
  <2>2. QED
    BY <2>1, StutterMaps
<1>8. QED
  BY <1>1, <1>2, <1>3, <1>4, <1>5, <1>6, <1>7 DEF Next, StartStep, Abstract!Next

\* The Core's registry is an implementation of PeerTable: whatever starts are
\* cancelled, fail or end late, each peer goes absent, connecting, ready.
THEOREM ImplementsPeerTableHolds == Spec => ImplementsPeerTable
<1>1. Init => Abstract!Init
  BY DEF Init, Abstract!Init, Status
<1>2. QED
  BY <1>1, StepMaps, InvariantHolds, PTL DEF Spec, Abstract!Spec, ImplementsPeerTable
=============================================================================
