---------------------------- MODULE PeerRegistry ----------------------------
(***************************************************************************)
(* The Core's table of peers: src/mdns.c of the Core with the asynchronous *)
(* start of an STClient (lib/client.c) that it drives.                     *)
(*                                                                         *)
(* mDNS announces and withdraws service instances.  An announcement makes  *)
(* a PendingClient record and starts an STClient: connect, GetInputs,      *)
(* GetOutputs, GetStats, subscribe.  The record is the user_data of the    *)
(* completion callback on_client_start_finished.  A withdrawal cancels the *)
(* start and frees the record at once; the cancelled start still completes *)
(* later, with the address of the freed record in hand.                    *)
(*                                                                         *)
(* The process is one GLib main loop, so an action is one callback run to  *)
(* its end.  What remains concurrent is the order of the callbacks: every  *)
(* start in flight, mDNS and the debugger.                                 *)
(***************************************************************************)
EXTENDS FiniteSets

CONSTANTS
    Names,        \* mDNS instance names
    Matching,     \* the names that match --service-match
    Records,      \* addresses g_malloc0 can return for a PendingClient
    Clients,      \* addresses of STClient objects
    Inputs,       \* ids of inputs peers can have (entries of all_inputs)
    Outputs,      \* ids of outputs peers can have (entries of all_outputs)
    None,
    RecordReuse,  \* the allocator hands a freed record out again while a
                  \* start result that carries its address is on its way
    FreedRead,    \* what reading a freed record comes to: its "name" is not a
                  \* pending one ("no_match"), or the process dies ("crash")
    StartFails    \* a peer may refuse or drop the connection during a start

ASSUME ConstantsAssumption ==
    /\ Matching \subseteq Names
    /\ None \notin Names \cup Records \cup Clients
    /\ RecordReuse \in BOOLEAN
    /\ FreedRead \subseteq {"no_match", "crash"}
    /\ StartFails \in BOOLEAN

Points == Inputs \cup Outputs

VARIABLES
    up,           \* the Core process is alive
    advertised,   \* names whose last mDNS event was an announcement
    rec,          \* PendingClient records, by address
    pending,      \* pending_clients: name -> record
    clients,      \* clients: name -> STClient
    start,        \* the STClient's start and its GTask
    snapshot,     \* ids of the points the STClient mirrors
    table,        \* all_inputs and all_outputs: id -> STClient
    peers,        \* the debug server's peer table
    stopped,      \* the debug server holds evaluation at a stop
    unevaluated   \* registered peers no full rule pass has covered yet

vars == <<up, advertised, rec, pending, clients, start, snapshot, table,
          peers, stopped, unevaluated>>

(***************************************************************************)
(* Records, starts and tables                                              *)
(***************************************************************************)
Freed == [name |-> None, client |-> None]

\* The calls a start makes one after the other; the name of the stage is the
\* call whose completion is awaited.
CallStages == {"connect", "get_inputs", "get_outputs", "get_stats"}

\* "returning": the task has been cancelled, its error is queued in an idle
\* source; "ready": ST_CLIENT_STATE_READY; "unused": no such object.
Stages == CallStages \cup {"unused", "returning", "ready"}

Unused == [stage |-> "unused", cancelled |-> FALSE, data |-> None]

InFlight(c) == start[c].stage \in CallStages

\* The completion callback of c still holds the address r.
Holds(c, r) == start[c].data = r

\* g_hash_table_foreach over the peers: of two peers that export the same id
\* the one the hash order visits last is kept, which is either.
Rebuilt(cl, snap) ==
    {f \in [Points -> Clients \cup {None}] :
        \A p \in Points :
            LET owners == {c \in Clients : (\E n \in Names : cl[n] = c) /\ p \in snap[c]}
            IN  IF owners = {} THEN f[p] = None ELSE f[p] \in owners}

TypeOK ==
    /\ up \in BOOLEAN
    /\ advertised \subseteq Names
    /\ rec \in [Records -> [name : Names \cup {None}, client : Clients \cup {None}]]
    /\ pending \in [Names -> Records \cup {None}]
    /\ clients \in [Names -> Clients \cup {None}]
    /\ start \in [Clients -> [stage : Stages, cancelled : BOOLEAN,
                              data : Records \cup {None}]]
    /\ snapshot \in [Clients -> SUBSET Points]
    /\ table \in [Points -> Clients \cup {None}]
    /\ peers \in [Names -> {"none", "connecting", "ready"}]
    /\ stopped \in BOOLEAN
    /\ unevaluated \subseteq Names

Init ==
    /\ up = TRUE
    /\ advertised = {}
    /\ rec = [r \in Records |-> Freed]
    /\ pending = [n \in Names |-> None]
    /\ clients = [n \in Names |-> None]
    /\ start = [c \in Clients |-> Unused]
    /\ snapshot = [c \in Clients |-> {}]
    /\ table = [p \in Points |-> None]
    /\ peers = [n \in Names |-> "none"]
    /\ stopped = FALSE
    /\ unevaluated = {}

-----------------------------------------------------------------------------
(***************************************************************************)
(* Effects the handlers share.  A "Mutant" is a variant of the definition  *)
(* after it, with the bug its comment names; no specification uses it.     *)
(***************************************************************************)

\* The allocator may return the address r.
Allocatable(r) ==
    /\ rec[r] = Freed
    /\ RecordReuse \/ \A c \in Clients : ~Holds(c, r)

\* Mutant: only pending starts are looked up before a new one is made.
KnownPendingOnly(n) == pending[n] # None

Known(n) == clients[n] # None \/ pending[n] # None

\* The record at r is the one pending_clients holds under the name read from r.
StillPending(r) == \E n \in Names : rec[r].name = n /\ pending[n] = r

\* Mutant: the record is stolen from pending_clients and never freed.
LeakRecord(r) == rec

FreeRecord(r) == [rec EXCEPT ![r] = Freed]

\* pending_client_free of the record r, as the start of c sees it.
CancelledBy(r, c) ==
    IF c = rec[r].client THEN [start[c] EXCEPT !.cancelled = TRUE] ELSE start[c]

\* Mutant: the debug server keeps a failed peer, in its new state.
DebugPeerFailed(n) == [peers EXCEPT ![n] = "failed"]

\* emit_peer_changed with "removed" or "failed" drops the peer,
DebugPeerLost(n) == [peers EXCEPT ![n] = "none"]

\* Mutant: the debug server is not told of a start.
DebugPeerUntold(n, state) == IF state = "connecting" THEN peers ELSE [peers EXCEPT ![n] = state]

\* and with any other event updates it.
DebugPeerNow(n, state) == [peers EXCEPT ![n] = state]

-----------------------------------------------------------------------------
(***************************************************************************)
(* mDNS signals                                                            *)
(***************************************************************************)
StartPending(n) ==
    \E r \in Records, c \in Clients :
        /\ Allocatable(r)
        /\ start[c].stage = "unused"
        /\ rec' = [rec EXCEPT ![r] = [name |-> n, client |-> c]]
        /\ pending' = [pending EXCEPT ![n] = r]
        /\ start' = [start EXCEPT ![c] =
                        [stage |-> "connect", cancelled |-> FALSE, data |-> r]]
        /\ peers' = DebugPeerNow(n, "connecting")

OnServiceAdded(n) ==
    /\ up
    /\ advertised' = advertised \cup {n}
    /\ IF n \in Matching /\ ~Known(n)
       THEN StartPending(n)
       ELSE UNCHANGED <<rec, pending, start, peers>>
    /\ UNCHANGED <<up, clients, snapshot, table, stopped, unevaluated>>

\* Mutant: the tables are left as they are.
TablesKept(n) == table' = table

\* The tables are built anew only when a registered peer goes.
TablesAfterRemoval(n) ==
    IF clients[n] # None THEN table' \in Rebuilt(clients', snapshot')
                         ELSE table' = table

\* Mutant: a withdrawal only looks for a registered peer.
PendingKept(n) == pending

PendingAfterRemoval(n) == [pending EXCEPT ![n] = None]

\* Withdrawal: the pending start is cancelled and its record freed, the
\* registered client is released and the tables are built anew.  No rule pass.
OnServiceRemoved(n) ==
    /\ up
    /\ advertised' = advertised \ {n}
    /\ peers' = IF Known(n) THEN DebugPeerLost(n) ELSE peers
    /\ pending' = PendingAfterRemoval(n)
    /\ rec' = IF pending[n] # None THEN FreeRecord(pending[n]) ELSE rec
    /\ clients' = [clients EXCEPT ![n] = None]
    /\ start' = [c \in Clients |->
                    IF c = clients[n] THEN Unused
                    ELSE IF pending[n] # None THEN CancelledBy(pending[n], c)
                    ELSE start[c]]
    /\ snapshot' = [c \in Clients |-> IF c = clients[n] THEN {} ELSE snapshot[c]]
    /\ TablesAfterRemoval(n)
    /\ unevaluated' = unevaluated \ {n}
    /\ UNCHANGED <<up, stopped>>

-----------------------------------------------------------------------------
(***************************************************************************)
(* The start of an STClient                                                *)
(***************************************************************************)

\* A reply arrived in time and the start has not been cancelled.
Answered(c, stage) == up /\ start[c].stage = stage /\ ~start[c].cancelled

Advance(c, next, points) ==
    /\ start' = [start EXCEPT ![c].stage = next]
    /\ snapshot' = [snapshot EXCEPT ![c] = @ \cup points]
    /\ UNCHANGED <<up, advertised, rec, pending, clients, table, peers,
                   stopped, unevaluated>>

OnConnected(c) == Answered(c, "connect") /\ Advance(c, "get_inputs", {})

OnGetInputs(c) ==
    /\ Answered(c, "get_inputs")
    /\ \E points \in SUBSET Inputs : Advance(c, "get_outputs", points)

OnGetOutputs(c) ==
    /\ Answered(c, "get_outputs")
    /\ \E points \in SUBSET Outputs : Advance(c, "get_stats", points)

\* Mutant: on_start_async_connected does not look at the cancellable.
FindsCancelledAfterConnect(c) ==
    InFlight(c) /\ start[c].stage # "connect" /\ start[c].cancelled

FindsCancelled(c) == InFlight(c) /\ start[c].cancelled

\* A completion that finds the start cancelled: the state becomes FAILED, the
\* connection is closed and the task's error waits for the next iteration.
OnCancelledCall(c) ==
    /\ up
    /\ FindsCancelled(c)
    /\ start' = [start EXCEPT ![c].stage = "returning"]
    /\ snapshot' = [snapshot EXCEPT ![c] = {}]
    /\ UNCHANGED <<up, advertised, rec, pending, clients, table, peers,
                   stopped, unevaluated>>

-----------------------------------------------------------------------------
(***************************************************************************)
(* on_client_start_finished                                                *)
(***************************************************************************)

\* The rule pass of register_ready_client, unless the debugger has stopped
\* evaluation: then the new peer is one no full pass has covered.
FullPass(n) == IF stopped THEN unevaluated \cup {n} ELSE {}

\* Mutant: the early return of a stop comes before the insertion.
WithPeerUnlessStopped(n, c) == IF stopped THEN clients ELSE [clients EXCEPT ![n] = c]

WithPeer(n, c) == [clients EXCEPT ![n] = c]

\* register_ready_client: the peer enters the table, the tables are built anew
\* and every rule is evaluated.
Register(n, c) ==
    /\ clients' = WithPeer(n, c)
    /\ peers' = DebugPeerNow(n, "ready")
    /\ table' \in Rebuilt(clients', snapshot')
    /\ unevaluated' = FullPass(n)

\* The last reply arrived: subscribe, READY, and the callback runs within
\* g_task_return_boolean.
OnGetStats(c) ==
    LET r == start[c].data
    IN  /\ Answered(c, "get_stats")
        /\ start' = [start EXCEPT ![c] =
                        [stage |-> "ready", cancelled |-> FALSE, data |-> None]]
        /\ pending' = [pending EXCEPT ![rec[r].name] = None]
        /\ rec' = FreeRecord(r)
        /\ UNCHANGED snapshot
        /\ Register(rec[r].name, rec[r].client)
        /\ UNCHANGED <<up, advertised, stopped>>

\* The start of c, whose task goes, failed: g_hash_table_remove of the record r.
FailPending(c, r) ==
    /\ peers' = DebugPeerLost(rec[r].name)
    /\ pending' = [pending EXCEPT ![rec[r].name] = None]
    /\ rec' = FreeRecord(r)
    /\ start' = [d \in Clients |-> IF d = c THEN Unused ELSE CancelledBy(r, d)]

\* start_async_fail of a start nobody cancelled: the callback runs within
\* g_task_return_error.
OnStartFailed(c) ==
    /\ up
    /\ StartFails
    /\ InFlight(c)
    /\ ~start[c].cancelled
    /\ FailPending(c, start[c].data)
    /\ snapshot' = [snapshot EXCEPT ![c] = {}]
    /\ UNCHANGED <<up, advertised, clients, table, stopped, unevaluated>>

\* The result of a cancelled start.  Its record has been freed: reading it is
\* undefined, and when the address has been handed out again the callback
\* finds another start's record there, takes it for its own and fails it.
OnLateResult(c) ==
    LET r == start[c].data
    IN  /\ up
        /\ start[c].stage = "returning"
        /\ snapshot' = [snapshot EXCEPT ![c] = {}]
        /\ \/ /\ StillPending(r)
              /\ FailPending(c, r)
              /\ up' = up
           \/ /\ ~StillPending(r)
              /\ \E read \in IF rec[r] = Freed THEN FreedRead ELSE {"no_match"} :
                    up' = (read = "no_match")
              /\ start' = [start EXCEPT ![c] = Unused]
              /\ UNCHANGED <<rec, pending, peers>>
        /\ UNCHANGED <<advertised, clients, table, stopped, unevaluated>>

-----------------------------------------------------------------------------
(***************************************************************************)
(* The debugger: a watchpoint or breakpoint hit on a value change, and the *)
(* Continue call.  Continue evaluates nothing.                             *)
(***************************************************************************)
EnterStopped ==
    /\ up
    /\ stopped' = TRUE
    /\ UNCHANGED <<up, advertised, rec, pending, clients, start, snapshot,
                   table, peers, unevaluated>>

Continue ==
    /\ up
    /\ stopped' = FALSE
    /\ UNCHANGED <<up, advertised, rec, pending, clients, start, snapshot,
                   table, peers, unevaluated>>

StartStep(c) ==
    \/ OnConnected(c)
    \/ OnGetInputs(c)
    \/ OnGetOutputs(c)
    \/ OnGetStats(c)
    \/ OnStartFailed(c)
    \/ OnCancelledCall(c)
    \/ OnLateResult(c)

Next ==
    \/ \E n \in Names : OnServiceAdded(n)
    \/ \E n \in Names : OnServiceRemoved(n)
    \/ \E c \in Clients : StartStep(c)
    \/ EnterStopped
    \/ Continue

Spec == Init /\ [][Next]_vars

\* The main loop runs every completion that is queued, GDBus ends every method
\* call with its default timeout, and a GCancellable ends a call at once.
LoopFairness == \A c \in Clients :
    WF_vars(StartStep(c) /\ (start[c].stage # "connect" \/ start[c].cancelled))

\* Connecting has no timeout in the code: that it ends at all is up to the peer
\* and the TCP stack.
PeersAnswer == \A c \in Clients : WF_vars(StartStep(c))

FairSpec == Spec /\ LoopFairness /\ PeersAnswer

-----------------------------------------------------------------------------
(***************************************************************************)
(* Properties                                                              *)
(***************************************************************************)

\* A record is allocated exactly while pending_clients holds it, and the start
\* it names is under way, has not been cancelled and will come back with this
\* record: withdrawals, failures and late results never leave a peer pending
\* whose start is over, nor leak a record.
PendingOwnsStart ==
    /\ \A n \in Names : pending[n] # None => rec[pending[n]].name = n
    /\ \A r \in Records : rec[r] # Freed =>
          /\ StillPending(r)
          /\ rec[r].client \in Clients
          /\ InFlight(rec[r].client)
          /\ ~start[rec[r].client].cancelled
          /\ Holds(rec[r].client, r)

\* Conversely a start that has not been cancelled belongs to the record it will
\* come back with: it is never orphaned.
NoOrphanStart ==
    \A c \in Clients :
        /\ InFlight(c) \/ start[c].stage = "returning" => start[c].data \in Records
        /\ InFlight(c) /\ ~start[c].cancelled => rec[start[c].data].client = c
        /\ start[c].stage = "returning" => start[c].cancelled

\* Records and starts match, in both directions: whatever is withdrawn, fails or ends
\* late, a record lives as long as the start it owns, and a start that was not
\* cancelled has its record.
RecordsOwnStarts == PendingOwnsStart /\ NoOrphanStart

\* A peer is pending or registered, never both, only while mDNS advertises it;
\* a registered peer has a READY client of its own.
PeersAdvertised ==
    \A n \in Names :
        /\ Known(n) => n \in advertised
        /\ ~(pending[n] # None /\ clients[n] # None)
        /\ clients[n] # None =>
              /\ start[clients[n]].stage = "ready"
              /\ \A m \in Names : clients[m] = clients[n] => m = n

\* all_inputs and all_outputs name a client exactly for the ids some registered
\* peer exports, and that client is registered and exports the id: after every
\* callback the rules and the debugger can follow each entry.
TablesCurrent == table \in Rebuilt(clients, snapshot)

\* ListPeers of the debug server agrees with the Core: "connecting" for the
\* pending peers, "ready" for the registered ones, nothing for the others.
DebugPeersAgree ==
    \A n \in Names :
        /\ peers[n] = "connecting" <=> pending[n] # None
        /\ peers[n] = "ready" <=> clients[n] # None

\* A peer no full rule pass has covered is registered, and became so while the
\* debugger held evaluation; a registration outside a stop covers all of them.
OnlyStopsSkipPasses ==
    [][\A n \in Names : clients[n] = None /\ clients'[n] # None =>
           (IF stopped THEN n \in unevaluated' ELSE unevaluated' = {})]_vars

Status(n) ==
    IF clients[n] # None THEN "ready" ELSE IF pending[n] # None THEN "connecting" ELSE "absent"

Abstract == INSTANCE PeerTable
                WITH present <- advertised, status <- [n \in Names |-> Status(n)]

\* The registry implements the peer table, also when late results find another
\* start's record: every callback moves one peer along absent, connecting,
\* ready, and only an announcement and a withdrawal move it in and out of sight.
ImplementsPeerTable == Abstract!Spec

\* A start result is about the start it ends: a peer that is still advertised
\* leaves pending_clients only registered or with its own start over.  What
\* src/mdns.c:205 says of the result of a removed start.
OwnResultOnly ==
    [][\A n \in Names :
          (pending[n] # None /\ pending'[n] = None /\ n \in advertised') =>
              \/ clients'[n] = rec[pending[n]].client
              \/ start'[rec[pending[n]].client].stage = "unused"]_vars

\* Every start ends: its client becomes READY or is released, so no withdrawal
\* leaves a task, a connection or a client behind.
StartsEnd ==
    \A c \in Clients : InFlight(c) ~> start[c].stage \in {"unused", "ready"}

\* When peers answer, an advertised peer that matches becomes registered unless
\* it is withdrawn, whatever starts were cancelled before.
AdvertisedGetsReady ==
    \A n \in Matching : n \in advertised ~> (clients[n] # None \/ n \notin advertised)
=============================================================================
