----------------------------- MODULE DebugServer -----------------------------
(***************************************************************************)
(* The Core's debug server (debug-server.c) and the debuggers attached to  *)
(* it.  A debugger opens a connection of its own, calls methods, and is    *)
(* sent the signals every debugger is sent; replies and signals of one     *)
(* connection arrive in order.  The Core's part runs in its main loop: one *)
(* callback at a time.                                                     *)
(*                                                                         *)
(* A debugger keeps what it was told: the peers and values it listed, each *)
(* brought up to date by the signals, whether the Core is stopped, and the *)
(* handles of its points.  What becomes of evaluation while the Core is    *)
(* stopped is in Engine; the registration of peers is in PeerRegistry.     *)
(***************************************************************************)
EXTENDS Naturals, Sequences, FiniteSets

CONSTANTS
    Debuggers,
    Names,      \* peers
    Points,     \* inputs and outputs of the peers
    Owner,      \* the peer a point belongs to
    Vars,       \* variables of rules.conf
    Values,
    Sessions,   \* what is considered: the calls each debugger makes, and the
                \* bounds on points added and on events, [uses, adds, news]
    None,
    HandleMod,  \* handles count modulo this: 2^32 in the code
    MaxSent     \* bound: messages on the way to one debugger

Ids == Points \cup Vars
Kinds == {"breakpoint", "watchpoint"}
Handles == 1 .. HandleMod - 1

\* The calls of the methods; points stands for ListInputs and ListOutputs.
Calls ==
    {[do |-> d] : d \in {"status", "peers", "points", "continue"}}
    \cup [do : {"add"}, kind : Kinds, id : Ids]
    \cup [do : {"remove"}, kind : Kinds, handle : 0 .. HandleMod - 1]
    \cup [do : {"set"}, id : Points, to : Values]

ASSUME DebugServerAssumption ==
    /\ Points \cap Vars = {}
    /\ Owner \in [Points -> Names]
    /\ Sessions \subseteq
          [uses : [Debuggers -> SUBSET Calls], adds : Nat, news : Nat]
    /\ None \notin Ids \cup Values /\ None \notin Calls
    /\ HandleMod \in Nat \ {0, 1}
    /\ MaxSent \in Nat

VARIABLES
    session,     \* the session, the same for a whole behaviour
    peers,       \* the debug server's peer table
    value,       \* val of a mirrored point, or of a variable; None if unknown
    news,        \* events so far
    connections, \* connections the Core sends signals to
    points,      \* breakpoints and watchpoints: the id a handle stands for
    next,        \* next_handle
    adds,        \* points added so far
    paused,
    link,        \* a debugger's connection: closed, open, or vanished
    call,        \* the call a debugger waits for
    sent,        \* replies and signals on the way to a debugger
    held,        \* a debugger takes the Core to be stopped
    seenPeers,   \* the peer table as a debugger knows it, None if it does not
    seen,        \* the values a debugger knows
    mine         \* the points a debugger was given a handle for

core == <<session, peers, value>>
table == <<points, next, adds>>
debugger == <<held, seenPeers, seen, mine>>
vars == <<core, news, connections, table, paused, link, call, sent, debugger>>

States == {"absent", "connecting", "ready"}
Views == [Ids -> Values \cup {None}]
Point(k, h, i) == [kind |-> k, handle |-> h, id |-> i]

TypeOK ==
    /\ session \in Sessions
    /\ peers \in [Names -> States]
    /\ value \in Views
    /\ connections \subseteq Debuggers
    /\ points \in [Kinds -> [Handles -> Ids \cup {None}]]
    /\ next \in 0 .. HandleMod - 1
    /\ paused \in BOOLEAN
    /\ link \in [Debuggers -> {"closed", "open", "vanished"}]
    /\ call \in [Debuggers -> Calls \cup {None}]
    /\ held \in [Debuggers -> BOOLEAN]
    /\ seenPeers \in [Debuggers -> [Names -> States] \cup {None}]
    /\ seen \in [Debuggers -> Views]
    /\ \A d \in Debuggers :
          mine[d] \subseteq [kind : Kinds, handle : Handles, id : Ids]

Nothing == [i \in Ids |-> None]

\* No debugger has come yet; peers may have.
Init ==
    /\ session \in Sessions
    /\ peers \in [Names -> States]
    /\ value \in {v \in Views : \A i \in Ids :
                        v[i] = None <=> i \in Points /\ peers[Owner[i]] # "ready"}
    /\ news = 0
    /\ connections = {}
    /\ points = [k \in Kinds |-> [h \in Handles |-> None]]
    /\ next = 1
    /\ adds = 0
    /\ paused = FALSE
    /\ link = [d \in Debuggers |-> "closed"]
    /\ call = [d \in Debuggers |-> None]
    /\ sent = [d \in Debuggers |-> <<>>]
    /\ held = [d \in Debuggers |-> FALSE]
    /\ seenPeers = [d \in Debuggers |-> None]
    /\ seen = [d \in Debuggers |-> Nothing]
    /\ mine = [d \in Debuggers |-> {}]

-----------------------------------------------------------------------------
(***************************************************************************)
(* Signals and replies                                                     *)
(***************************************************************************)

PeerChanged(n, state) == [signal |-> "PeerChanged", name |-> n, state |-> state]
PointChanged(i, v) == [signal |-> "Changed", id |-> i, to |-> v]
Stopped == [signal |-> "Stopped"]

\* Mutant: the debuggers are sent nothing while the Core is stopped.
ToldWhileRunning(d, signals) ==
    IF d \in connections /\ link[d] = "open" /\ ~paused THEN signals ELSE <<>>

\* Mutant: a debugger that waits for a reply is sent no signals.
ToldWhenIdle(d, signals) ==
    IF d \in connections /\ link[d] = "open" /\ call[d] = None
    THEN signals
    ELSE <<>>

\* What broadcast_signal sends to a debugger: D-Bus delivers it unless the
\* debugger has gone.
Told(d, signals) ==
    IF d \in connections /\ link[d] = "open" THEN signals ELSE <<>>

Broadcast(signals) == sent' = [d \in Debuggers |-> sent[d] \o Told(d, signals)]

\* The reply to a call of c comes after the signals its handler sent.
BroadcastAndReply(signals, c, reply) ==
    sent' = [d \in Debuggers |->
                sent[d] \o Told(d, signals)
                        \o (IF d = c /\ link[d] = "open" THEN <<reply>> ELSE <<>>)]

Room == \A d \in Debuggers : Len(sent[d]) < MaxSent

\* st_core_debug_intercept_change: a change of i stops evaluation when i has a
\* point, unless it is stopped already.  The signals it gives rise to:
Stops(i) == ~paused /\ \E k \in Kinds, h \in Handles : points[k][h] = i

Intercept(i) == IF Stops(i) THEN <<Stopped>> ELSE <<>>

\* The changed callbacks of inputs, outputs and variables, up to the rules, and the
\* signals they send.
Signals(i, v) == <<PointChanged(i, v)>> \o Intercept(i)

Changed(i, v) ==
    /\ value' = [value EXCEPT ![i] = v]
    /\ paused' = (paused \/ Stops(i))

-----------------------------------------------------------------------------
(***************************************************************************)
(* What happens in the Core                                                *)
(***************************************************************************)

News ==
    /\ news < session.news /\ Room
    /\ news' = news + 1
    /\ UNCHANGED <<connections, table, link, call, debugger>>

\* The changes of the peer table, with the points of the peer.
PeerEvent(n, from, to) ==
    /\ News
    /\ peers[n] \in from
    /\ peers' = [peers EXCEPT ![n] = to]
    /\ Broadcast(<<PeerChanged(n, to)>>)
    /\ UNCHANGED <<session, paused>>

Withdrawn(n) == value' = [i \in Ids |->
                        IF i \in Points /\ Owner[i] = n THEN None ELSE value[i]]

PeerConnecting(n) == PeerEvent(n, {"absent"}, "connecting") /\ UNCHANGED value

PeerReady(n) ==
    /\ PeerEvent(n, {"connecting"}, "ready")
    /\ \E v \in [Ids -> Values] :
          value' = [i \in Ids |->
                       IF i \in Points /\ Owner[i] = n THEN v[i] ELSE value[i]]

PeerFailed(n) == PeerEvent(n, {"connecting"}, "absent") /\ UNCHANGED value
PeerRemoved(n) == PeerEvent(n, {"connecting", "ready"}, "absent") /\ Withdrawn(n)

\* A point changes in its service, a variable by a rule.
PointNews(p) ==
    /\ News
    /\ value[p] # None
    /\ \E v \in Values \ {value[p]} : Changed(p, v) /\ Broadcast(Signals(p, v))
    /\ UNCHANGED <<session, peers>>

VarNews(x) ==
    /\ News
    /\ \E v \in Values \ {value[x]} : Changed(x, v) /\ Broadcast(Signals(x, v))
    /\ UNCHANGED <<session, peers>>

OnNewConnection(d) ==
    /\ link[d] # "closed" /\ d \notin connections
    /\ connections' = connections \cup {d}
    /\ UNCHANGED <<core, news, table, paused, link, call, sent, debugger>>

OnClosed(d) ==
    /\ link[d] = "vanished" /\ d \in connections
    /\ connections' = connections \ {d}
    /\ link' = [link EXCEPT ![d] = "closed"]
    /\ UNCHANGED <<core, news, table, paused, call, sent, debugger>>

-----------------------------------------------------------------------------
(***************************************************************************)
(* The methods                                                             *)
(***************************************************************************)

\* handle_method_call: a call is answered in one go.
Serves(d, do) ==
    /\ d \in connections /\ link[d] = "open"
    /\ call[d] # None /\ call[d].do = do
    /\ call' = [call EXCEPT ![d] = None]
    /\ UNCHANGED <<session, peers, news, connections, link, debugger>>

Reply(d, reply) == BroadcastAndReply(<<>>, d, reply)

\* Mutant: the pause is not in the reply.
GetStatusWithoutPause(d) ==
    /\ Serves(d, "status")
    /\ Reply(d, [reply |-> "status", paused |-> FALSE])
    /\ UNCHANGED <<value, table, paused>>

GetStatus(d) ==
    /\ Serves(d, "status")
    /\ Reply(d, [reply |-> "status", paused |-> paused])
    /\ UNCHANGED <<value, table, paused>>

ListPeers(d) ==
    /\ Serves(d, "peers")
    /\ Reply(d, [reply |-> "peers", peers |-> peers])
    /\ UNCHANGED <<value, table, paused>>

\* ListInputs and ListOutputs.
ListPoints(d) ==
    /\ Serves(d, "points")
    /\ Reply(d, [reply |-> "points", value |-> value])
    /\ UNCHANGED <<value, table, paused>>

\* Mutants: a handle from the number of points there are, and one that may be 0.
HandleByCount ==
    Cardinality({kh \in Kinds \X Handles : points[kh[1]][kh[2]] # None}) + 1

HandleUnskipped == next

\* 0 stands for an error: the counter skips it.
Handle == IF next = 0 THEN 1 ELSE next

AddPoint(d) ==
    /\ Serves(d, "add")
    /\ LET c == call[d]
       IN  /\ points' = [points EXCEPT ![c.kind][Handle] = c.id]
           /\ Reply(d, [reply |-> "added", point |-> Point(c.kind, Handle, c.id)])
    /\ next' = (Handle + 1) % HandleMod
    /\ adds' = adds + 1
    /\ UNCHANGED <<value, paused>>

RemovePoint(d) ==
    /\ Serves(d, "remove")
    /\ LET c == call[d]
           known == c.handle # 0 /\ points[c.kind][c.handle] # None
       IN  /\ points' = IF known
                        THEN [points EXCEPT ![c.kind][c.handle] = None]
                        ELSE points
           /\ Reply(d, [reply |-> "removed", known |-> known,
                        kind |-> c.kind, handle |-> c.handle])
    /\ UNCHANGED <<value, next, adds, paused>>

Continue(d) ==
    /\ Serves(d, "continue")
    /\ paused' = FALSE
    /\ Reply(d, [reply |-> "continued"])
    /\ UNCHANGED <<value, table>>

\* st_core_debug_set_input, which may stop the Core by itself.
SetInput(d) ==
    /\ Serves(d, "set")
    /\ LET c == call[d]
           done == [reply |-> "set"]
       IN  IF value[c.id] \in {None, c.to}
           THEN Reply(d, done) /\ UNCHANGED <<value, paused>>
           ELSE Changed(c.id, c.to) /\ BroadcastAndReply(Signals(c.id, c.to), d, done)
    /\ UNCHANGED table

-----------------------------------------------------------------------------
(***************************************************************************)
(* The debuggers                                                           *)
(***************************************************************************)

\* A debugger attaches: it connects and asks for the status.
Attach(d) ==
    /\ link[d] = "closed" /\ d \notin connections
    /\ link' = [link EXCEPT ![d] = "open"]
    /\ call' = [call EXCEPT ![d] = [do |-> "status"]]
    /\ UNCHANGED <<core, news, connections, table, paused, sent, debugger>>

Vanish(d) ==
    /\ link[d] = "open" /\ d \in connections
    /\ link' = [link EXCEPT ![d] = "vanished"]
    /\ call' = [call EXCEPT ![d] = None]
    /\ sent' = [sent EXCEPT ![d] = <<>>]
    /\ held' = [held EXCEPT ![d] = FALSE]
    /\ seenPeers' = [seenPeers EXCEPT ![d] = None]
    /\ seen' = [seen EXCEPT ![d] = Nothing]
    /\ mine' = [mine EXCEPT ![d] = {}]
    /\ UNCHANGED <<core, news, connections, table, paused>>

\* A debugger waits for the reply to one call before it makes the next.
Idle(d) ==
    /\ call[d] = None
    /\ \A i \in DOMAIN sent[d] : "reply" \notin DOMAIN sent[d][i]

Asks(d, c) ==
    /\ link[d] = "open" /\ Idle(d)
    /\ call' = [call EXCEPT ![d] = c]
    /\ UNCHANGED <<core, news, connections, table, paused, link, sent, debugger>>

Calling(do) == {d \in Debuggers : call[d] # None /\ call[d].do = do}

Ask(d) ==
    \E c \in session.uses[d] :
        /\ c.do = "add" => adds + Cardinality(Calling("add")) < session.adds
        /\ c.do = "set" => Room /\ Calling("set") = {}
        /\ Asks(d, c)

\* A debugger that takes the Core to be stopped lets it go on.
LetGo(d) == held[d] /\ Asks(d, [do |-> "continue"])

Forgotten(view) == [i \in Ids |-> IF i \in Points THEN None ELSE view[i]]

Listed(view, listed) == [i \in Ids |-> IF i \in Points THEN listed[i] ELSE view[i]]

ReceiveSignal(d) ==
    /\ sent[d] # <<>> /\ "signal" \in DOMAIN Head(sent[d])
    /\ LET m == Head(sent[d])
       IN  /\ held' = [held EXCEPT ![d] = @ \/ m.signal = "Stopped"]
           /\ seenPeers' = IF m.signal = "PeerChanged" /\ seenPeers[d] # None
                           THEN [seenPeers EXCEPT ![d][m.name] = m.state]
                           ELSE seenPeers
           /\ seen' = CASE m.signal = "PeerChanged" ->
                                [seen EXCEPT ![d] = Forgotten(@)]
                        [] m.signal = "Changed" /\ [do |-> "points"] \in session.uses[d] ->
                                [seen EXCEPT ![d][m.id] = m.to]
                        [] OTHER -> seen
    /\ sent' = [sent EXCEPT ![d] = Tail(@)]
    /\ UNCHANGED <<core, news, connections, table, paused, link, call, mine>>

ReceiveReply(d) ==
    /\ sent[d] # <<>> /\ "reply" \in DOMAIN Head(sent[d])
    /\ LET m == Head(sent[d])
       IN  /\ held' = CASE m.reply = "status" -> [held EXCEPT ![d] = m.paused]
                        [] m.reply = "continued" -> [held EXCEPT ![d] = FALSE]
                        [] OTHER -> held
           /\ seenPeers' = IF m.reply = "peers"
                           THEN [seenPeers EXCEPT ![d] = m.peers] ELSE seenPeers
           /\ seen' = IF m.reply = "points"
                      THEN [seen EXCEPT ![d] = Listed(@, m.value)] ELSE seen
           /\ mine' = CASE m.reply = "added" -> [mine EXCEPT ![d] = @ \cup {m.point}]
                        [] m.reply = "removed" /\ m.known ->
                              [mine EXCEPT ![d] = {p \in @ : p.kind # m.kind
                                                          \/ p.handle # m.handle}]
                        [] OTHER -> mine
    /\ sent' = [sent EXCEPT ![d] = Tail(@)]
    /\ UNCHANGED <<core, news, connections, table, paused, link, call>>

-----------------------------------------------------------------------------
Method(d) ==
    \/ GetStatus(d) \/ ListPeers(d) \/ ListPoints(d)
    \/ AddPoint(d) \/ RemovePoint(d) \/ Continue(d) \/ SetInput(d)

Receive(d) == ReceiveSignal(d) \/ ReceiveReply(d)

Next ==
    \/ \E n \in Names : PeerConnecting(n) \/ PeerReady(n) \/ PeerFailed(n) \/ PeerRemoved(n)
    \/ \E p \in Points : PointNews(p)
    \/ \E x \in Vars : VarNews(x)
    \/ \E d \in Debuggers :
          \/ OnNewConnection(d) \/ OnClosed(d) \/ Method(d)
          \/ Attach(d) \/ Vanish(d) \/ Ask(d) \/ LetGo(d) \/ Receive(d)

\* The main loop comes back to every connection; a debugger reads what it is
\* sent, and lets the Core go on when it takes it to be stopped, now and then
\* preferring this to the other calls it may make.
Fairness ==
    \A d \in Debuggers :
        /\ WF_vars(OnNewConnection(d))
        /\ WF_vars(Method(d))
        /\ WF_vars(Receive(d))
        /\ SF_vars(LetGo(d))

Spec == Init /\ [][Next]_vars

FairSpec == Spec /\ Fairness

-----------------------------------------------------------------------------
(***************************************************************************)
(* Properties                                                              *)
(***************************************************************************)

\* What a debugger listed and kept up to date by the signals is what the Core
\* has, once it has read everything sent to it: the peers, and every value it
\* knows.  This holds during a stop as well.
ViewsFollow ==
    \A d \in Debuggers : sent[d] = <<>> =>
        /\ seenPeers[d] \in {None, peers}
        /\ \A i \in Ids : seen[d][i] \in {None, value[i]}

\* Of two debuggers none is left unaware of a stop, whoever set the point and
\* whoever let the Core go on before: one that has read everything takes a
\* stopped Core to be stopped, unless its first GetStatus is under way.
StopsKnown ==
    \A d \in Debuggers :
        paused /\ link[d] = "open" /\ sent[d] = <<>> =>
            held[d] \/ (call[d] # None /\ call[d].do = "status")

\* As long as next_handle has not come round, a handle never comes to mean
\* another point than the one a debugger was given it for: it stands for that
\* point, or for nothing once somebody removed it.
HandleKeepsItsMeaning ==
    adds < HandleMod =>
        \A d \in Debuggers : \A p \in mine[d], k \in Kinds :
            points[k][p.handle] = None \/ (k = p.kind /\ points[k][p.handle] = p.id)

\* As long as a debugger stays connected no stop is for ever, even one that a
\* debugger caused which has gone since.
StopsEnd ==
    \A d \in Debuggers :
        paused /\ link[d] = "open" ~> ~paused \/ link[d] # "open"
=============================================================================
