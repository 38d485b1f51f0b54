------------------------------ MODULE Discovery ------------------------------
(***************************************************************************)
(* The discovery of services: STMDNS (lib/mdns.c) between the Avahi daemon *)
(* and the Core's peer table.                                              *)
(*                                                                         *)
(* An instance is a name and a service type seen on one link (a network    *)
(* interface and an address family); its place is the host, address and    *)
(* port.  The daemon tells of types and of instances; STMDNS makes a       *)
(* browser for each type and a resolver for each new instance, keeps the   *)
(* resolved ones in "services", and signals service-added and              *)
(* service-removed, which know names only.  The peer table behind the      *)
(* signals is PeerTable, which PeerRegistry implements.                    *)
(*                                                                         *)
(* What the daemon sends arrives in order, but it answers a resolver when  *)
(* it likes, from its cache too, before or after it tells that the         *)
(* instance has gone.                                                      *)
(***************************************************************************)
EXTENDS Naturals, Sequences, FiniteSets

CONSTANTS
    Names,
    Matching,    \* the names that match --service-match
    Links,       \* pairs of an interface and an address family
    Types,
    Instances,   \* what may be offered: a name, a type and a link each
    Places,      \* host, address and port
    None,
    Unresolvable,\* a resolver may end without an answer
    MaxRunning,  \* bound: entries into AVAHI_CLIENT_S_RUNNING
    MaxChurn     \* bound: changes of the network

Entries == [inst : Instances, place : Places]

ASSUME DiscoveryAssumption ==
    /\ Matching \subseteq Names
    /\ Instances \subseteq [name : Names, type : Types, link : Links]
    /\ None \notin Places \cup Entries
    /\ Unresolvable \in BOOLEAN
    /\ MaxRunning \in Nat
    /\ MaxChurn \in Nat

VARIABLES
    net,        \* the place an instance is offered at, or None
    churn,      \* changes of the network so far
    alive,      \* the daemon's connection is up
    told,       \* per type browser, the types the daemon has told it, or None
    reported,   \* instances the daemon has told of and not taken back
    cache,      \* the place the daemon last knew of an instance
    wire,       \* what the daemon has sent and STMDNS has not handled
    browsers,   \* service_browsers: types with a browser
    refused,    \* history: types for which none could be made when last told
    resolvers,  \* resolvers under way, by instance
    services,   \* services: instances with the place they resolved to
    lost,       \* history: instances whose last resolver failed or was not made
    present,    \* names whose last signal was service-added
    status,     \* the peer table's status of a name
    withdrawn,  \* history: the type whose removal was last signalled for a name
    at          \* the entry whose place the peer of a name connects to

network == <<net, churn, cache>>
daemon == <<alive, told, reported>>
mdns == <<browsers, refused, resolvers, services, lost>>
registry == <<present, status, withdrawn, at>>
vars == <<network, daemon, wire, mdns, registry>>

Event(kind, about, place) == [kind |-> kind, about |-> about, place |-> place]

Events ==
    [kind : {"type"}, about : Types, place : {None}]
    \cup [kind : {"new", "remove", "failed"}, about : Instances, place : {None}]
    \cup [kind : {"found"}, about : Instances, place : Places]

Peers == INSTANCE PeerTable

Listed(i) == \E p \in Places : [inst |-> i, place |-> p] \in services

ListedName(n) == \E s \in services : s.inst.name = n

TypeOK ==
    /\ net \in [Instances -> Places \cup {None}]
    /\ churn \in Nat
    /\ alive \in BOOLEAN
    /\ told \in Seq((SUBSET Types) \cup {None})
    /\ reported \subseteq Instances
    /\ cache \in [Instances -> Places \cup {None}]
    /\ wire \in Seq(Events)
    /\ browsers \subseteq Types /\ refused \subseteq Types
    /\ resolvers \in [Instances -> Nat]
    /\ services \subseteq Entries
    /\ lost \subseteq Instances
    /\ present \subseteq Names
    /\ status \in [Names -> {"absent", "connecting", "ready"}]
    /\ withdrawn \in [Names -> Types \cup {None}]
    /\ at \in [Names -> Entries \cup {None}]
    /\ \A n \in Names : at[n] = None <=> status[n] = "absent"

Init ==
    /\ net = [i \in Instances |-> None]
    /\ churn = 0
    /\ alive = TRUE
    /\ told = <<>>
    /\ reported = {}
    /\ cache = [i \in Instances |-> None]
    /\ wire = <<>>
    /\ browsers = {}
    /\ refused = {}
    /\ resolvers = [i \in Instances |-> 0]
    /\ services = {}
    /\ lost = {}
    /\ withdrawn = [n \in Names |-> None]
    /\ at = [n \in Names |-> None]
    /\ Peers!Init

-----------------------------------------------------------------------------
(***************************************************************************)
(* The network and the daemon                                              *)
(***************************************************************************)

\* An instance appears, goes, or is offered at another place.
Change(i) ==
    /\ churn < MaxChurn
    /\ \E p \in (Places \cup {None}) \ {net[i]} :
          /\ net' = [net EXCEPT ![i] = p]
          /\ cache' = IF p = None THEN cache ELSE [cache EXCEPT ![i] = p]
    /\ churn' = churn + 1
    /\ UNCHANGED <<daemon, wire, mdns, registry>>

Send(event) == alive /\ wire' = Append(wire, event)

TellType(b, t) ==
    /\ b \in DOMAIN told /\ told[b] # None
    /\ t \notin told[b]
    /\ \E i \in Instances : i.type = t /\ net[i] # None
    /\ told' = [told EXCEPT ![b] = @ \cup {t}]
    /\ Send(Event("type", t, None))
    /\ UNCHANGED <<network, alive, reported, mdns, registry>>

TellNew(i) ==
    /\ i.type \in browsers
    /\ i \notin reported
    /\ net[i] # None
    /\ reported' = reported \cup {i}
    /\ Send(Event("new", i, None))
    /\ UNCHANGED <<network, alive, told, mdns, registry>>

TellRemove(i) ==
    /\ i \in reported
    /\ net[i] = None
    /\ reported' = reported \ {i}
    /\ Send(Event("remove", i, None))
    /\ UNCHANGED <<network, alive, told, mdns, registry>>

\* A resolver is answered, from the daemon's cache.
Answer(i) ==
    /\ resolvers[i] > 0
    /\ cache[i] # None
    /\ Send(Event("found", i, cache[i]))
    /\ resolvers' = [resolvers EXCEPT ![i] = @ - 1]
    /\ UNCHANGED <<network, daemon, browsers, refused, services, lost, registry>>

\* A resolver times out.
GiveUpResolving(i) ==
    /\ Unresolvable
    /\ resolvers[i] > 0
    /\ Send(Event("failed", i, None))
    /\ resolvers' = [resolvers EXCEPT ![i] = @ - 1]
    /\ UNCHANGED <<network, daemon, browsers, refused, services, lost, registry>>

-----------------------------------------------------------------------------
(***************************************************************************)
(* The state of the client.  A "Mutant" is a variant of the definition     *)
(* after it, with the bug its comment names; no specification uses it.     *)
(***************************************************************************)

\* AVAHI_CLIENT_S_RUNNING, at the start and after each change of the host name:
\* a new type browser, or none if it cannot be made; the old one is left running.
OnRunning ==
    /\ alive
    /\ Len(told) < MaxRunning
    /\ \E types \in {{}, None} : told' = Append(told, types)
    /\ UNCHANGED <<network, alive, reported, wire, mdns, registry>>

\* AVAHI_CLIENT_FAILURE is logged.  The connection is not made again.
OnFailure ==
    /\ alive
    /\ alive' = FALSE
    /\ wire' = <<>>
    /\ UNCHANGED <<network, told, reported, mdns, registry>>

-----------------------------------------------------------------------------
(***************************************************************************)
(* The events of browsers and resolvers                                    *)
(***************************************************************************)
Received(kind) == wire # <<>> /\ Head(wire).kind = kind /\ wire' = Tail(wire)

\* Mutant: the table is asked for the key, entered also when no browser could be made,
\* so that a type told again counts as seen.
OnTypeByKey ==
    LET t == Head(wire).about
    IN  /\ Received("type")
        /\ IF t \in browsers \cup refused
           THEN refused' = refused \ {t} /\ UNCHANGED browsers
           ELSE \/ browsers' = browsers \cup {t} /\ UNCHANGED refused
                \/ refused' = refused \cup {t} /\ UNCHANGED browsers
        /\ UNCHANGED <<network, daemon, resolvers, services, lost, registry>>

\* A type that has no browser gets one.  If it cannot be made the type is forgotten,
\* until another type browser tells of it.
OnType ==
    LET t == Head(wire).about
    IN  /\ Received("type")
        /\ \/ browsers' = browsers \cup {t} /\ refused' = refused \ {t}
           \/ t \notin browsers /\ refused' = refused \cup {t} /\ UNCHANGED browsers
        /\ UNCHANGED <<network, daemon, resolvers, services, lost, registry>>

\* A resolver is made for each new instance; that it cannot be is only logged.
OnNew ==
    LET i == Head(wire).about
    IN  /\ Received("new")
        /\ \/ resolvers' = [resolvers EXCEPT ![i] = @ + 1] /\ UNCHANGED lost
           \/ lost' = lost \cup {i} /\ UNCHANGED resolvers
        /\ UNCHANGED <<network, daemon, browsers, refused, services, registry>>

\* Mutant: an instance on another link is taken for one that is listed.
KnownElsewhere(s) ==
    \E e \in services : e.inst.name = s.inst.name /\ e.inst.type = s.inst.type

\* lookup_service compares every field of st_mdns_service_compare.
Known(s) == s \in services

\* on_mdns_service_added connects to the place of the signal that makes the
\* peer known and looks at no other.
TakePlace(n, s) ==
    /\ UNCHANGED withdrawn
    /\ at' = IF n \in Matching /\ status[n] = "absent" THEN [at EXCEPT ![n] = s] ELSE at

\* AVAHI_RESOLVER_FOUND.  Nothing asks whether the instance is still browsed.
OnFound ==
    LET s == [inst |-> Head(wire).about, place |-> Head(wire).place]
        n == s.inst.name
    IN  /\ Received("found")
        /\ lost' = lost \ {s.inst}
        /\ IF Known(s)
           THEN UNCHANGED <<services, registry>>
           ELSE services' = services \cup {s} /\ Peers!Announce(n) /\ TakePlace(n, s)
        /\ UNCHANGED <<network, daemon, browsers, refused, resolvers>>

\* AVAHI_RESOLVER_FAILURE is logged and not tried again.
OnResolverFailed ==
    /\ Received("failed")
    /\ lost' = lost \cup {Head(wire).about}
    /\ UNCHANGED <<network, daemon, browsers, refused, resolvers, services, registry>>

\* Mutant: the entry is looked up with its place, the last one told.
RemoveEntry(i) == services \ {[inst |-> i, place |-> cache[i]]}

\* remove_service_instance: every entry of the instance, whatever its place.
RemoveInstance(i) == {s \in services : s.inst # i}

\* Mutant: only the link of the removed instance is looked at.
RemainingOnLink(i) == {s \in RemoveInstance(i) : s.inst = i}

\* Mutant: the service type is not looked at.
RemainingOfName(i) == {s \in RemoveInstance(i) : s.inst.name = i.name}

\* count_services_by_name_and_type, of what is left.
Remaining(i) == {s \in RemoveInstance(i) : s.inst.name = i.name /\ s.inst.type = i.type}

\* AVAHI_BROWSER_REMOVE.  The signal is emitted also when nothing was listed.
OnRemove ==
    LET i == Head(wire).about
    IN  /\ Received("remove")
        /\ services' = RemoveInstance(i)
        /\ IF Remaining(i) = {}
           THEN /\ Peers!Withdraw(i.name)
                /\ at' = [at EXCEPT ![i.name] = None]
                /\ withdrawn' = [withdrawn EXCEPT ![i.name] = i.type]
           ELSE UNCHANGED registry
        /\ UNCHANGED <<network, daemon, browsers, refused, resolvers, lost>>

-----------------------------------------------------------------------------
(***************************************************************************)
(* The starts of the peers (see PeerRegistry).  A start fails when nothing *)
(* is offered at the place it connects to.                                 *)
(***************************************************************************)
Reachable(n) == at[n] # None /\ \E i \in Instances : i.name = n /\ net[i] = at[n].place

OnStartReady(n) ==
    /\ Reachable(n)
    /\ Peers!BecomeReady(n)
    /\ UNCHANGED <<network, daemon, wire, mdns, withdrawn, at>>

\* Mutant: the place of a peer that was dropped is kept.
OnStartFailedKept(n) ==
    /\ ~Reachable(n)
    /\ Peers!GiveUp(n)
    /\ UNCHANGED <<network, daemon, wire, mdns, withdrawn, at>>

OnStartFailed(n) ==
    /\ ~Reachable(n)
    /\ Peers!GiveUp(n)
    /\ at' = [at EXCEPT ![n] = None]
    /\ UNCHANGED <<network, daemon, wire, mdns, withdrawn>>

DaemonStep ==
    \/ \E b \in 1..MaxRunning, t \in Types : TellType(b, t)
    \/ \E i \in Instances : TellNew(i) \/ TellRemove(i)

Handle ==
    \/ OnType
    \/ OnNew
    \/ OnFound
    \/ OnResolverFailed
    \/ OnRemove

StartEnds(n) == OnStartReady(n) \/ OnStartFailed(n)

Next ==
    \/ \E i \in Instances : Change(i)
    \/ DaemonStep
    \/ \E i \in Instances : Answer(i) \/ GiveUpResolving(i)
    \/ OnRunning
    \/ OnFailure
    \/ Handle
    \/ \E n \in Names : StartEnds(n)

Spec == Init /\ [][Next]_vars

\* The daemon tells what it sees and answers, GLib runs what has arrived, starts
\* come to an end.  Nothing makes the network change or the daemon go.
FairSpec ==
    /\ Spec
    /\ WF_vars(OnRunning /\ told = <<>>)
    /\ WF_vars(Handle)
    /\ \A b \in 1 .. MaxRunning, t \in Types : WF_vars(TellType(b, t))
    /\ \A i \in Instances :
          WF_vars(TellNew(i)) /\ WF_vars(TellRemove(i)) /\ WF_vars(Answer(i))
    /\ \A n \in Names : WF_vars(StartEnds(n))

-----------------------------------------------------------------------------
(***************************************************************************)
(* Properties                                                              *)
(***************************************************************************)

\* An event of the browsers about an instance.
NewsOf(i, e) == e.kind \in {"new", "remove"} /\ e.about = i

\* What the browsers have told STMDNS of an instance, with what is on its way
\* taken back: the last of new and remove that it handled was new.
Browsed(i) ==
    \/ i \in reported /\ \A k \in DOMAIN wire : ~NewsOf(i, wire[k])
    \/ \E k \in DOMAIN wire :
          /\ NewsOf(i, wire[k]) /\ wire[k].kind = "remove"
          /\ \A j \in 1 .. k - 1 : ~NewsOf(i, wire[j])

\* A name the Core counts as advertised is listed; and a listed name is
\* advertised, whatever instances came and went on other links, unless the last
\* instance of another service type of the same name was withdrawn since.
PresentIsListed ==
    \A n \in Names :
        /\ n \in present => ListedName(n)
        /\ ListedName(n) /\ n \notin present =>
              ~ \E s \in services : s.inst.name = n /\ s.inst.type = withdrawn[n]

\* The Core keeps the peer of a name no longer than an instance of the service
\* it connected to is listed: of the same type, though perhaps on another link or
\* at another place than the one the peer is connected to.
PeerKeptByItsType ==
    \A n \in Names : at[n] # None =>
        \E s \in services : s.inst.name = n /\ s.inst.type = at[n].inst.type

\* The list holds an instance the browsers have taken back only when a resolver
\* answered after the removal: a removal leaves nothing of its instance behind,
\* at no place.
GhostsAnswerLate ==
    [][\A i \in Instances : (alive /\ Listed(i) /\ ~Browsed(i))' =>
           ~Browsed(i) /\ (Listed(i) \/ Head(wire).kind = "found")]_vars

NoTypeBrowser == told # <<>> /\ \A b \in DOMAIN told : told[b] = None

\* An instance that stays on the network gets listed and stays listed, whatever
\* came and went before and whichever browsers could not be made, unless its last
\* resolver found nothing or was not made, or the same is true of the browser for its
\* type at the last time the type was told, or of every type browser: nothing asks again.
OfferedGetsListed ==
    \A i \in Instances :
        []alive /\ <>[](net[i] # None) =>
            <>[](Listed(i) \/ i \in lost \/ i.type \in refused \/ NoTypeBrowser)
=============================================================================
