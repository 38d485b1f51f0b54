-------------------------- MODULE DiscoveryProofs --------------------------
(***************************************************************************)
(* The signals of STMDNS, which know names only, agree with its list of    *)
(* instances: proofs for any names, types, links and places, and for any   *)
(* order of the daemon's events and answers.                               *)
(***************************************************************************)
EXTENDS Discovery, SequenceTheorems, TLAPS

IInv == TypeOK /\ PresentIsListed /\ PeerKeptByItsType

\* The initial states satisfy the invariant.
LEMMA InitIInv == Init => IInv
<1> SUFFICES ASSUME Init PROVE IInv
  OBVIOUS
<1>1. TypeOK
  BY DiscoveryAssumption DEF Init, Peers!Init, TypeOK
<1>2. PresentIsListed /\ PeerKeptByItsType
  BY DEF Init, Peers!Init, PresentIsListed, ListedName, PeerKeptByItsType
<1> QED BY <1>1, <1>2 DEF IInv

\* What is handled is an event, and events are left.
LEMMA ReceivedEvent ==
    ASSUME TypeOK, NEW k, Received(k)
    PROVE  Head(wire) \in Events /\ Head(wire).kind = k /\ wire' \in Seq(Events)
  BY HeadTailProperties DEF TypeOK, Received

\* What the daemon sends is an event.
LEMMA SentEvent ==
    ASSUME TypeOK, NEW e \in Events, Send(e)
    PROVE  wire' \in Seq(Events)
  BY DEF TypeOK, Send

\* A step that leaves the list, the signals and the peers alone.
LEMMA RegistryAlone ==
    ASSUME IInv, UNCHANGED <<services, registry>>
    PROVE  /\ PresentIsListed' /\ PeerKeptByItsType'
           /\ services' \subseteq Entries /\ present' \subseteq Names
           /\ status' \in [Names -> {"absent", "connecting", "ready"}]
           /\ withdrawn' \in [Names -> Types \cup {None}]
           /\ at' \in [Names -> Entries \cup {None}]
           /\ \A n \in Names : at'[n] = None <=> status'[n] = "absent"
  BY DEF IInv, TypeOK, registry, PresentIsListed, ListedName, PeerKeptByItsType

\* The daemon, the network and the resolvers.
LEMMA DaemonIInv ==
    ASSUME IInv,
           \/ \E i \in Instances : Change(i) \/ Answer(i) \/ GiveUpResolving(i)
           \/ DaemonStep \/ OnRunning \/ OnFailure
    PROVE  IInv'
<1> USE DEF IInv
<1>1. UNCHANGED <<services, registry, browsers, refused, lost>>
  BY DEF Change, Answer, GiveUpResolving, DaemonStep, TellType, TellNew, TellRemove,
         OnRunning, OnFailure, mdns
<1>2. SUFFICES TypeOK'
  BY <1>1, RegistryAlone
<1>3. ASSUME NEW i \in Instances, Change(i) PROVE TypeOK'
  <2>1. /\ UNCHANGED <<alive, told, reported, wire, browsers, refused, resolvers, lost>>
        /\ churn' = churn + 1
    BY <1>3 DEF Change, daemon, mdns
  <2>2. PICK p \in Places \cup {None} :
           /\ net' = [net EXCEPT ![i] = p]
           /\ cache' = IF p = None THEN cache ELSE [cache EXCEPT ![i] = p]
    BY <1>3 DEF Change
  <2>3. /\ net' \in [Instances -> Places \cup {None}]
        /\ cache' \in [Instances -> Places \cup {None}]
        /\ churn' \in Nat
    BY <2>1, <2>2 DEF TypeOK
  <2> QED BY <1>1, <2>1, <2>3, RegistryAlone DEF TypeOK
<1>4. ASSUME NEW i \in Instances, Answer(i) PROVE TypeOK'
  <2>1. UNCHANGED <<net, churn, cache, alive, told, reported, browsers, refused, lost>>
    BY <1>4 DEF Answer, network, daemon
  <2>2. Event("found", i, cache[i]) \in Events
    BY <1>4 DEF Answer, Event, Events, TypeOK
  <2>3. wire' \in Seq(Events)
    BY <1>4, <2>2, SentEvent DEF Answer
  <2>4. resolvers' \in [Instances -> Nat]
    BY <1>4 DEF Answer, TypeOK
  <2> QED BY <1>1, <2>1, <2>3, <2>4, RegistryAlone DEF TypeOK
<1>5. ASSUME NEW i \in Instances, GiveUpResolving(i) PROVE TypeOK'
  <2>1. UNCHANGED <<net, churn, cache, alive, told, reported, browsers, refused, lost>>
    BY <1>5 DEF GiveUpResolving, network, daemon
  <2>2. Event("failed", i, None) \in Events
    BY DEF Event, Events
  <2>3. wire' \in Seq(Events)
    BY <1>5, <2>2, SentEvent DEF GiveUpResolving
  <2>4. resolvers' \in [Instances -> Nat]
    BY <1>5 DEF GiveUpResolving, TypeOK
  <2> QED BY <1>1, <2>1, <2>3, <2>4, RegistryAlone DEF TypeOK
<1>6. ASSUME NEW b \in 1 .. MaxRunning, NEW t \in Types, TellType(b, t) PROVE TypeOK'
  <2>1. UNCHANGED <<net, churn, cache, alive, reported, browsers, refused, resolvers, lost>>
    BY <1>6 DEF TellType, network, mdns
  <2>2. Event("type", t, None) \in Events
    BY DEF Event, Events
  <2>3. wire' \in Seq(Events)
    BY <1>6, <2>2, SentEvent DEF TellType
  <2>4. /\ b \in DOMAIN told /\ told[b] # None
        /\ told' = [told EXCEPT ![b] = told[b] \cup {t}]
    BY <1>6 DEF TellType
  <2>5. told \in Seq((SUBSET Types) \cup {None})
    BY DEF TypeOK
  <2>6. told[b] \cup {t} \in SUBSET Types
    BY <2>4, <2>5
  <2>7. told' \in Seq((SUBSET Types) \cup {None})
    BY <2>4, <2>5, <2>6
  <2> QED BY <1>1, <2>1, <2>3, <2>7, RegistryAlone DEF TypeOK
<1>7. ASSUME NEW i \in Instances, TellNew(i) PROVE TypeOK'
  <2>1. UNCHANGED <<net, churn, cache, alive, told, browsers, refused, resolvers, lost>>
    BY <1>7 DEF TellNew, network, mdns
  <2>2. Event("new", i, None) \in Events
    BY DEF Event, Events
  <2>3. wire' \in Seq(Events)
    BY <1>7, <2>2, SentEvent DEF TellNew
  <2>4. reported' \subseteq Instances
    BY <1>7 DEF TellNew, TypeOK
  <2> QED BY <1>1, <2>1, <2>3, <2>4, RegistryAlone DEF TypeOK
<1>8. ASSUME NEW i \in Instances, TellRemove(i) PROVE TypeOK'
  <2>1. UNCHANGED <<net, churn, cache, alive, told, browsers, refused, resolvers, lost>>
    BY <1>8 DEF TellRemove, network, mdns
  <2>2. Event("remove", i, None) \in Events
    BY DEF Event, Events
  <2>3. wire' \in Seq(Events)
    BY <1>8, <2>2, SentEvent DEF TellRemove
  <2>4. reported' \subseteq Instances
    BY <1>8 DEF TellRemove, TypeOK
  <2> QED BY <1>1, <2>1, <2>3, <2>4, RegistryAlone DEF TypeOK
<1>9. CASE OnRunning
  <2>1. UNCHANGED <<net, churn, cache, alive, reported, wire, browsers, refused, resolvers, lost>>
    BY <1>9 DEF OnRunning, network, mdns
  <2>2. told \in Seq((SUBSET Types) \cup {None})
    BY DEF TypeOK
  <2>3. told' \in Seq((SUBSET Types) \cup {None})
    <3>1. PICK types \in {{}, None} : told' = Append(told, types)
      BY <1>9 DEF OnRunning
    <3>2. types \in (SUBSET Types) \cup {None}
      OBVIOUS
    <3> QED BY <2>2, <3>1, <3>2, AppendProperties
  <2> QED BY <1>1, <2>1, <2>3, RegistryAlone DEF TypeOK
<1>10. CASE OnFailure
  <2>1. /\ UNCHANGED <<net, churn, cache, told, reported, browsers, refused, resolvers, lost>>
        /\ alive' = FALSE /\ wire' = <<>>
    BY <1>10 DEF OnFailure, network, mdns
  <2>2. wire' \in Seq(Events)
    BY <2>1
  <2> QED BY <1>1, <2>1, <2>2, RegistryAlone DEF TypeOK
<1> QED BY <1>3, <1>4, <1>5, <1>6, <1>7, <1>8, <1>9, <1>10 DEF DaemonStep

\* A browser or a resolver is made, or a resolver has failed.
LEMMA BrowserIInv ==
    ASSUME IInv, OnType \/ OnNew \/ OnResolverFailed
    PROVE  IInv'
<1> USE DEF IInv
<1>1. UNCHANGED <<services, registry, net, churn, cache, alive, told, reported>>
  BY DEF OnType, OnNew, OnResolverFailed, network, daemon
<1>2. PICK k \in {"type", "new", "failed"} : Received(k) /\ Head(wire) \in Events
                                            /\ Head(wire).kind = k /\ wire' \in Seq(Events)
  BY ReceivedEvent DEF OnType, OnNew, OnResolverFailed
<1>3. CASE OnType
  <2>1. Head(wire).kind = "type"
    BY <1>3 DEF OnType, Received
  <2>2. Head(wire).about \in Types
    BY <1>2, <2>1 DEF Events
  <2>3. browsers' \subseteq Types /\ refused' \subseteq Types /\ UNCHANGED <<resolvers, lost>>
    BY <1>3, <2>2 DEF OnType, TypeOK
  <2> QED BY <1>1, <1>2, <2>3, RegistryAlone DEF TypeOK
<1>4. CASE OnNew
  <2>1. Head(wire).kind = "new"
    BY <1>4 DEF OnNew, Received
  <2>2. Head(wire).about \in Instances
    BY <1>2, <2>1 DEF Events
  <2>3. /\ resolvers' \in [Instances -> Nat] /\ lost' \subseteq Instances
        /\ UNCHANGED <<browsers, refused>>
    BY <1>4, <2>2 DEF OnNew, TypeOK
  <2> QED BY <1>1, <1>2, <2>3, RegistryAlone DEF TypeOK
<1>5. CASE OnResolverFailed
  <2>1. Head(wire).kind = "failed"
    BY <1>5 DEF OnResolverFailed, Received
  <2>2. Head(wire).about \in Instances
    BY <1>2, <2>1 DEF Events
  <2>3. lost' \subseteq Instances /\ UNCHANGED <<browsers, refused, resolvers>>
    BY <1>5, <2>2 DEF OnResolverFailed, TypeOK
  <2> QED BY <1>1, <1>2, <2>3, RegistryAlone DEF TypeOK
<1> QED BY <1>3, <1>4, <1>5

\* A resolved instance that is not listed yet is signalled, and a peer connects to
\* it only if the name had none.
LEMMA OnFoundIInv ==
    ASSUME IInv, OnFound
    PROVE  IInv'
<1> USE DEF IInv
<1>1. /\ Head(wire) \in Events /\ Head(wire).kind = "found" /\ wire' \in Seq(Events)
      /\ UNCHANGED <<net, churn, cache, alive, told, reported, browsers, refused, resolvers>>
  BY ReceivedEvent DEF OnFound, network, daemon
<1>2. Head(wire).about \in Instances /\ Head(wire).place \in Places
  BY <1>1 DEF Events
<1>3. PICK s \in Entries, n \in Names :
         s = [inst |-> Head(wire).about, place |-> Head(wire).place] /\ n = s.inst.name
  <2>1. PICK e : e = [inst |-> Head(wire).about, place |-> Head(wire).place]
    OBVIOUS
  <2>2. e \in Entries /\ e.inst = Head(wire).about
    BY <1>2, <2>1 DEF Entries
  <2>3. e.inst.name \in Names
    BY <1>2, <2>2, DiscoveryAssumption
  <2> QED BY <2>1, <2>2, <2>3
<1>4. lost' \subseteq Instances
  BY <1>2 DEF OnFound, TypeOK
<1>5. CASE Known(s)
  <2>1. UNCHANGED <<services, registry>>
    BY <1>3, <1>5 DEF OnFound
  <2> QED BY <1>1, <1>4, <2>1, RegistryAlone DEF TypeOK
<1>6. CASE ~Known(s)
  <2>1. services' = services \cup {s} /\ Peers!Announce(n) /\ TakePlace(n, s)
    BY <1>3, <1>6 DEF OnFound
  <2>2. withdrawn' = withdrawn /\ present' = present \cup {n}
    BY <2>1 DEF Peers!Announce, TakePlace
  <2>3. s # None
    BY DiscoveryAssumption
  <2>4. /\ status' \in [Names -> {"absent", "connecting", "ready"}]
        /\ at' \in [Names -> Entries \cup {None}]
        /\ at'[n] \in {at[n], s}
        /\ at'[n] = None <=> status'[n] = "absent"
        /\ \A m \in Names \ {n} : at'[m] = at[m] /\ status'[m] = status[m]
    <3>1. CASE n \in Matching /\ status[n] = "absent"
      <4>1. at' = [at EXCEPT ![n] = s] /\ status' = [status EXCEPT ![n] = "connecting"]
        BY <2>1, <3>1 DEF Peers!Announce, TakePlace
      <4> QED BY <2>3, <4>1 DEF TypeOK
    <3>2. CASE ~(n \in Matching /\ status[n] = "absent")
      <4>1. at' = at /\ status' = status
        BY <2>1, <3>2 DEF Peers!Announce, TakePlace
      <4> QED BY <4>1 DEF TypeOK
    <3> QED BY <3>1, <3>2
  <2>5. TypeOK'
    BY <1>1, <1>4, <2>1, <2>2, <2>4 DEF TypeOK
  <2>6. PresentIsListed'
    <3>1. ListedName(n)' /\ \A m \in Names \ {n} : ListedName(m)' <=> ListedName(m)
      BY <1>3, <2>1 DEF ListedName
    <3>2. \A m \in Names \ {n} : m \in present' <=> m \in present
      BY <2>2
    <3>3. \A m \in Names \ {n}, t \in services' : t.inst.name = m => t \in services
      BY <1>3, <2>1
    <3> QED BY <2>2, <3>1, <3>2, <3>3 DEF PresentIsListed
  <2>7. PeerKeptByItsType'
    <3>1. \A m \in Names : at[m] # None =>
             \E t \in services' : t.inst.name = m /\ t.inst.type = at[m].inst.type
      BY <2>1 DEF PeerKeptByItsType
    <3> QED BY <1>3, <2>1, <2>4, <3>1 DEF PeerKeptByItsType
  <2> QED BY <2>5, <2>6, <2>7
<1> QED BY <1>5, <1>6

\* The name is withdrawn with the last of its instances of one type.
LEMMA OnRemoveIInv ==
    ASSUME IInv, OnRemove
    PROVE  IInv'
<1> USE DEF IInv
<1>1. /\ Head(wire) \in Events /\ Head(wire).kind = "remove" /\ wire' \in Seq(Events)
      /\ UNCHANGED <<net, churn, cache, alive, told, reported, browsers, refused, resolvers, lost>>
  BY ReceivedEvent DEF OnRemove, network, daemon
<1>2. Head(wire).about \in Instances
  BY <1>1 DEF Events
<1>3. PICK i \in Instances : i = Head(wire).about
  BY <1>2
<1>4. i.name \in Names /\ i.type \in Types
  BY DiscoveryAssumption
<1>5. services' = {s \in services : s.inst # i}
  BY <1>3 DEF OnRemove, RemoveInstance
<1>6. services' \subseteq Entries
  BY <1>5 DEF TypeOK
<1>7. CASE Remaining(i) = {}
  <2>1. /\ present' = present \ {i.name}
        /\ status' = [status EXCEPT ![i.name] = "absent"]
        /\ at' = [at EXCEPT ![i.name] = None]
        /\ withdrawn' = [withdrawn EXCEPT ![i.name] = i.type]
    BY <1>3, <1>7 DEF OnRemove, Peers!Withdraw
  <2>2. TypeOK'
    BY <1>1, <1>4, <1>6, <2>1 DEF TypeOK
  <2>3. \A s \in services' : ~(s.inst.name = i.name /\ s.inst.type = i.type)
    BY <1>5, <1>7 DEF Remaining, RemoveInstance
  <2>4. PresentIsListed'
    <3>1. withdrawn'[i.name] = i.type /\ i.name \notin present'
      BY <1>4, <2>1 DEF TypeOK
    <3>2. \A m \in Names \ {i.name} :
             /\ withdrawn'[m] = withdrawn[m] /\ (m \in present' <=> m \in present)
             /\ \A s \in services : s.inst.name = m => s \in services'
      BY <1>5, <2>1 DEF TypeOK
    <3>3. \A s \in services' : s \in services
      BY <1>5
    <3> QED BY <2>3, <3>1, <3>2, <3>3 DEF PresentIsListed, ListedName
  <2>5. PeerKeptByItsType'
    <3>1. at'[i.name] = None
      BY <1>4, <2>1 DEF TypeOK
    <3>2. \A m \in Names \ {i.name} :
             at'[m] = at[m] /\ \A s \in services : s.inst.name = m => s \in services'
      BY <1>5, <2>1 DEF TypeOK
    <3> QED BY <3>1, <3>2 DEF PeerKeptByItsType
  <2> QED BY <2>2, <2>4, <2>5
<1>8. CASE Remaining(i) # {}
  <2>1. UNCHANGED <<present, status, withdrawn, at>>
    BY <1>3, <1>8 DEF OnRemove, registry
  <2>2. TypeOK'
    BY <1>1, <1>6, <2>1 DEF TypeOK
  <2>3. PICK r \in services' : r.inst.name = i.name /\ r.inst.type = i.type
    BY <1>5, <1>8 DEF Remaining, RemoveInstance
  <2>4. \A s \in services : s \in services' \/ s.inst = i
    BY <1>5
  <2>5. \A s \in services' : s \in services
    BY <1>5
  <2>6. PresentIsListed'
    BY <2>1, <2>3, <2>4, <2>5 DEF PresentIsListed, ListedName
  <2>7. PeerKeptByItsType'
    BY <2>1, <2>3, <2>4 DEF PeerKeptByItsType
  <2> QED BY <2>2, <2>6, <2>7
<1> QED BY <1>7, <1>8

\* A start ends: the peer becomes ready, or is dropped with its place.
LEMMA StartEndsIInv ==
    ASSUME IInv, NEW n \in Names, StartEnds(n)
    PROVE  IInv'
<1> USE DEF IInv
<1>1. /\ UNCHANGED <<net, churn, cache, alive, told, reported, wire>>
      /\ UNCHANGED <<browsers, refused, resolvers, services, lost, withdrawn, present>>
      /\ status[n] = "connecting"
  BY DEF StartEnds, OnStartReady, OnStartFailed, Peers!BecomeReady, Peers!GiveUp,
         network, daemon, mdns
<1>2. \/ status' = [status EXCEPT ![n] = "ready"] /\ at' = at
      \/ status' = [status EXCEPT ![n] = "absent"] /\ at' = [at EXCEPT ![n] = None]
  BY DEF StartEnds, OnStartReady, OnStartFailed, Peers!BecomeReady, Peers!GiveUp
<1>3. TypeOK'
  BY <1>1, <1>2 DEF TypeOK
<1>4. \A m \in Names : at'[m] \in {None, at[m]}
  BY <1>2 DEF TypeOK
<1>5. PresentIsListed' /\ PeerKeptByItsType'
  BY <1>1, <1>4 DEF PresentIsListed, ListedName, PeerKeptByItsType
<1> QED BY <1>3, <1>5

\* The invariant is inductive.
LEMMA NextIInv == IInv /\ [Next]_vars => IInv'
<1> SUFFICES ASSUME IInv, [Next]_vars PROVE IInv'
  OBVIOUS
<1>1. CASE \/ \E i \in Instances : Change(i) \/ Answer(i) \/ GiveUpResolving(i)
           \/ DaemonStep \/ OnRunning \/ OnFailure
  BY <1>1, DaemonIInv
<1>2. CASE OnType \/ OnNew \/ OnResolverFailed
  BY <1>2, BrowserIInv
<1>3. CASE OnFound
  BY <1>3, OnFoundIInv
<1>4. CASE OnRemove
  BY <1>4, OnRemoveIInv
<1>5. ASSUME NEW n \in Names, StartEnds(n) PROVE IInv'
  BY <1>5, StartEndsIInv
<1>6. CASE UNCHANGED vars
  <2>1. /\ UNCHANGED <<services, registry, net, churn, cache, alive, told, reported, wire>>
        /\ UNCHANGED <<browsers, refused, resolvers, lost>>
    BY <1>6 DEF vars, network, daemon, mdns
  <2> QED BY <2>1, RegistryAlone DEF IInv, TypeOK
<1> QED BY <1>1, <1>2, <1>3, <1>4, <1>5, <1>6 DEF Next, Handle

-----------------------------------------------------------------------------
(***************************************************************************)
(* What the browsers have told of an instance                              *)
(***************************************************************************)

\* What the daemon sends changes nothing of what was told before it.
LEMMA SendingBrowsed ==
    ASSUME TypeOK, NEW i \in Instances, NEW e, wire' = Append(wire, e),
           NewsOf(i, e) => \/ e.kind = "new" /\ i \notin reported
                           \/ e.kind = "remove" /\ i \in reported,
           ~NewsOf(i, e) => (i \in reported' <=> i \in reported),
           Browsed(i)
    PROVE  Browsed(i)'
<1>1. /\ Len(wire) \in Nat /\ DOMAIN wire = 1 .. Len(wire)
      /\ DOMAIN wire' = 1 .. Len(wire) + 1 /\ wire'[Len(wire) + 1] = e
      /\ \A k \in 1 .. Len(wire) : wire'[k] = wire[k]
  BY AppendProperties, LenProperties DEF TypeOK
<1>2. CASE i \in reported /\ \A k \in DOMAIN wire : ~NewsOf(i, wire[k])
  <2>1. CASE NewsOf(i, e)
    <3>1. e.kind = "remove" /\ Len(wire) + 1 \in DOMAIN wire'
      BY <1>1, <1>2, <2>1
    <3>2. \A j \in 1 .. (Len(wire) + 1) - 1 : ~NewsOf(i, wire'[j])
      BY <1>1, <1>2
    <3> QED BY <1>1, <2>1, <3>1, <3>2 DEF Browsed
  <2>2. CASE ~NewsOf(i, e)
    <3>1. \A k \in DOMAIN wire' : ~NewsOf(i, wire'[k])
      BY <1>1, <1>2, <2>2
    <3> QED BY <1>2, <2>2, <3>1 DEF Browsed
  <2> QED BY <2>1, <2>2
<1>3. CASE \E k \in DOMAIN wire : /\ NewsOf(i, wire[k]) /\ wire[k].kind = "remove"
                                  /\ \A j \in 1 .. k - 1 : ~NewsOf(i, wire[j])
  <2>1. PICK k \in DOMAIN wire : /\ NewsOf(i, wire[k]) /\ wire[k].kind = "remove"
                                 /\ \A j \in 1 .. k - 1 : ~NewsOf(i, wire[j])
    BY <1>3
  <2>2. /\ k \in DOMAIN wire' /\ wire'[k] = wire[k]
        /\ \A j \in 1 .. k - 1 : wire'[j] = wire[j]
    BY <1>1
  <2> QED BY <2>1, <2>2 DEF Browsed
<1> QED BY <1>2, <1>3 DEF Browsed

\* Handling an event that is no news of i neither.
LEMMA HandlingBrowsed ==
    ASSUME TypeOK, NEW i \in Instances, wire # <<>>, wire' = Tail(wire),
           ~NewsOf(i, Head(wire)), reported' = reported, Browsed(i)
    PROVE  Browsed(i)'
<1>1. /\ Len(wire) \in Nat \ {0} /\ DOMAIN wire = 1 .. Len(wire) /\ Head(wire) = wire[1]
      /\ DOMAIN wire' = 1 .. Len(wire) - 1
      /\ \A k \in 1 .. Len(wire) - 1 : wire'[k] = wire[k + 1]
  BY EmptySeq, HeadTailProperties, LenProperties DEF TypeOK
<1>2. CASE i \in reported /\ \A k \in DOMAIN wire : ~NewsOf(i, wire[k])
  <2>1. \A k \in DOMAIN wire' : ~NewsOf(i, wire'[k])
    BY <1>1, <1>2
  <2> QED BY <1>2, <2>1 DEF Browsed
<1>3. CASE \E k \in DOMAIN wire : /\ NewsOf(i, wire[k]) /\ wire[k].kind = "remove"
                                  /\ \A j \in 1 .. k - 1 : ~NewsOf(i, wire[j])
  <2>1. PICK k \in DOMAIN wire : /\ NewsOf(i, wire[k]) /\ wire[k].kind = "remove"
                                 /\ \A j \in 1 .. k - 1 : ~NewsOf(i, wire[j])
    BY <1>3
  <2>2. k # 1
    BY <1>1, <2>1
  <2>3. k - 1 \in DOMAIN wire' /\ wire'[k - 1] = wire[k]
    BY <1>1, <2>2
  <2>4. \A j \in 1 .. (k - 1) - 1 : ~NewsOf(i, wire'[j])
    BY <1>1, <2>1
  <2> QED BY <2>1, <2>3, <2>4 DEF Browsed
<1> QED BY <1>2, <1>3 DEF Browsed

\* No step makes an instance both unbrowsed and listed, but those that find one
\* listed or resolved which was unbrowsed before.
LEMMA StepOfGhosts ==
    ASSUME TypeOK, Next, NEW i \in Instances, (alive /\ Listed(i) /\ ~Browsed(i))'
    PROVE  ~Browsed(i) /\ (Listed(i) \/ Head(wire).kind = "found")
<1>1. CASE \/ \E j \in Instances : Change(j)
           \/ OnRunning
           \/ \E n \in Names : StartEnds(n)
  <2>1. UNCHANGED <<wire, reported, services>>
    BY <1>1 DEF Change, OnRunning, StartEnds, OnStartReady, OnStartFailed, daemon, mdns
  <2> QED BY <2>1 DEF Listed, Browsed
<1>2. CASE DaemonStep \/ \E j \in Instances : Answer(j) \/ GiveUpResolving(j)
  <2>1. services' = services
    BY <1>2 DEF DaemonStep, TellType, TellNew, TellRemove, Answer, GiveUpResolving, mdns
  <2>2. PICK e : /\ wire' = Append(wire, e)
                 /\ \/ NewsOf(i, e) /\ e.kind = "new" /\ i \notin reported
                    \/ NewsOf(i, e) /\ e.kind = "remove" /\ i \in reported
                    \/ ~NewsOf(i, e) /\ (i \in reported' <=> i \in reported)
    <3>1. CASE \E b \in 1 .. MaxRunning, t \in Types : TellType(b, t)
      BY <3>1 DEF TellType, Send, Event, NewsOf
    <3>2. CASE \E j \in Instances : TellNew(j)
      <4>1. PICK j \in Instances : TellNew(j)
        BY <3>2
      <4> DEFINE e == Event("new", j, None)
      <4>2. wire' = Append(wire, e) /\ j \notin reported /\ reported' = reported \cup {j}
        BY <4>1 DEF TellNew, Send
      <4>3. (NewsOf(i, e) <=> j = i) /\ e.kind = "new"
        BY DEF NewsOf, Event
      <4> HIDE DEF e
      <4> QED BY <4>2, <4>3
    <3>3. CASE \E j \in Instances : TellRemove(j)
      <4>1. PICK j \in Instances : TellRemove(j)
        BY <3>3
      <4> DEFINE e == Event("remove", j, None)
      <4>2. wire' = Append(wire, e) /\ j \in reported /\ reported' = reported \ {j}
        BY <4>1 DEF TellRemove, Send
      <4>3. (NewsOf(i, e) <=> j = i) /\ e.kind = "remove"
        BY DEF NewsOf, Event
      <4> HIDE DEF e
      <4> QED BY <4>2, <4>3
    <3>4. CASE \E j \in Instances : Answer(j) \/ GiveUpResolving(j)
      <4>1. PICK j, k, p : k \in {"found", "failed"} /\ Send(Event(k, j, p))
        BY <3>4 DEF Answer, GiveUpResolving
      <4>2. reported' = reported
        BY <3>4 DEF Answer, GiveUpResolving, daemon
      <4> DEFINE e == Event(k, j, p)
      <4>3. wire' = Append(wire, e) /\ ~NewsOf(i, e)
        BY <4>1 DEF Send, NewsOf, Event
      <4> HIDE DEF e
      <4> QED BY <4>2, <4>3
    <3> QED BY <1>2, <3>1, <3>2, <3>3, <3>4 DEF DaemonStep
  <2>3. Browsed(i) => Browsed(i)'
    BY <2>2, SendingBrowsed
  <2> QED BY <2>1, <2>3 DEF Listed
<1>3. CASE OnFailure
  BY <1>3 DEF OnFailure
<1>4. CASE Handle
  <2>1. PICK k \in {"type", "new", "found", "failed", "remove"} : Received(k)
    BY <1>4 DEF Handle, OnType, OnNew, OnFound, OnResolverFailed, OnRemove
  <2>2. /\ wire # <<>> /\ Head(wire).kind = k /\ wire' = Tail(wire)
        /\ UNCHANGED reported
    BY <1>4, <2>1 DEF Handle, OnType, OnNew, OnFound, OnResolverFailed, OnRemove, Received,
                      daemon
  <2>3. ~NewsOf(i, Head(wire)) /\ Browsed(i) => Browsed(i)'
    BY <2>2, HandlingBrowsed
  <2>4. k # "found" => services' \subseteq services
    BY <1>4, <2>2 DEF Handle, OnType, OnNew, OnFound, OnResolverFailed, OnRemove, Received,
                      RemoveInstance
  <2>5. ASSUME NewsOf(i, Head(wire))
        PROVE  ~Browsed(i)
    <3>1. /\ Len(wire) \in Nat \ {0} /\ DOMAIN wire = 1 .. Len(wire) /\ Head(wire) = wire[1]
      BY <2>2, EmptySeq, HeadTailProperties, LenProperties DEF TypeOK
    <3>2. Head(wire).kind # "remove"
      <4>1. CASE Head(wire).kind = "remove"
        <5>1. services' = RemoveInstance(i)
          BY <1>4, <2>5, <4>1 DEF Handle, OnType, OnNew, OnFound, OnResolverFailed, OnRemove,
                                  Received, NewsOf
        <5>2. ~Listed(i)'
          BY <5>1 DEF Listed, RemoveInstance
        <5> QED BY <5>2
      <4> QED BY <4>1
    <3>3. 1 \in DOMAIN wire /\ \A j \in DOMAIN wire : j # 1 => 1 \in 1 .. j - 1
      BY <3>1
    <3> QED BY <2>5, <3>1, <3>2, <3>3 DEF Browsed
  <2>6. k # "found" => Listed(i)
    BY <2>4 DEF Listed
  <2> QED BY <2>2, <2>3, <2>5, <2>6
<1> QED BY <1>1, <1>2, <1>3, <1>4 DEF Next

\* What a step does to the peer table is a step of PeerTable, or nothing.
LEMMA StepOfPeers == IInv /\ [Next]_vars => [Peers!Next]_(Peers!tableVars)
<1> SUFFICES ASSUME IInv, [Next]_vars
             PROVE  Peers!Next \/ UNCHANGED <<present, status>>
  BY DEF Peers!tableVars
<1>1. CASE \/ \E i \in Instances : Change(i) \/ Answer(i) \/ GiveUpResolving(i)
           \/ DaemonStep \/ OnRunning \/ OnFailure \/ OnType \/ OnNew \/ OnResolverFailed
  <2>1. UNCHANGED registry
    BY <1>1 DEF Change, Answer, GiveUpResolving, DaemonStep, TellType, TellNew, TellRemove,
                OnRunning, OnFailure, OnType, OnNew, OnResolverFailed
  <2> QED BY <2>1 DEF registry
<1>2. CASE OnFound
  <2>1. PICK s : s = [inst |-> Head(wire).about, place |-> Head(wire).place]
    OBVIOUS
  <2>2. Head(wire) \in Events /\ Head(wire).kind = "found"
    BY <1>2, ReceivedEvent DEF OnFound, IInv
  <2>3. Head(wire).about \in Instances
    BY <2>2 DEF Events
  <2>4. s.inst.name \in Names
    BY <2>1, <2>3, DiscoveryAssumption
  <2>5. CASE Known(s)
    BY <1>2, <2>1, <2>5 DEF OnFound, registry
  <2>6. CASE ~Known(s)
    <3>1. Peers!Announce(s.inst.name)
      BY <1>2, <2>1, <2>6 DEF OnFound
    <3> QED BY <2>4, <3>1 DEF Peers!Next
  <2> QED BY <2>5, <2>6
<1>3. CASE OnRemove
  <2>1. PICK i : i = Head(wire).about
    OBVIOUS
  <2>2. Head(wire) \in Events /\ Head(wire).kind = "remove"
    BY <1>3, ReceivedEvent DEF OnRemove, IInv
  <2>3. i \in Instances
    BY <2>1, <2>2 DEF Events
  <2>4. i.name \in Names
    BY <2>3, DiscoveryAssumption
  <2>5. CASE Remaining(i) = {}
    <3>1. Peers!Withdraw(i.name)
      BY <1>3, <2>1, <2>5 DEF OnRemove
    <3> QED BY <2>4, <3>1 DEF Peers!Next
  <2>6. CASE Remaining(i) # {}
    BY <1>3, <2>1, <2>6 DEF OnRemove, registry
  <2> QED BY <2>5, <2>6
<1>4. ASSUME NEW n \in Names, StartEnds(n)
      PROVE  Peers!Next
  <2>1. Peers!BecomeReady(n) \/ Peers!GiveUp(n)
    BY <1>4 DEF StartEnds, OnStartReady, OnStartFailed
  <2> QED BY <2>1 DEF Peers!Next
<1>5. CASE UNCHANGED vars
  BY <1>5 DEF vars, registry
<1> QED BY <1>1, <1>2, <1>3, <1>4, <1>5 DEF Next, Handle

-----------------------------------------------------------------------------
(***************************************************************************)
(* Theorems                                                                *)
(***************************************************************************)

\* The invariant holds throughout.
THEOREM InvariantHolds == Spec => []IInv
  BY InitIInv, NextIInv, PTL DEF Spec

\* Every part of the state has its type; a name has a place exactly while it has
\* a peer.
THEOREM TypeOKHolds == Spec => []TypeOK
<1>1. IInv => TypeOK
  BY DEF IInv
<1> QED BY InvariantHolds, <1>1, PTL

\* The names the Core was told of and the list behind them agree, on any number
\* of links, except after the withdrawal of one of several types.
THEOREM PresentIsListedHolds == Spec => []PresentIsListed
<1>1. IInv => PresentIsListed
  BY DEF IInv
<1> QED BY InvariantHolds, <1>1, PTL

\* A peer lasts no longer than the instances of its name and type.
THEOREM PeerKeptByItsTypeHolds == Spec => []PeerKeptByItsType
<1>1. IInv => PeerKeptByItsType
  BY DEF IInv
<1> QED BY InvariantHolds, <1>1, PTL

\* The list keeps an instance that was taken back only because a resolver answered
\* late: remove_service_instance leaves nothing of it behind, at no place.
THEOREM GhostsAnswerLateHolds == Spec => GhostsAnswerLate
<1>1. IInv /\ [Next]_vars =>
         [\A i \in Instances : (alive /\ Listed(i) /\ ~Browsed(i))' =>
             ~Browsed(i) /\ (Listed(i) \/ Head(wire).kind = "found")]_vars
  BY StepOfGhosts DEF IInv
<1> QED BY InvariantHolds, <1>1, PTL DEF Spec, GhostsAnswerLate

\* Whatever the daemon tells and the resolvers answer, what the signals and the ends
\* of the starts do to the table of peers is what PeerTable allows: the table is used here
\* no differently than the registry, which implements it, keeps it (src/mdns.c).
THEOREM DrivesPeerTableHolds == Spec => Peers!Spec
<1>1. Init => Peers!Init
  BY DEF Init
<1> QED BY <1>1, StepOfPeers, InvariantHolds, PTL DEF Spec, Peers!Spec
=============================================================================
