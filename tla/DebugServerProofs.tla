-------------------------- MODULE DebugServerProofs --------------------------
(***************************************************************************)
(* What debuggers know of the Core, with proofs for any number of them and *)
(* any peers, points, values and calls: none is left unaware of a stop, a  *)
(* handle keeps its meaning until the counter comes round, and a view that *)
(* was read to the end is not out of date.                                 *)
(***************************************************************************)
EXTENDS DebugServer, SequenceTheorems, TLAPS

PointRecords == [kind : Kinds, handle : Handles, id : Ids]

SignalMessages ==
    [signal : {"PeerChanged"}, name : Names, state : States]
    \cup [signal : {"Changed"}, id : Ids, to : Values]
    \cup {Stopped}

ReplyMessages ==
    [reply : {"status"}, paused : BOOLEAN]
    \cup [reply : {"peers"}, peers : [Names -> States]]
    \cup [reply : {"points"}, value : Views]
    \cup [reply : {"added"}, point : PointRecords]
    \cup [reply : {"removed"}, known : BOOLEAN, kind : Kinds, handle : 0 .. HandleMod - 1]
    \cup [reply : {"continued"}]
    \cup [reply : {"set"}]

Messages == SignalMessages \cup ReplyMessages

\* The messages that make a debugger take the Core to be stopped, or to run.
StatusReply(p) == [reply : {"status"}, paused : {p}]
Stopping == {Stopped} \cup StatusReply(TRUE)
Clearing == StatusReply(FALSE) \cup [reply : {"continued"}]

Contains(s, m) == \E i \in DOMAIN s : s[i] = m

NoneClears(s) == \A i \in DOMAIN s : s[i] \notin Clearing

\* A debugger that holds h, once it has read s, takes the Core to be stopped.
Knows(h, s) ==
    \/ h /\ NoneClears(s)
    \/ \E i \in DOMAIN s :
          /\ s[i] \in Stopping
          /\ \A j \in DOMAIN s : j > i => s[j] \notin Clearing

Asking(d) == call[d] # None /\ call[d].do = "status"

\* Whatever is on the way, a debugger will know of the stop there is.
StopsReach ==
    \A d \in Debuggers :
        /\ paused /\ link[d] = "open" => Knows(held[d], sent[d]) \/ Asking(d)
        /\ link[d] = "open" /\ d \notin connections => Asking(d)

Right(p) ==
    /\ p.handle <= adds
    /\ \A k \in Kinds :
          points[k][p.handle] = None \/ (k = p.kind /\ points[k][p.handle] = p.id)

\* The handle of p is on its way to a debugger.
Offer(p) == [reply |-> "added", point |-> p]
Offered(d, p) == Contains(sent[d], Offer(p))

\* Until the counter comes round, what is given out next was never given out.
HandlesFresh ==
    adds < HandleMod =>
        /\ adds < HandleMod - 1 => next = adds + 1
        /\ \A k \in Kinds, h \in Handles : h > adds => points[k][h] = None
        /\ \A d \in Debuggers, p \in PointRecords :
              p \in mine[d] \/ Offered(d, p) => Right(p)

Typed ==
    /\ TypeOK
    /\ sent \in [Debuggers -> Seq(Messages)]
    /\ mine \in [Debuggers -> SUBSET PointRecords]
    /\ adds \in Nat

IInv == Typed /\ StopsReach /\ HandlesFresh

-----------------------------------------------------------------------------
(***************************************************************************)
(* Messages                                                                *)
(***************************************************************************)

\* Signals have no field "reply", replies have no field "signal".
LEMMA MessageKinds ==
    ASSUME NEW m
    PROVE  /\ m \in SignalMessages => "reply" \notin DOMAIN m
           /\ m \in ReplyMessages => "signal" \notin DOMAIN m
  BY DEF SignalMessages, ReplyMessages, Stopped

\* What a reply says of the stop.
LEMMA ReplyOfStop ==
    ASSUME NEW m
    PROVE  /\ m \in StatusReply(TRUE) => m.reply = "status" /\ m.paused
           /\ m \in StatusReply(FALSE) => m.reply = "status" /\ ~m.paused
           /\ m \in Clearing => m.reply = "continued" \/ (m.reply = "status" /\ ~m.paused)
           /\ \A p \in BOOLEAN : m \in StatusReply(p) => "reply" \in DOMAIN m
           /\ m \in [reply : {"continued"}] => "reply" \in DOMAIN m
           /\ "signal" \in DOMAIN Stopped
<1>1. m \in StatusReply(TRUE) => m.reply = "status" /\ m.paused
  BY DEF StatusReply
<1>2. m \in StatusReply(FALSE) => m.reply = "status" /\ ~m.paused
  BY DEF StatusReply
<1>3. m \in [reply : {"continued"}] => m.reply = "continued" /\ "reply" \in DOMAIN m
  OBVIOUS
<1>4. \A p \in BOOLEAN : m \in StatusReply(p) => "reply" \in DOMAIN m
  BY DEF StatusReply
<1>5. "signal" \in DOMAIN Stopped
  BY DEF Stopped
<1> QED BY <1>1, <1>2, <1>3, <1>4, <1>5 DEF Clearing

\* No signal clears.
LEMMA SignalsDoNotClear ==
    ASSUME NEW m \in SignalMessages
    PROVE  m \notin Clearing /\ (m \in Stopping => m = Stopped)
<1>1. "reply" \notin DOMAIN m
  BY MessageKinds
<1>2. \A p \in BOOLEAN : m \notin StatusReply(p)
  BY <1>1, ReplyOfStop
<1>3. m \notin [reply : {"continued"}]
  BY <1>1, ReplyOfStop
<1> QED BY <1>2, <1>3 DEF Clearing, Stopping

\* What the replies carry.
LEMMA ReplyFields ==
    ASSUME NEW m \in ReplyMessages
    PROVE  /\ m.reply = "status" => m \in [reply : {"status"}, paused : BOOLEAN]
           /\ m.reply = "peers" => m.peers \in [Names -> States]
           /\ m.reply = "points" => m.value \in Views
           /\ m.reply = "added" => /\ m.point \in PointRecords
                                   /\ m = [reply |-> "added", point |-> m.point]
           /\ m.reply = "continued" => m \in Clearing
<1>1. CASE m \in [reply : {"status"}, paused : BOOLEAN]
  BY <1>1
<1>2. CASE m \in [reply : {"peers"}, peers : [Names -> States]]
  BY <1>2
<1>3. CASE m \in [reply : {"points"}, value : Views]
  BY <1>3
<1>4. CASE m \in [reply : {"added"}, point : PointRecords]
  BY <1>4
<1>5. CASE m \in [reply : {"removed"}, known : BOOLEAN, kind : Kinds,
                  handle : 0 .. HandleMod - 1]
  BY <1>5
<1>6. CASE m \in [reply : {"continued"}]
  BY <1>6 DEF Clearing
<1>7. CASE m \in [reply : {"set"}]
  BY <1>7
<1> QED BY <1>1, <1>2, <1>3, <1>4, <1>5, <1>6, <1>7 DEF ReplyMessages

\* A status that does not clear says that the Core is stopped.
LEMMA StatusFields ==
    ASSUME NEW m \in [reply : {"status"}, paused : BOOLEAN]
    PROVE  /\ m.paused \in BOOLEAN /\ m \in StatusReply(m.paused)
           /\ m \notin Clearing => m.paused
  BY DEF Clearing, StatusReply

\* What the signals carry.
LEMMA SignalFields ==
    ASSUME NEW m \in SignalMessages
    PROVE  /\ m.signal = "PeerChanged" => m.name \in Names /\ m.state \in States
           /\ m.signal = "Changed" => m.id \in Ids /\ m.to \in Values
           /\ m.signal \in {"PeerChanged", "Changed", "Stopped"}
           /\ m = Stopped => m.signal = "Stopped"
<1>1. CASE m \in [signal : {"PeerChanged"}, name : Names, state : States]
  BY <1>1 DEF Stopped
<1>2. CASE m \in [signal : {"Changed"}, id : Ids, to : Values]
  BY <1>2 DEF Stopped
<1>3. CASE m = Stopped
  BY <1>3 DEF Stopped
<1> QED BY <1>1, <1>2, <1>3 DEF SignalMessages

\* The places of a concatenation.
LEMMA Places ==
    ASSUME NEW s \in Seq(Messages), NEW t \in Seq(Messages)
    PROVE  /\ Len(s) \in Nat /\ Len(t) \in Nat
           /\ DOMAIN s = 1 .. Len(s) /\ DOMAIN t = 1 .. Len(t)
           /\ s \o t \in Seq(Messages) /\ DOMAIN (s \o t) = 1 .. Len(s) + Len(t)
           /\ \A i \in 1 .. Len(s) + Len(t) :
                 (s \o t)[i] = IF i <= Len(s) THEN s[i] ELSE t[i - Len(s)]
<1>1. Len(s) \in Nat /\ Len(t) \in Nat /\ DOMAIN s = 1 .. Len(s) /\ DOMAIN t = 1 .. Len(t)
  BY LenProperties
<1>2. s \o t \in Seq(Messages) /\ Len(s \o t) = Len(s) + Len(t)
  BY ConcatProperties
<1>3. DOMAIN (s \o t) = 1 .. Len(s) + Len(t)
  BY <1>2, LenProperties
<1>4. ASSUME NEW i \in 1 .. Len(s) + Len(t)
      PROVE  (s \o t)[i] = IF i <= Len(s) THEN s[i] ELSE t[i - Len(s)]
  BY <1>1, <1>4, ConcatProperties
<1> QED BY <1>1, <1>2, <1>3, <1>4

\* What a concatenation contains.
LEMMA ConcatContains ==
    ASSUME NEW s \in Seq(Messages), NEW t \in Seq(Messages), NEW m
    PROVE  Contains(s \o t, m) <=> Contains(s, m) \/ Contains(t, m)
<1>1. ASSUME Contains(s \o t, m) PROVE Contains(s, m) \/ Contains(t, m)
  <2>1. PICK i \in DOMAIN (s \o t) : (s \o t)[i] = m
    BY <1>1 DEF Contains
  <2>2. CASE i <= Len(s)
    BY <2>1, <2>2, Places DEF Contains
  <2>3. CASE ~(i <= Len(s))
    <3>1. i - Len(s) \in DOMAIN t /\ t[i - Len(s)] = m
      <4>1. i \in 1 .. Len(s) + Len(t) /\ (s \o t)[i] = t[i - Len(s)]
        BY <2>1, <2>3, Places
      <4>2. i - Len(s) \in 1 .. Len(t)
        BY <2>3, <4>1, Places
      <4> QED BY <2>1, <4>1, <4>2, Places
    <3> QED BY <3>1 DEF Contains
  <2> QED BY <2>2, <2>3
<1>2. ASSUME Contains(s, m) PROVE Contains(s \o t, m)
  <2>1. PICK i \in DOMAIN s : s[i] = m
    BY <1>2 DEF Contains
  <2>2. i \in DOMAIN (s \o t) /\ (s \o t)[i] = m
    BY <2>1, Places
  <2> QED BY <2>2 DEF Contains
<1>3. ASSUME Contains(t, m) PROVE Contains(s \o t, m)
  <2>1. PICK j \in DOMAIN t : t[j] = m
    BY <1>3 DEF Contains
  <2>2. Len(s) + j \in DOMAIN (s \o t) /\ (s \o t)[Len(s) + j] = m
    BY <2>1, Places
  <2> QED BY <2>2 DEF Contains
<1> QED BY <1>1, <1>2, <1>3

LEMMA Regroup ==
    ASSUME NEW s \in Seq(Messages), NEW t \in Seq(Messages), NEW u \in Seq(Messages)
    PROVE  (s \o t) \o u = s \o (t \o u)
  BY ConcatAssociative, SMTT(20)

\* Nothing of a sequence clears when no message that clears is in it.
LEMMA NoneClearsByContents ==
    ASSUME NEW s
    PROVE  NoneClears(s) <=> \A m \in Clearing : ~Contains(s, m)
  BY DEF NoneClears, Contains

\* Messages that are added at the end and do not clear change nothing of what a
\* debugger will know.
LEMMA KnowsMore ==
    ASSUME NEW h \in BOOLEAN, NEW s \in Seq(Messages), NEW t \in Seq(Messages),
           NoneClears(t), Knows(h, s)
    PROVE  Knows(h, s \o t)
<1>1. /\ DOMAIN s = 1 .. Len(s) /\ DOMAIN t = 1 .. Len(t)
      /\ DOMAIN (s \o t) = 1 .. Len(s) + Len(t)
      /\ Len(s) \in Nat /\ Len(t) \in Nat
      /\ \A i \in 1 .. Len(s) : (s \o t)[i] = s[i]
      /\ \A i \in 1 .. Len(s) + Len(t) : i > Len(s) => (s \o t)[i] = t[i - Len(s)]
  BY ConcatProperties, LenProperties
<1>2. \A i \in DOMAIN (s \o t) : i > Len(s) => (s \o t)[i] \notin Clearing
  BY <1>1 DEF NoneClears
<1>3. CASE h /\ NoneClears(s)
  <2>1. NoneClears(s \o t)
    BY <1>1, <1>2, <1>3 DEF NoneClears
  <2> QED BY <1>3, <2>1 DEF Knows
<1>4. CASE \E i \in DOMAIN s : /\ s[i] \in Stopping
                               /\ \A j \in DOMAIN s : j > i => s[j] \notin Clearing
  <2>1. PICK i \in DOMAIN s : /\ s[i] \in Stopping
                              /\ \A j \in DOMAIN s : j > i => s[j] \notin Clearing
    BY <1>4
  <2>2. i \in DOMAIN (s \o t) /\ (s \o t)[i] \in Stopping
    BY <1>1, <2>1
  <2>3. \A j \in DOMAIN (s \o t) : j > i => (s \o t)[j] \notin Clearing
    BY <1>1, <1>2, <2>1
  <2> QED BY <2>2, <2>3 DEF Knows
<1> QED BY <1>3, <1>4 DEF Knows

\* A stopping message at the end makes it known.
LEMMA KnowsLast ==
    ASSUME NEW h, NEW s \in Seq(Messages), NEW t \in Seq(Messages), NoneClears(t),
           NEW i \in DOMAIN t, t[i] \in Stopping
    PROVE  Knows(h, s \o t)
<1>1. /\ DOMAIN t = 1 .. Len(t) /\ DOMAIN (s \o t) = 1 .. Len(s) + Len(t)
      /\ Len(s) \in Nat /\ Len(t) \in Nat
      /\ \A j \in 1 .. Len(s) + Len(t) : j > Len(s) => (s \o t)[j] = t[j - Len(s)]
  BY ConcatProperties, LenProperties
<1>2. Len(s) + i \in DOMAIN (s \o t) /\ (s \o t)[Len(s) + i] = t[i]
  BY <1>1
<1>3. \A j \in DOMAIN (s \o t) : j > Len(s) + i => (s \o t)[j] \notin Clearing
  BY <1>1 DEF NoneClears
<1> QED BY <1>2, <1>3 DEF Knows

\* Reading the first message, and doing as it says.
LEMMA KnowsRead ==
    ASSUME NEW h \in BOOLEAN, NEW g \in BOOLEAN, NEW s \in Seq(Messages), s # <<>>,
           Knows(h, s),
           Head(s) \in Stopping => g,
           h /\ Head(s) \notin Clearing => g
    PROVE  Knows(g, Tail(s))
<1>1. /\ Len(s) \in Nat \ {0} /\ DOMAIN s = 1 .. Len(s) /\ Head(s) = s[1]
      /\ DOMAIN Tail(s) = 1 .. Len(s) - 1
      /\ \A i \in 1 .. Len(s) - 1 : Tail(s)[i] = s[i + 1]
  BY EmptySeq, HeadTailProperties, LenProperties
<1>2. CASE h /\ NoneClears(s)
  <2>1. g
    BY <1>1, <1>2 DEF NoneClears
  <2>2. NoneClears(Tail(s))
    BY <1>1, <1>2 DEF NoneClears
  <2> QED BY <2>1, <2>2 DEF Knows
<1>3. CASE \E i \in DOMAIN s : /\ s[i] \in Stopping
                               /\ \A j \in DOMAIN s : j > i => s[j] \notin Clearing
  <2>1. PICK i \in DOMAIN s : /\ s[i] \in Stopping
                              /\ \A j \in DOMAIN s : j > i => s[j] \notin Clearing
    BY <1>3
  <2>2. CASE i = 1
    <3>1. g
      BY <1>1, <2>1, <2>2
    <3>2. NoneClears(Tail(s))
      BY <1>1, <2>1, <2>2 DEF NoneClears
    <3> QED BY <3>1, <3>2 DEF Knows
  <2>3. CASE i # 1
    <3>1. i - 1 \in DOMAIN Tail(s) /\ Tail(s)[i - 1] \in Stopping
      BY <1>1, <2>1, <2>3
    <3>2. \A j \in DOMAIN Tail(s) : j > i - 1 => Tail(s)[j] \notin Clearing
      BY <1>1, <2>1, <2>3
    <3> QED BY <3>1, <3>2 DEF Knows
  <2> QED BY <2>2, <2>3
<1> QED BY <1>2, <1>3 DEF Knows

-----------------------------------------------------------------------------
(***************************************************************************)
(* What the steps have in common                                           *)
(***************************************************************************)

\* What a call carries.
LEMMA CallFields ==
    ASSUME NEW c \in Calls
    PROVE  /\ c.do = "add" => c.kind \in Kinds /\ c.id \in Ids
           /\ c.do = "remove" => c.kind \in Kinds /\ c.handle \in 0 .. HandleMod - 1
           /\ c.do = "set" => c.id \in Points /\ c.to \in Values
<1>1. CASE c \in {[do |-> d] : d \in {"status", "peers", "points", "continue"}}
  BY <1>1
<1>2. CASE c \in [do : {"add"}, kind : Kinds, id : Ids]
  BY <1>2
<1>3. CASE c \in [do : {"remove"}, kind : Kinds, handle : 0 .. HandleMod - 1]
  BY <1>3
<1>4. CASE c \in [do : {"set"}, id : Points, to : Values]
  BY <1>4
<1> QED BY <1>1, <1>2, <1>3, <1>4 DEF Calls

\* The calls without arguments.
LEMMA PlainCalls == [do |-> "status"] \in Calls /\ [do |-> "continue"] \in Calls
  BY DEF Calls

\* Messages sent to some debuggers keep everyone informed if those that clear are sent
\* only when the Core runs, and each debugger hears of a new stop.
LEMMA Sending ==
    ASSUME IInv, NEW extra \in [Debuggers -> Seq(Messages)],
           sent' = [d \in Debuggers |-> sent[d] \o extra[d]],
           UNCHANGED <<link, connections, held>>,
           \A d \in Debuggers :
              /\ paused' => NoneClears(extra[d])
              /\ paused' /\ (~paused \/ (call'[d] # call[d] /\ Asking(d)))
                    /\ link[d] = "open" /\ d \in connections
                    => \E m \in Stopping : Contains(extra[d], m)
              /\ call'[d] # call[d] => d \in connections
    PROVE  sent' \in [Debuggers -> Seq(Messages)] /\ StopsReach'
<1>1. sent \in [Debuggers -> Seq(Messages)] /\ held \in [Debuggers -> BOOLEAN]
  BY DEF IInv, Typed, TypeOK
<1>2. sent' \in [Debuggers -> Seq(Messages)]
  BY <1>1, ConcatProperties
<1>3. ASSUME NEW d \in Debuggers, link'[d] = "open", d \notin connections'
      PROVE  Asking(d)'
  BY <1>3 DEF IInv, StopsReach, Asking
<1>4. ASSUME NEW d \in Debuggers, paused', link'[d] = "open"
      PROVE  Knows(held[d], sent[d] \o extra[d]) \/ Asking(d)'
  <2>1. sent[d] \in Seq(Messages) /\ extra[d] \in Seq(Messages) /\ NoneClears(extra[d])
        /\ held[d] \in BOOLEAN
    BY <1>1, <1>4
  <2>2. CASE d \notin connections
    BY <1>3, <1>4, <2>2
  <2>3. CASE \E m \in Stopping : Contains(extra[d], m)
    BY <2>1, <2>3, KnowsLast DEF Contains
  <2>4. CASE d \in connections /\ paused /\ (call'[d] = call[d] \/ ~Asking(d))
    <3>1. Knows(held[d], sent[d]) \/ Asking(d)
      BY <1>4, <2>4 DEF IInv, StopsReach
    <3>2. CASE Knows(held[d], sent[d])
      BY <2>1, <3>2, KnowsMore
    <3>3. CASE Asking(d)
      BY <2>4, <3>3 DEF Asking
    <3> QED BY <3>1, <3>2, <3>3
  <2>5. link[d] = "open" /\ paused'
    BY <1>4
  <2>6. CASE d \in connections /\ (~paused \/ (call'[d] # call[d] /\ Asking(d)))
    <3>1. \E m \in Stopping : Contains(extra[d], m)
      BY <2>5, <2>6
    <3> QED BY <2>3, <3>1
  <2> QED BY <2>2, <2>4, <2>6
<1>5. \A d \in Debuggers : held'[d] = held[d] /\ sent'[d] = sent[d] \o extra[d]
  OBVIOUS
<1> QED BY <1>2, <1>3, <1>4, <1>5 DEF StopsReach

\* Where no point is added and no handle given out, handles keep their meaning.
LEMMA NoNewHandle ==
    ASSUME HandlesFresh, UNCHANGED <<points, next, adds>>,
           \A d \in Debuggers, p \in PointRecords :
              p \in mine'[d] \/ Offered(d, p)' => p \in mine[d] \/ Offered(d, p)
    PROVE  HandlesFresh'
<1>1. \A p : Right(p)' = Right(p)
  BY DEF Right
<1> QED BY <1>1 DEF HandlesFresh

\* Messages without a handle offer none.
LEMMA NothingOffered ==
    ASSUME IInv, NEW extra \in [Debuggers -> Seq(Messages)],
           sent' = [d \in Debuggers |-> sent[d] \o extra[d]],
           \A d \in Debuggers : \A p : ~Contains(extra[d], Offer(p))
    PROVE  \A d \in Debuggers, p \in PointRecords : Offered(d, p)' => Offered(d, p)
<1> SUFFICES ASSUME NEW d \in Debuggers, NEW p \in PointRecords, Offered(d, p)'
             PROVE  Offered(d, p)
  OBVIOUS
<1>1. sent[d] \in Seq(Messages) /\ extra[d] \in Seq(Messages)
      /\ sent'[d] = sent[d] \o extra[d]
  BY DEF IInv, Typed
<1>2. Contains(sent[d] \o extra[d], Offer(p)) /\ ~Contains(extra[d], Offer(p))
  BY <1>1 DEF Offered
<1>3. Contains(sent[d], Offer(p))
  BY <1>1, <1>2, ConcatContains
<1> QED BY <1>3 DEF Offered

\* Signals neither clear nor carry a handle, for whomever they are meant.
LEMMA SignalsTold ==
    ASSUME NEW signals \in Seq(SignalMessages), NEW d
    PROVE  /\ Told(d, signals) \in Seq(Messages)
           /\ NoneClears(Told(d, signals))
           /\ \A p : ~Contains(Told(d, signals), Offer(p))
<1>1. \A m \in SignalMessages : m \notin Clearing /\ \A p : m # Offer(p)
  BY SignalsDoNotClear, MessageKinds DEF Offer
<1>2. Told(d, signals) \in Seq(SignalMessages)
  BY DEF Told
<1>3. \A i \in DOMAIN Told(d, signals) : Told(d, signals)[i] \in SignalMessages
  BY <1>2, ElementOfSeq, LenProperties
<1>4. Told(d, signals) \in Seq(Messages)
  BY <1>2, SeqMonotonic, SignalMessages \subseteq Messages DEF Messages
<1> QED BY <1>1, <1>3, <1>4 DEF NoneClears, Contains

\* Signals that are sent to all, and a stop only together with its signal.
LEMMA BroadcastStep ==
    ASSUME IInv, NEW signals \in Seq(SignalMessages), Broadcast(signals),
           UNCHANGED <<link, connections, held, call, mine, points, next, adds>>,
           paused' => paused \/ Contains(signals, Stopped)
    PROVE  sent' \in [Debuggers -> Seq(Messages)] /\ StopsReach' /\ HandlesFresh'
<1> DEFINE extra == [d \in Debuggers |-> Told(d, signals)]
<1>1. extra \in [Debuggers -> Seq(Messages)]
  BY SignalsTold
<1>2. sent' = [d \in Debuggers |-> sent[d] \o extra[d]]
  BY DEF Broadcast
<1>3. \A d \in Debuggers :
         /\ extra[d] = Told(d, signals) /\ NoneClears(extra[d])
         /\ \A p : ~Contains(extra[d], Offer(p))
  BY SignalsTold
<1>4. ASSUME NEW d \in Debuggers, paused', ~paused, link[d] = "open", d \in connections
      PROVE  \E m \in Stopping : Contains(extra[d], m)
  BY <1>4 DEF Told, Stopping
<1> HIDE DEF extra
<1>5. sent' \in [Debuggers -> Seq(Messages)] /\ StopsReach'
  BY <1>1, <1>2, <1>3, <1>4, Sending
<1>6. HandlesFresh'
  <2>1. \A d \in Debuggers, p \in PointRecords : Offered(d, p)' => Offered(d, p)
    BY <1>1, <1>2, <1>3, NothingOffered
  <2>2. HandlesFresh
    BY DEF IInv
  <2> QED BY <2>1, <2>2, NoNewHandle
<1> QED BY <1>5, <1>6

\* What a debugger e is sent by a call of d: the signals, and d the reply.
Last(d, e, reply) == IF e = d /\ link[e] = "open" THEN <<reply>> ELSE <<>>
Answer(d, e, signals, reply) == Told(e, signals) \o Last(d, e, reply)

LEMMA AnswerContents ==
    ASSUME NEW d, NEW e, NEW signals \in Seq(SignalMessages), NEW reply \in ReplyMessages
    PROVE  /\ Told(e, signals) \in Seq(Messages) /\ Last(d, e, reply) \in Seq(Messages)
           /\ Answer(d, e, signals, reply) \in Seq(Messages)
           /\ \A m : Contains(Answer(d, e, signals, reply), m) <=>
                        \/ Contains(Told(e, signals), m)
                        \/ e = d /\ link[e] = "open" /\ m = reply
<1>1. Told(e, signals) \in Seq(Messages)
  BY SignalsTold
<1>2. Last(d, e, reply) \in Seq(Messages)
  <2>1. reply \in Messages
    BY DEF Messages
  <2>2. <<reply>> \in Seq(Messages) /\ <<>> \in Seq(Messages)
    BY <2>1
  <2> QED BY <2>2 DEF Last
<1>3. \A m : Contains(Last(d, e, reply), m) <=> e = d /\ link[e] = "open" /\ m = reply
  BY DEF Contains, Last
<1>4. Answer(d, e, signals, reply) \in Seq(Messages)
  BY <1>1, <1>2, Places DEF Answer
<1>5. \A m : Contains(Answer(d, e, signals, reply), m) <=>
                Contains(Told(e, signals), m) \/ Contains(Last(d, e, reply), m)
  BY <1>1, <1>2, ConcatContains DEF Answer
<1> QED BY <1>1, <1>2, <1>3, <1>4, <1>5

\* What is on the way after a call.
LEMMA AnswerSent ==
    ASSUME IInv, NEW d, NEW signals \in Seq(SignalMessages), NEW reply \in ReplyMessages,
           BroadcastAndReply(signals, d, reply)
    PROVE  sent' = [e \in Debuggers |-> sent[e] \o Answer(d, e, signals, reply)]
<1>1. ASSUME NEW e \in Debuggers
      PROVE  sent[e] \o Told(e, signals) \o Last(d, e, reply)
                = sent[e] \o Answer(d, e, signals, reply)
  <2>1. sent[e] \in Seq(Messages)
    BY DEF IInv, Typed
  <2>2. Told(e, signals) \in Seq(Messages) /\ Last(d, e, reply) \in Seq(Messages)
    BY AnswerContents
  <2>3. (sent[e] \o Told(e, signals)) \o Last(d, e, reply)
           = sent[e] \o (Told(e, signals) \o Last(d, e, reply))
    BY <2>1, <2>2, Regroup
  <2> QED BY <2>3 DEF Answer
<1> QED BY <1>1 DEF BroadcastAndReply, Last

\* The reply to a call, after the signals.
LEMMA ReplyStep ==
    ASSUME IInv, NEW d \in Debuggers, NEW do, Serves(d, do),
           NEW signals \in Seq(SignalMessages), NEW reply \in ReplyMessages,
           BroadcastAndReply(signals, d, reply),
           paused' => paused \/ Contains(signals, Stopped),
           paused' => reply \notin Clearing,
           (do = "status" /\ paused') => reply \in Stopping
    PROVE  /\ sent' \in [Debuggers -> Seq(Messages)] /\ StopsReach'
           /\ \A e \in Debuggers, p \in PointRecords :
                 Offered(e, p)' => Offered(e, p) \/ (e = d /\ reply = Offer(p))
<1> DEFINE extra == [e \in Debuggers |-> Answer(d, e, signals, reply)]
<1>1. \A e \in Debuggers : sent[e] \in Seq(Messages)
  BY DEF IInv, Typed
<1>2. extra \in [Debuggers -> Seq(Messages)]
  BY AnswerContents
<1>3. sent' = [e \in Debuggers |-> sent[e] \o extra[e]]
  <2>1. sent' = [e \in Debuggers |-> sent[e] \o Answer(d, e, signals, reply)]
    BY AnswerSent
  <2> QED BY <2>1
<1>4. \A e \in Debuggers : \A m : Contains(extra[e], m) <=>
         \/ Contains(Told(e, signals), m)
         \/ e = d /\ link[e] = "open" /\ m = reply
  BY AnswerContents
<1> HIDE DEF extra
<1>5. UNCHANGED <<link, connections, held>> /\ d \in connections /\ link[d] = "open"
      /\ call[d] # None /\ call[d].do = do /\ call' = [call EXCEPT ![d] = None]
      /\ call \in [Debuggers -> Calls \cup {None}] /\ paused \in BOOLEAN
  BY DEF Serves, debugger, IInv, Typed, TypeOK
<1>6. ASSUME NEW e \in Debuggers, paused'
      PROVE  NoneClears(extra[e])
  <2>1. \A m \in Clearing : ~Contains(Told(e, signals), m)
    BY SignalsTold, NoneClearsByContents
  <2> QED BY <1>4, <1>6, <2>1, NoneClearsByContents
<1>7. ASSUME NEW e \in Debuggers, paused', link[e] = "open", e \in connections,
             ~paused \/ (call'[e] # call[e] /\ Asking(e))
      PROVE  \E m \in Stopping : Contains(extra[e], m)
  <2>1. CASE ~paused
    <3>1. Contains(Told(e, signals), Stopped)
      BY <1>7, <2>1 DEF Told
    <3> QED BY <1>4, <3>1 DEF Stopping
  <2>2. CASE call'[e] # call[e] /\ Asking(e)
    <3>1. e = d /\ do = "status"
      BY <1>5, <2>2 DEF Asking
    <3> QED BY <1>4, <1>7, <3>1
  <2> QED BY <1>7, <2>1, <2>2
<1>8. \A e \in Debuggers : call'[e] # call[e] => e \in connections
  BY <1>5
<1>9. sent' \in [Debuggers -> Seq(Messages)] /\ StopsReach'
  BY <1>2, <1>3, <1>5, <1>6, <1>7, <1>8, Sending
<1>10. ASSUME NEW e \in Debuggers, NEW p \in PointRecords, Offered(e, p)', ~Offered(e, p)
       PROVE  e = d /\ reply = Offer(p)
  <2>1. sent'[e] = sent[e] \o extra[e] /\ extra[e] \in Seq(Messages)
    BY <1>2, <1>3
  <2>2. Contains(sent[e] \o extra[e], Offer(p)) /\ ~Contains(sent[e], Offer(p))
    BY <1>10, <2>1 DEF Offered
  <2>3. Contains(extra[e], Offer(p))
    BY <1>1, <2>1, <2>2, ConcatContains
  <2> QED BY <1>4, <2>3, SignalsTold
<1> QED BY <1>9, <1>10

\* The signals of a change.
LEMMA SignalsOfChange ==
    ASSUME NEW i \in Ids, NEW v \in Values
    PROVE  /\ Signals(i, v) \in Seq(SignalMessages)
           /\ Stops(i) => Contains(Signals(i, v), Stopped)
<1>1. PointChanged(i, v) \in SignalMessages /\ Stopped \in SignalMessages
  BY DEF PointChanged, SignalMessages
<1>2. <<PointChanged(i, v)>> \in Seq(SignalMessages) /\ Intercept(i) \in Seq(SignalMessages)
  BY <1>1 DEF Intercept
<1>3. Signals(i, v) \in Seq(SignalMessages)
  BY <1>2, ConcatProperties DEF Signals
<1>4. ASSUME Stops(i)
      PROVE  Contains(Signals(i, v), Stopped)
  <2> DEFINE s == <<PointChanged(i, v)>>
             t == <<Stopped>>
  <2>1. s \in Seq(Messages) /\ t \in Seq(Messages) /\ Contains(t, Stopped)
    BY <1>1 DEF Messages, Contains
  <2>2. Signals(i, v) = s \o t
    BY <1>4 DEF Signals, Intercept
  <2> HIDE DEF s, t
  <2> QED BY <2>1, <2>2, ConcatContains
<1> QED BY <1>3, <1>4

-----------------------------------------------------------------------------
(***************************************************************************)
(* The Core's steps                                                        *)
(***************************************************************************)

\* Handles keep their meaning where nothing is sent and none given out.
LEMMA NothingSent ==
    ASSUME HandlesFresh, UNCHANGED <<points, next, adds, sent, mine>>
    PROVE  HandlesFresh'
<1>1. \A d \in Debuggers, p \in PointRecords : Offered(d, p)' => Offered(d, p)
  BY DEF Offered
<1> QED BY <1>1, NoNewHandle

LEMMA PeerEventStep ==
    ASSUME IInv, NEW n \in Names, NEW from, NEW to \in States, PeerEvent(n, from, to),
           value' \in Views
    PROVE  IInv'
<1>1. UNCHANGED <<session, paused, connections, points, next, adds, link, call, held,
                  seenPeers, seen, mine>>
  BY DEF PeerEvent, News, table, debugger
<1>2. <<PeerChanged(n, to)>> \in Seq(SignalMessages)
  <2>1. PeerChanged(n, to) \in SignalMessages
    BY DEF PeerChanged, SignalMessages
  <2> QED BY <2>1
<1>3. sent' \in [Debuggers -> Seq(Messages)] /\ StopsReach' /\ HandlesFresh'
  <2>1. Broadcast(<<PeerChanged(n, to)>>) /\ (paused' => paused)
    BY <1>1 DEF PeerEvent
  <2> QED BY <1>1, <1>2, <2>1, BroadcastStep
<1>4. peers' \in [Names -> States]
  BY DEF PeerEvent, IInv, Typed, TypeOK
<1>5. Typed'
  BY <1>1, <1>3, <1>4 DEF IInv, Typed, TypeOK
<1> QED BY <1>3, <1>5 DEF IInv

LEMMA PeersStep ==
    ASSUME IInv, NEW n \in Names,
           PeerConnecting(n) \/ PeerReady(n) \/ PeerFailed(n) \/ PeerRemoved(n)
    PROVE  IInv'
<1>1. value \in Views
  BY DEF IInv, Typed, TypeOK
<1>2. CASE PeerConnecting(n)
  BY <1>1, <1>2, PeerEventStep DEF PeerConnecting, States
<1>3. CASE PeerReady(n)
  <2>1. value' \in Views
    BY <1>1, <1>3 DEF PeerReady, Views
  <2> QED BY <1>3, <2>1, PeerEventStep DEF PeerReady, States
<1>4. CASE PeerFailed(n)
  BY <1>1, <1>4, PeerEventStep DEF PeerFailed, States
<1>5. CASE PeerRemoved(n)
  <2>1. value' \in Views
    BY <1>1, <1>5 DEF PeerRemoved, Withdrawn, Views
  <2> QED BY <1>5, <2>1, PeerEventStep DEF PeerRemoved, States
<1> QED BY <1>2, <1>3, <1>4, <1>5

\* A change keeps the types, and stops the Core only with a signal.
LEMMA ChangedStep ==
    ASSUME IInv, NEW i \in Ids, NEW v \in Values, Changed(i, v)
    PROVE  /\ value' \in Views /\ paused' \in BOOLEAN
           /\ paused' => paused \/ Contains(Signals(i, v), Stopped)
<1>1. value' \in Views
  BY DEF Changed, IInv, Typed, TypeOK, Views
<1>2. CASE paused \/ Stops(i)
  <2>1. paused' = TRUE
    BY <1>2 DEF Changed
  <2> QED BY <1>1, <1>2, <2>1, SignalsOfChange
<1>3. CASE ~(paused \/ Stops(i))
  <2>1. paused' = FALSE
    BY <1>3 DEF Changed
  <2> QED BY <1>1, <2>1
<1> QED BY <1>2, <1>3

LEMMA NewsStep ==
    ASSUME IInv, NEW i \in Ids, NEW v \in Values, News, Changed(i, v),
           Broadcast(Signals(i, v)), UNCHANGED <<session, peers>>
    PROVE  IInv'
<1>1. UNCHANGED <<connections, points, next, adds, link, call, held, seenPeers, seen, mine>>
  BY DEF News, table, debugger
<1>2. /\ value' \in Views /\ paused' \in BOOLEAN
      /\ paused' => paused \/ Contains(Signals(i, v), Stopped)
  BY ChangedStep
<1>3. Signals(i, v) \in Seq(SignalMessages)
  BY SignalsOfChange
<1>4. sent' \in [Debuggers -> Seq(Messages)] /\ StopsReach' /\ HandlesFresh'
  BY <1>1, <1>2, <1>3, BroadcastStep
<1>5. Typed'
  BY <1>1, <1>2, <1>4 DEF IInv, Typed, TypeOK
<1> QED BY <1>4, <1>5 DEF IInv

LEMMA OnNewConnectionStep ==
    ASSUME IInv, NEW d \in Debuggers, OnNewConnection(d)
    PROVE  IInv'
<1>1. UNCHANGED <<session, peers, value, paused, points, next, adds, link, call, sent, held,
                  seenPeers, seen, mine>>
  BY DEF OnNewConnection, core, table, debugger
<1>2. connections' = connections \cup {d}
  BY DEF OnNewConnection
<1>3. StopsReach'
  BY <1>1, <1>2 DEF IInv, StopsReach, Asking
<1>4. Typed'
  BY <1>1, <1>2 DEF IInv, Typed, TypeOK
<1> QED BY <1>1, <1>3, <1>4, NothingSent DEF IInv

LEMMA OnClosedStep ==
    ASSUME IInv, NEW d \in Debuggers, OnClosed(d)
    PROVE  IInv'
<1>1. UNCHANGED <<session, peers, value, paused, points, next, adds, call, sent, held,
                  seenPeers, seen, mine>>
  BY DEF OnClosed, core, table, debugger
<1>2. connections' = connections \ {d} /\ link' = [link EXCEPT ![d] = "closed"]
  BY DEF OnClosed
<1>3. link \in [Debuggers -> {"closed", "open", "vanished"}]
  BY DEF IInv, Typed, TypeOK
<1>4. StopsReach'
  <2>1. \A e \in Debuggers : link'[e] = "open" => link[e] = "open" /\ e # d
    BY <1>2, <1>3
  <2> QED BY <1>1, <1>2, <2>1 DEF IInv, StopsReach, Asking
<1>5. Typed'
  BY <1>1, <1>2, <1>3 DEF IInv, Typed, TypeOK
<1> QED BY <1>1, <1>4, <1>5, NothingSent DEF IInv

-----------------------------------------------------------------------------
(***************************************************************************)
(* The methods                                                             *)
(***************************************************************************)

\* What serving a call leaves to show.
LEMMA ServeStep ==
    ASSUME IInv, NEW d \in Debuggers, NEW do, Serves(d, do),
           NEW signals \in Seq(SignalMessages), NEW reply \in ReplyMessages,
           BroadcastAndReply(signals, d, reply),
           value' \in Views, paused' \in BOOLEAN, adds' \in Nat,
           points' \in [Kinds -> [Handles -> Ids \cup {None}]],
           next' \in 0 .. HandleMod - 1,
           paused' => paused \/ Contains(signals, Stopped),
           paused' => reply \notin Clearing,
           (do = "status" /\ paused') => reply \in Stopping
    PROVE  /\ Typed' /\ StopsReach'
           /\ \A e \in Debuggers, p \in PointRecords :
                 Offered(e, p)' => Offered(e, p) \/ (e = d /\ reply = Offer(p))
<1>1. UNCHANGED <<session, peers, connections, link, held, seenPeers, seen, mine>>
  BY DEF Serves, debugger
<1>2. /\ sent' \in [Debuggers -> Seq(Messages)] /\ StopsReach'
      /\ \A e \in Debuggers, p \in PointRecords :
            Offered(e, p)' => Offered(e, p) \/ (e = d /\ reply = Offer(p))
  BY ReplyStep
<1>3. call' \in [Debuggers -> Calls \cup {None}]
  BY DEF Serves, IInv, Typed, TypeOK
<1>4. Typed'
  BY <1>1, <1>2, <1>3 DEF IInv, Typed, TypeOK
<1> QED BY <1>2, <1>4

\* A call that adds no point.
LEMMA ServePlainStep ==
    ASSUME IInv, NEW d \in Debuggers, NEW do, Serves(d, do),
           NEW signals \in Seq(SignalMessages), NEW reply \in ReplyMessages,
           BroadcastAndReply(signals, d, reply), UNCHANGED <<points, next, adds>>,
           value' \in Views, paused' \in BOOLEAN,
           paused' => paused \/ Contains(signals, Stopped),
           paused' => reply \notin Clearing,
           (do = "status" /\ paused') => reply \in Stopping,
           \A p : reply # Offer(p)
    PROVE  IInv'
<1>1. /\ adds' \in Nat /\ next' \in 0 .. HandleMod - 1
      /\ points' \in [Kinds -> [Handles -> Ids \cup {None}]]
  BY DEF IInv, Typed, TypeOK
<1>2. /\ Typed' /\ StopsReach'
      /\ \A e \in Debuggers, p \in PointRecords :
            Offered(e, p)' => Offered(e, p) \/ (e = d /\ reply = Offer(p))
  BY <1>1, ServeStep
<1>3. mine' = mine
  BY DEF Serves, debugger
<1>4. HandlesFresh'
  BY <1>2, <1>3, NoNewHandle DEF IInv
<1> QED BY <1>2, <1>4 DEF IInv

\* No signals at all.
LEMMA NoSignals == <<>> \in Seq(SignalMessages) /\ \A m : ~Contains(<<>>, m)
  BY DEF Contains

\* A reply that offers no point.
LEMMA NoOffer ==
    ASSUME NEW m, m.reply # "added"
    PROVE  \A p : m # Offer(p)
  BY DEF Offer

\* A reply that is no status and not that of Continue does not clear.
LEMMA OtherReply ==
    ASSUME NEW m, m.reply \notin {"status", "continued"}
    PROVE  m \notin Clearing
  BY DEF Clearing, StatusReply

LEMMA GetStatusStep ==
    ASSUME IInv, NEW d \in Debuggers, GetStatus(d)
    PROVE  IInv'
<1> DEFINE reply == [reply |-> "status", paused |-> paused]
<1>1. /\ Serves(d, "status") /\ BroadcastAndReply(<<>>, d, reply)
      /\ UNCHANGED <<value, points, next, adds, paused>>
  BY DEF GetStatus, Reply, table
<1>2. value \in Views /\ paused \in BOOLEAN
  BY DEF IInv, Typed, TypeOK
<1>3. reply \in ReplyMessages
  BY <1>2 DEF ReplyMessages
<1>4. ASSUME paused
      PROVE  reply \in Stopping /\ reply \notin Clearing
  <2>1. reply.reply = "status" /\ reply.paused /\ reply \in StatusReply(TRUE)
    BY <1>2, <1>4 DEF StatusReply
  <2> HIDE DEF reply
  <2>2. reply \notin Clearing
    BY <2>1, ReplyOfStop
  <2> QED BY <2>1, <2>2 DEF Stopping
<1>5. reply.reply # "added"
  OBVIOUS
<1> HIDE DEF reply
<1>6. \A p : reply # Offer(p)
  BY <1>5, NoOffer
<1>7. value' \in Views /\ paused' \in BOOLEAN /\ (paused' => paused)
  BY <1>1, <1>2
<1> QED BY <1>1, <1>3, <1>4, <1>6, <1>7, NoSignals, ServePlainStep

\* ListPeers and ListPoints.
LEMMA ListStep ==
    ASSUME IInv, NEW d \in Debuggers, ListPeers(d) \/ ListPoints(d)
    PROVE  IInv'
<1>1. value \in Views /\ paused \in BOOLEAN /\ peers \in [Names -> States]
  BY DEF IInv, Typed, TypeOK
<1>2. UNCHANGED <<value, points, next, adds, paused>>
  BY DEF ListPeers, ListPoints, table
<1>3. PICK do \in {"peers", "points"}, reply \in ReplyMessages :
         /\ Serves(d, do) /\ BroadcastAndReply(<<>>, d, reply)
         /\ reply.reply \notin {"status", "continued", "added"}
  <2>1. CASE ListPeers(d)
    <3> DEFINE reply == [reply |-> "peers", peers |-> peers]
    <3>1. reply \in ReplyMessages /\ reply.reply \notin {"status", "continued", "added"}
      BY <1>1 DEF ReplyMessages
    <3>2. Serves(d, "peers") /\ BroadcastAndReply(<<>>, d, reply)
      BY <2>1 DEF ListPeers, Reply
    <3> QED BY <3>1, <3>2
  <2>2. CASE ListPoints(d)
    <3> DEFINE reply == [reply |-> "points", value |-> value]
    <3>1. reply \in ReplyMessages /\ reply.reply \notin {"status", "continued", "added"}
      BY <1>1 DEF ReplyMessages
    <3>2. Serves(d, "points") /\ BroadcastAndReply(<<>>, d, reply)
      BY <2>2 DEF ListPoints, Reply
    <3> QED BY <3>1, <3>2
  <2> QED BY <2>1, <2>2
<1>4. reply \notin Clearing /\ \A p : reply # Offer(p)
  BY <1>3, NoOffer, OtherReply
<1>5. value' \in Views /\ paused' \in BOOLEAN /\ (paused' => paused)
  BY <1>1, <1>2
<1>6. ~(do = "status" /\ paused')
  BY <1>3
<1> QED BY <1>2, <1>3, <1>4, <1>5, <1>6, NoSignals, ServePlainStep

LEMMA ContinueStep ==
    ASSUME IInv, NEW d \in Debuggers, Continue(d)
    PROVE  IInv'
<1> DEFINE reply == [reply |-> "continued"]
<1>1. /\ Serves(d, "continue") /\ BroadcastAndReply(<<>>, d, reply)
      /\ UNCHANGED <<value, points, next, adds>> /\ paused' = FALSE
  BY DEF Continue, Reply, table
<1>2. value' \in Views
  BY <1>1 DEF IInv, Typed, TypeOK
<1>3. reply \in ReplyMessages /\ reply.reply # "added"
  BY DEF ReplyMessages
<1> HIDE DEF reply
<1>4. \A p : reply # Offer(p)
  BY <1>3, NoOffer
<1> QED BY <1>1, <1>2, <1>3, <1>4, NoSignals, ServePlainStep

\* The call a method serves, with its arguments.
LEMMA ServedCall ==
    ASSUME IInv, NEW d \in Debuggers, NEW do, Serves(d, do)
    PROVE  call[d] \in Calls /\ call[d].do = do
  BY DEF Serves, IInv, Typed, TypeOK

LEMMA SetInputStep ==
    ASSUME IInv, NEW d \in Debuggers, SetInput(d)
    PROVE  IInv'
<1> DEFINE c == call[d]
           reply == [reply |-> "set"]
<1>1. Serves(d, "set") /\ UNCHANGED <<points, next, adds>>
  BY DEF SetInput, table
<1>2. c.id \in Ids /\ c.to \in Values
  BY <1>1, ServedCall, CallFields DEF Ids
<1>3. \/ BroadcastAndReply(<<>>, d, reply) /\ UNCHANGED <<value, paused>>
      \/ Changed(c.id, c.to) /\ BroadcastAndReply(Signals(c.id, c.to), d, reply)
  BY DEF SetInput, Reply
<1>4. /\ reply \in ReplyMessages
      /\ reply.reply \notin {"status", "continued", "added"}
  BY DEF ReplyMessages
<1> HIDE DEF reply, c
<1>5. reply \notin Clearing /\ \A p : reply # Offer(p)
  BY <1>4, NoOffer, OtherReply
<1>6. CASE BroadcastAndReply(<<>>, d, reply) /\ UNCHANGED <<value, paused>>
  <2>1. value' \in Views /\ paused' \in BOOLEAN /\ (paused' => paused)
    BY <1>6 DEF IInv, Typed, TypeOK
  <2>2. BroadcastAndReply(<<>>, d, reply) /\ ~("set" = "status" /\ paused')
    BY <1>6
  <2> QED BY <1>1, <1>4, <1>5, <2>1, <2>2, NoSignals, ServePlainStep
<1>7. CASE Changed(c.id, c.to) /\ BroadcastAndReply(Signals(c.id, c.to), d, reply)
  <2>1. /\ value' \in Views /\ paused' \in BOOLEAN
        /\ paused' => paused \/ Contains(Signals(c.id, c.to), Stopped)
    BY <1>2, <1>7, ChangedStep
  <2>2. Signals(c.id, c.to) \in Seq(SignalMessages)
    BY <1>2, SignalsOfChange
  <2> QED BY <1>1, <1>4, <1>5, <1>7, <2>1, <2>2, ServePlainStep
<1> QED BY <1>3, <1>6, <1>7

\* The counter of handles, and what it gives out.
LEMMA HandleFacts ==
    ASSUME IInv
    PROVE  /\ Handle \in Handles /\ (Handle + 1) % HandleMod \in 0 .. HandleMod - 1
           /\ Handle + 1 < HandleMod => (Handle + 1) % HandleMod = Handle + 1
           /\ next # 0 => Handle = next
           /\ next \in 0 .. HandleMod - 1 /\ HandleMod \in Nat \ {0, 1}
<1>1. next \in 0 .. HandleMod - 1 /\ HandleMod \in Nat \ {0, 1}
  BY DebugServerAssumption DEF IInv, Typed, TypeOK
<1>2. Handle \in Handles
  BY <1>1 DEF Handle, Handles
<1>3. \A m \in Nat \ {0}, a \in Nat : a % m \in 0 .. m - 1 /\ (a < m => a % m = a)
  OBVIOUS
<1>4. Handle + 1 \in Nat /\ HandleMod \in Nat \ {0}
  BY <1>1, <1>2 DEF Handles
<1>5. /\ (Handle + 1) % HandleMod \in 0 .. HandleMod - 1
      /\ Handle + 1 < HandleMod => (Handle + 1) % HandleMod = Handle + 1
  BY <1>3, <1>4
<1> QED BY <1>1, <1>2, <1>5 DEF Handle

\* A call that sends no signal, and whose reply says nothing of the stop.
LEMMA ServeTableStep ==
    ASSUME IInv, NEW d \in Debuggers, NEW do, Serves(d, do), do # "status",
           NEW reply \in ReplyMessages, BroadcastAndReply(<<>>, d, reply),
           reply \notin Clearing, UNCHANGED <<value, paused>>, adds' \in Nat,
           points' \in [Kinds -> [Handles -> Ids \cup {None}]],
           next' \in 0 .. HandleMod - 1
    PROVE  /\ Typed' /\ StopsReach'
           /\ \A e \in Debuggers, p \in PointRecords :
                 Offered(e, p)' => Offered(e, p) \/ (e = d /\ reply = Offer(p))
<1>1. value' \in Views /\ paused' \in BOOLEAN
  BY DEF IInv, Typed, TypeOK
<1> DEFINE silence == <<>>
<1>2. silence \in Seq(SignalMessages) /\ BroadcastAndReply(silence, d, reply)
  OBVIOUS
<1> HIDE DEF silence
<1>3. paused' => paused \/ Contains(silence, Stopped)
  OBVIOUS
<1>4. (do = "status" /\ paused') => reply \in Stopping
  OBVIOUS
<1>5. paused' => reply \notin Clearing
  OBVIOUS
<1> QED BY <1>1, <1>2, <1>3, <1>4, <1>5, ServeStep

LEMMA AddPointStep ==
    ASSUME IInv, NEW d \in Debuggers, AddPoint(d)
    PROVE  IInv'
<1> DEFINE c == call[d]
           reply == [reply |-> "added", point |-> Point(c.kind, Handle, c.id)]
<1>1. /\ Serves(d, "add") /\ BroadcastAndReply(<<>>, d, reply)
      /\ points' = [points EXCEPT ![c.kind][Handle] = c.id]
      /\ next' = (Handle + 1) % HandleMod /\ adds' = adds + 1
      /\ UNCHANGED <<value, paused>>
  BY DEF AddPoint, Reply
<1>2. c.kind \in Kinds /\ c.id \in Ids
  BY <1>1, ServedCall, CallFields
<1>3. Point(c.kind, Handle, c.id) \in PointRecords
  BY <1>2, HandleFacts DEF Point, PointRecords
<1>4. /\ value \in Views /\ paused \in BOOLEAN /\ adds \in Nat
      /\ points \in [Kinds -> [Handles -> Ids \cup {None}]]
      /\ mine \in [Debuggers -> SUBSET PointRecords]
  BY DEF IInv, Typed, TypeOK
<1>5. points' \in [Kinds -> [Handles -> Ids \cup {None}]]
  BY <1>1, <1>2, <1>4, HandleFacts
<1>6. next' \in 0 .. HandleMod - 1 /\ adds' \in Nat
  BY <1>1, <1>4, HandleFacts
<1>7. reply \in ReplyMessages /\ reply.reply = "added" /\ reply = Offer(Point(c.kind, Handle, c.id))
  BY <1>3 DEF ReplyMessages, Offer
<1>8. \A p, q : Offer(p) = Offer(q) => p = q
  BY DEF Offer
<1> HIDE DEF c, reply
<1>9. reply \notin Clearing
  BY <1>7, OtherReply
<1>10. /\ Typed' /\ StopsReach'
       /\ \A e \in Debuggers, p \in PointRecords :
             Offered(e, p)' => Offered(e, p) \/ (e = d /\ reply = Offer(p))
  BY <1>1, <1>5, <1>6, <1>7, <1>9, ServeTableStep
<1>11. mine' = mine
  BY <1>1 DEF Serves, debugger
<1>12. HandlesFresh'
  <2> SUFFICES ASSUME adds' < HandleMod
               PROVE  /\ adds' < HandleMod - 1 => next' = adds' + 1
                      /\ \A k \in Kinds, h \in Handles : h > adds' => points'[k][h] = None
                      /\ \A e \in Debuggers, p \in PointRecords :
                            p \in mine'[e] \/ Offered(e, p)' => Right(p)'
    BY DEF HandlesFresh
  <2>1. /\ adds < HandleMod /\ adds < HandleMod - 1 /\ next = adds + 1 /\ Handle = adds + 1
        /\ \A k \in Kinds, h \in Handles : h > adds => points[k][h] = None
        /\ \A e \in Debuggers, p \in PointRecords :
              p \in mine[e] \/ Offered(e, p) => Right(p)
    BY <1>1, <1>4, HandleFacts DEF IInv, HandlesFresh
  <2>2. adds' < HandleMod - 1 => next' = adds' + 1
    BY <1>1, <1>4, <2>1, HandleFacts
  <2>3. \A k \in Kinds, h \in Handles :
           points'[k][h] = IF k = c.kind /\ h = adds + 1 THEN c.id ELSE points[k][h]
    BY <1>1, <1>2, <1>4, <2>1, HandleFacts
  <2>4. \A k \in Kinds, h \in Handles : h > adds' => points'[k][h] = None
    BY <1>1, <1>4, <2>1, <2>3 DEF Handles
  <2>5. ASSUME NEW p \in PointRecords, Right(p)
        PROVE  Right(p)'
    <3>1. p.handle \in Handles /\ p.handle <= adds
      BY <2>5 DEF Right, PointRecords
    <3>2. p.handle # adds + 1 /\ p.handle <= adds'
      BY <1>1, <1>4, <3>1 DEF Handles
    <3> QED BY <2>3, <2>5, <3>1, <3>2 DEF Right
  <2>6. ASSUME NEW p, p = Point(c.kind, Handle, c.id)
        PROVE  Right(p)'
    <3>1. p.kind = c.kind /\ p.handle = adds + 1 /\ p.id = c.id
      BY <2>1, <2>6 DEF Point
    <3>2. adds + 1 \in Handles /\ p.handle <= adds'
      BY <1>1, <1>4, <2>1, <3>1, HandleFacts
    <3>3. \A k \in Kinds : k # c.kind => points'[k][p.handle] = None
      <4>1. adds + 1 > adds
        BY <1>4
      <4> QED BY <2>1, <2>3, <3>1, <3>2, <4>1
    <3>4. points'[c.kind][p.handle] = c.id
      BY <1>2, <2>3, <3>1, <3>2
    <3> QED BY <3>1, <3>2, <3>3, <3>4 DEF Right
  <2>7. ASSUME NEW e \in Debuggers, NEW p \in PointRecords, p \in mine'[e] \/ Offered(e, p)'
        PROVE  Right(p)'
    <3>1. p \in mine[e] \/ Offered(e, p) \/ reply = Offer(p)
      BY <1>10, <1>11, <2>7
    <3>2. CASE p \in mine[e] \/ Offered(e, p)
      BY <2>1, <2>5, <3>2
    <3>3. CASE reply = Offer(p)
      <4>1. p = Point(c.kind, Handle, c.id)
        BY <1>7, <1>8, <3>3
      <4> QED BY <2>6, <4>1
    <3> QED BY <3>1, <3>2, <3>3
  <2> QED BY <2>2, <2>4, <2>7
<1> QED BY <1>10, <1>12 DEF IInv

LEMMA RemovePointStep ==
    ASSUME IInv, NEW d \in Debuggers, RemovePoint(d)
    PROVE  IInv'
<1> DEFINE c == call[d]
           known == c.handle # 0 /\ points[c.kind][c.handle] # None
           reply == [reply |-> "removed", known |-> known,
                     kind |-> c.kind, handle |-> c.handle]
<1>1. /\ Serves(d, "remove") /\ BroadcastAndReply(<<>>, d, reply)
      /\ points' = IF known THEN [points EXCEPT ![c.kind][c.handle] = None] ELSE points
      /\ UNCHANGED <<value, next, adds, paused>>
  BY DEF RemovePoint, Reply
<1>2. c.kind \in Kinds /\ c.handle \in 0 .. HandleMod - 1
  BY <1>1, ServedCall, CallFields
<1>3. /\ value \in Views /\ paused \in BOOLEAN /\ adds \in Nat
      /\ points \in [Kinds -> [Handles -> Ids \cup {None}]]
      /\ next \in 0 .. HandleMod - 1
  BY DEF IInv, Typed, TypeOK
<1>4. /\ points' \in [Kinds -> [Handles -> Ids \cup {None}]]
      /\ \A k \in Kinds, h \in Handles : points'[k][h] \in {points[k][h], None}
  BY <1>1, <1>2, <1>3
<1>5. reply \in ReplyMessages /\ reply.reply = "removed"
  <2>1. known \in BOOLEAN
    OBVIOUS
  <2> QED BY <1>2, <2>1 DEF ReplyMessages
<1> HIDE DEF c, known, reply
<1>6. reply \notin Clearing /\ \A p : reply # Offer(p)
  BY <1>5, OtherReply, NoOffer
<1>7. adds' \in Nat /\ next' \in 0 .. HandleMod - 1
  BY <1>1, <1>3
<1>8. /\ Typed' /\ StopsReach'
      /\ \A e \in Debuggers, p \in PointRecords :
            Offered(e, p)' => Offered(e, p) \/ (e = d /\ reply = Offer(p))
  BY <1>1, <1>4, <1>5, <1>6, <1>7, ServeTableStep
<1>9. mine' = mine
  BY <1>1 DEF Serves, debugger
<1>10. ASSUME NEW p \in PointRecords, Right(p)
       PROVE  Right(p)'
  <2>1. p.handle \in Handles
    BY DEF PointRecords
  <2> QED BY <1>1, <1>4, <1>10, <2>1 DEF Right
<1>11. HandlesFresh'
  <2>1. \A e \in Debuggers, p \in PointRecords :
           p \in mine'[e] \/ Offered(e, p)' => p \in mine[e] \/ Offered(e, p)
    BY <1>6, <1>8, <1>9
  <2> QED BY <1>1, <1>4, <1>10, <2>1 DEF HandlesFresh, IInv
<1> QED BY <1>8, <1>11 DEF IInv

-----------------------------------------------------------------------------
(***************************************************************************)
(* The debuggers                                                           *)
(***************************************************************************)

LEMMA AttachStep ==
    ASSUME IInv, NEW d \in Debuggers, Attach(d)
    PROVE  IInv'
<1>1. UNCHANGED <<session, peers, value, connections, points, next, adds, paused, sent,
                  held, seenPeers, seen, mine>>
  BY DEF Attach, core, table, debugger
<1>2. link' = [link EXCEPT ![d] = "open"] /\ call' = [call EXCEPT ![d] = [do |-> "status"]]
  BY DEF Attach
<1>3. link \in [Debuggers -> {"closed", "open", "vanished"}]
      /\ call \in [Debuggers -> Calls \cup {None}]
  BY DEF IInv, Typed, TypeOK
<1>4. call'[d] = [do |-> "status"] /\ [do |-> "status"] # None
  BY <1>2, <1>3, PlainCalls, DebugServerAssumption
<1>5. Asking(d)'
  BY <1>4 DEF Asking
<1>6. \A e \in Debuggers : e # d => link'[e] = link[e] /\ call'[e] = call[e]
  BY <1>2, <1>3
<1>7. StopsReach'
  BY <1>1, <1>5, <1>6 DEF IInv, StopsReach, Asking
<1>8. Typed'
  BY <1>1, <1>2, <1>3, PlainCalls DEF IInv, Typed, TypeOK
<1> QED BY <1>1, <1>7, <1>8, NothingSent DEF IInv

LEMMA VanishStep ==
    ASSUME IInv, NEW d \in Debuggers, Vanish(d)
    PROVE  IInv'
<1>1. UNCHANGED <<session, peers, value, connections, points, next, adds, paused>>
  BY DEF Vanish, core, table
<1>2. /\ link' = [link EXCEPT ![d] = "vanished"] /\ call' = [call EXCEPT ![d] = None]
      /\ sent' = [sent EXCEPT ![d] = <<>>] /\ held' = [held EXCEPT ![d] = FALSE]
      /\ seenPeers' = [seenPeers EXCEPT ![d] = None]
      /\ seen' = [seen EXCEPT ![d] = Nothing] /\ mine' = [mine EXCEPT ![d] = {}]
  BY DEF Vanish
<1>3. /\ link \in [Debuggers -> {"closed", "open", "vanished"}]
      /\ call \in [Debuggers -> Calls \cup {None}]
      /\ sent \in [Debuggers -> Seq(Messages)] /\ held \in [Debuggers -> BOOLEAN]
      /\ mine \in [Debuggers -> SUBSET PointRecords]
  BY DEF IInv, Typed, TypeOK
<1>4. /\ link'[d] = "vanished"
      /\ \A e \in Debuggers : e # d => /\ link'[e] = link[e] /\ call'[e] = call[e]
                                       /\ sent'[e] = sent[e] /\ held'[e] = held[e]
  BY <1>2, <1>3
<1>5. StopsReach'
  BY <1>1, <1>4 DEF IInv, StopsReach, Asking
<1>6. Nothing \in Views
  BY DEF Nothing, Views
<1>7. Typed'
  BY <1>1, <1>2, <1>3, <1>6 DEF IInv, Typed, TypeOK
<1>8. HandlesFresh'
  <2>1. \A e \in Debuggers : mine'[e] \subseteq mine[e] /\ (e # d => sent'[e] = sent[e])
        /\ sent'[d] = <<>>
    BY <1>2, <1>3
  <2>2. \A e \in Debuggers, p \in PointRecords : Offered(e, p)' => Offered(e, p)
    BY <2>1, NoSignals DEF Offered
  <2> QED BY <1>1, <2>1, <2>2, NoNewHandle DEF IInv
<1> QED BY <1>5, <1>7, <1>8 DEF IInv

\* A debugger that makes a call does not wait for one.
LEMMA AskStep ==
    ASSUME IInv, NEW d \in Debuggers, Ask(d) \/ LetGo(d)
    PROVE  IInv'
<1>1. PICK c \in Calls : Asks(d, c)
  <2>1. CASE Ask(d)
    <3>1. session.uses[d] \subseteq Calls
      BY DebugServerAssumption DEF IInv, Typed, TypeOK
    <3> QED BY <2>1, <3>1 DEF Ask
  <2>2. CASE LetGo(d)
    BY <2>2, PlainCalls DEF LetGo
  <2> QED BY <2>1, <2>2
<1>2. UNCHANGED <<session, peers, value, connections, points, next, adds, paused, link,
                  sent, held, seenPeers, seen, mine>>
  BY <1>1 DEF Asks, core, table, debugger
<1>3. call[d] = None /\ call' = [call EXCEPT ![d] = c]
      /\ call \in [Debuggers -> Calls \cup {None}]
  BY <1>1 DEF Asks, Idle, IInv, Typed, TypeOK
<1>4. \A e \in Debuggers : Asking(e) => Asking(e)'
  BY <1>3 DEF Asking
<1>5. StopsReach'
  BY <1>2, <1>4 DEF IInv, StopsReach
<1>6. Typed'
  BY <1>2, <1>3 DEF IInv, Typed, TypeOK
<1> QED BY <1>2, <1>5, <1>6, NothingSent DEF IInv

\* The first message is taken from what is on the way.
LEMMA Reading ==
    ASSUME IInv, NEW d \in Debuggers, sent[d] # <<>>,
           sent' = [sent EXCEPT ![d] = Tail(@)]
    PROVE  /\ sent' \in [Debuggers -> Seq(Messages)]
           /\ sent[d] \in Seq(Messages) /\ sent'[d] = Tail(sent[d])
           /\ Head(sent[d]) \in Messages /\ Contains(sent[d], Head(sent[d]))
           /\ \A e \in Debuggers : e # d => sent'[e] = sent[e]
           /\ \A e \in Debuggers, p \in PointRecords : Offered(e, p)' => Offered(e, p)
<1>1. sent \in [Debuggers -> Seq(Messages)]
  BY DEF IInv, Typed
<1>2. /\ sent' \in [Debuggers -> Seq(Messages)]
      /\ sent[d] \in Seq(Messages) /\ sent'[d] = Tail(sent[d])
      /\ \A e \in Debuggers : e # d => sent'[e] = sent[e]
  BY <1>1
<1> DEFINE s == sent[d]
<1>3. s \in Seq(Messages) /\ s # <<>>
  BY <1>2
<1> HIDE DEF s
<1>4. /\ Len(s) \in Nat \ {0} /\ DOMAIN s = 1 .. Len(s) /\ Head(s) = s[1]
      /\ DOMAIN Tail(s) = 1 .. Len(s) - 1
      /\ \A i \in 1 .. Len(s) - 1 : Tail(s)[i] = s[i + 1]
  BY <1>3, EmptySeq, HeadTailProperties, LenProperties
<1>5. Head(s) \in Messages /\ Contains(s, Head(s))
  BY <1>3, <1>4, ElementOfSeq DEF Contains
<1>6. ASSUME NEW m, Contains(Tail(s), m)
      PROVE  Contains(s, m)
  <2>1. PICK i \in DOMAIN Tail(s) : Tail(s)[i] = m
    BY <1>6 DEF Contains
  <2>2. i + 1 \in DOMAIN s /\ s[i + 1] = m
    BY <1>4, <2>1
  <2> QED BY <2>2 DEF Contains
<1>7. ASSUME NEW e \in Debuggers, NEW p \in PointRecords, Offered(e, p)'
      PROVE  Offered(e, p)
  <2>1. CASE e = d
    <3>1. Contains(Tail(s), Offer(p))
      BY <1>2, <1>7, <2>1 DEF Offered, s
    <3>2. Contains(s, Offer(p))
      BY <1>6, <3>1
    <3> QED BY <2>1, <3>2 DEF Offered, s
  <2>2. CASE e # d
    BY <1>2, <1>7, <2>2 DEF Offered
  <2> QED BY <2>1, <2>2
<1> QED BY <1>2, <1>5, <1>7 DEF s

\* Reading keeps a debugger informed if it does as the message says.
LEMMA ReadingStops ==
    ASSUME IInv, NEW d \in Debuggers, sent[d] # <<>>,
           sent' = [sent EXCEPT ![d] = Tail(@)],
           UNCHANGED <<paused, link, call, connections>>,
           held' \in [Debuggers -> BOOLEAN],
           \A e \in Debuggers : e # d => held'[e] = held[e],
           Head(sent[d]) \in Stopping => held'[d],
           held[d] /\ Head(sent[d]) \notin Clearing => held'[d]
    PROVE  StopsReach'
<1>1. \A e \in Debuggers : Asking(e)' <=> Asking(e)
  BY DEF Asking
<1>2. /\ sent[d] \in Seq(Messages) /\ sent'[d] = Tail(sent[d])
      /\ \A e \in Debuggers : e # d => sent'[e] = sent[e]
  BY Reading
<1>3. held[d] \in BOOLEAN /\ held'[d] \in BOOLEAN
  BY DEF IInv, Typed, TypeOK
<1>4. Knows(held[d], sent[d]) => Knows(held'[d], sent'[d])
  BY <1>2, <1>3, KnowsRead
<1>5. \A e \in Debuggers : Knows(held[e], sent[e]) => Knows(held'[e], sent'[e])
  BY <1>2, <1>4
<1> QED BY <1>1, <1>5 DEF IInv, StopsReach

LEMMA ReceiveSignalStep ==
    ASSUME IInv, NEW d \in Debuggers, ReceiveSignal(d)
    PROVE  IInv'
<1> DEFINE m == Head(sent[d])
<1>1. /\ UNCHANGED <<session, peers, value, connections, points, next, adds, paused, link,
                     call, mine>>
      /\ sent[d] # <<>> /\ sent' = [sent EXCEPT ![d] = Tail(@)]
  BY DEF ReceiveSignal, core, table
<1>2. /\ "signal" \in DOMAIN m
      /\ held' = [held EXCEPT ![d] = @ \/ m.signal = "Stopped"]
      /\ seenPeers' = IF m.signal = "PeerChanged" /\ seenPeers[d] # None
                      THEN [seenPeers EXCEPT ![d][m.name] = m.state]
                      ELSE seenPeers
      /\ \/ m.signal = "PeerChanged" /\ seen' = [seen EXCEPT ![d] = Forgotten(@)]
         \/ m.signal = "Changed" /\ seen' = [seen EXCEPT ![d][m.id] = m.to]
         \/ seen' = seen
  BY DEF ReceiveSignal
<1>3. /\ held \in [Debuggers -> BOOLEAN] /\ seen \in [Debuggers -> Views]
      /\ seenPeers \in [Debuggers -> [Names -> States] \cup {None}]
  BY DEF IInv, Typed, TypeOK
<1>4. /\ sent' \in [Debuggers -> Seq(Messages)] /\ m \in Messages
      /\ \A e \in Debuggers, p \in PointRecords : Offered(e, p)' => Offered(e, p)
  BY <1>1, Reading
<1> HIDE DEF m
<1>5. m \in SignalMessages
  BY <1>2, <1>4, MessageKinds DEF Messages
<1>6. held' \in [Debuggers -> BOOLEAN] /\ held'[d] = (held[d] \/ m.signal = "Stopped")
      /\ \A e \in Debuggers : e # d => held'[e] = held[e]
  BY <1>2, <1>3
<1>7. StopsReach'
  <2>1. (m \in Stopping => held'[d]) /\ (held[d] => held'[d])
    BY <1>5, <1>6, SignalsDoNotClear, SignalFields
  <2> QED BY <1>1, <1>6, <2>1, ReadingStops DEF m
<1>8. seenPeers' \in [Debuggers -> [Names -> States] \cup {None}]
  <2>1. CASE m.signal = "PeerChanged" /\ seenPeers[d] # None
    <3>1. seenPeers[d] \in [Names -> States] /\ m.name \in Names /\ m.state \in States
      BY <1>3, <1>5, <2>1, SignalFields
    <3> QED BY <1>2, <1>3, <2>1, <3>1
  <2>2. CASE ~(m.signal = "PeerChanged" /\ seenPeers[d] # None)
    BY <1>2, <1>3, <2>2
  <2> QED BY <2>1, <2>2
<1>9. seen' \in [Debuggers -> Views]
  <2>1. CASE m.signal = "PeerChanged" /\ seen' = [seen EXCEPT ![d] = Forgotten(@)]
    <3>1. Forgotten(seen[d]) \in Views
      BY <1>3 DEF Forgotten, Views
    <3> QED BY <1>3, <2>1, <3>1
  <2>2. CASE m.signal = "Changed" /\ seen' = [seen EXCEPT ![d][m.id] = m.to]
    <3>1. m.id \in Ids /\ m.to \in Values
      BY <1>5, <2>2, SignalFields
    <3> QED BY <1>3, <2>2, <3>1 DEF Views
  <2> QED BY <1>2, <1>3, <2>1, <2>2
<1>10. Typed'
  BY <1>1, <1>4, <1>6, <1>8, <1>9 DEF IInv, Typed, TypeOK
<1>11. HandlesFresh'
  BY <1>1, <1>4, NoNewHandle DEF IInv
<1> QED BY <1>7, <1>10, <1>11 DEF IInv

LEMMA ReceiveReplyStep ==
    ASSUME IInv, NEW d \in Debuggers, ReceiveReply(d)
    PROVE  IInv'
<1> DEFINE m == Head(sent[d])
<1>1. /\ UNCHANGED <<session, peers, value, connections, points, next, adds, paused, link,
                     call>>
      /\ sent[d] # <<>> /\ sent' = [sent EXCEPT ![d] = Tail(@)]
  BY DEF ReceiveReply, core, table
<1>2. /\ "reply" \in DOMAIN m
      /\ \/ m.reply = "status" /\ held' = [held EXCEPT ![d] = m.paused]
         \/ m.reply = "continued" /\ held' = [held EXCEPT ![d] = FALSE]
         \/ m.reply \notin {"status", "continued"} /\ held' = held
      /\ \/ m.reply = "peers" /\ seenPeers' = [seenPeers EXCEPT ![d] = m.peers]
         \/ seenPeers' = seenPeers
      /\ \/ m.reply = "points" /\ seen' = [seen EXCEPT ![d] = Listed(@, m.value)]
         \/ seen' = seen
      /\ \/ m.reply = "added" /\ mine' = [mine EXCEPT ![d] = @ \cup {m.point}]
         \/ mine' = [mine EXCEPT ![d] = {p \in @ : p.kind # m.kind
                                                \/ p.handle # m.handle}]
         \/ mine' = mine
  BY DEF ReceiveReply
<1>3. /\ held \in [Debuggers -> BOOLEAN] /\ seen \in [Debuggers -> Views]
      /\ seenPeers \in [Debuggers -> [Names -> States] \cup {None}]
      /\ mine \in [Debuggers -> SUBSET PointRecords]
  BY DEF IInv, Typed, TypeOK
<1>4. /\ sent' \in [Debuggers -> Seq(Messages)] /\ m \in Messages
      /\ Contains(sent[d], m)
      /\ \A e \in Debuggers, p \in PointRecords : Offered(e, p)' => Offered(e, p)
  BY <1>1, Reading
<1> HIDE DEF m
<1>5. m \in ReplyMessages /\ m # Stopped
  <2>1. m \notin SignalMessages
    BY <1>2, MessageKinds
  <2> QED BY <1>4, <2>1 DEF Messages, SignalMessages
<1>6. /\ held' \in [Debuggers -> BOOLEAN]
      /\ \A e \in Debuggers : e # d => held'[e] = held[e]
      /\ m \in Stopping => held'[d]
      /\ held[d] /\ m \notin Clearing => held'[d]
  <2>1. CASE m.reply = "status" /\ held' = [held EXCEPT ![d] = m.paused]
    <3>1. m \in [reply : {"status"}, paused : BOOLEAN]
      BY <1>5, <2>1, ReplyFields
    <3>2. m.paused \in BOOLEAN /\ (m \notin Clearing => m.paused)
      BY <3>1, StatusFields
    <3>3. m \in Stopping => m.paused
      BY <1>5, ReplyOfStop DEF Stopping
    <3> QED BY <1>3, <2>1, <3>2, <3>3
  <2>2. CASE m.reply = "continued" /\ held' = [held EXCEPT ![d] = FALSE]
    <3>1. m \in Clearing /\ m \notin Stopping
      BY <1>5, <2>2, ReplyFields, ReplyOfStop DEF Stopping
    <3> QED BY <1>3, <2>2, <3>1
  <2>3. CASE m.reply \notin {"status", "continued"} /\ held' = held
    <3>1. m \notin Stopping
      BY <1>5, <2>3, ReplyOfStop DEF Stopping
    <3> QED BY <1>3, <2>3, <3>1
  <2> QED BY <1>2, <2>1, <2>2, <2>3
<1>7. StopsReach'
  BY <1>1, <1>6, ReadingStops DEF m
<1>8. seenPeers' \in [Debuggers -> [Names -> States] \cup {None}]
  BY <1>2, <1>3, <1>5, ReplyFields
<1>9. seen' \in [Debuggers -> Views]
  <2>1. CASE m.reply = "points" /\ seen' = [seen EXCEPT ![d] = Listed(@, m.value)]
    <3>1. m.value \in Views
      BY <1>5, <2>1, ReplyFields
    <3>2. Listed(seen[d], m.value) \in Views
      BY <1>3, <3>1 DEF Listed, Views
    <3> QED BY <1>3, <2>1, <3>2
  <2> QED BY <1>2, <1>3, <2>1
<1>10. /\ mine' \in [Debuggers -> SUBSET PointRecords]
       /\ \A e \in Debuggers, p \in PointRecords :
             p \in mine'[e] => p \in mine[e] \/ Offered(e, p)
  <2>1. CASE m.reply = "added" /\ mine' = [mine EXCEPT ![d] = @ \cup {m.point}]
    <3>1. m.point \in PointRecords /\ m = Offer(m.point)
      BY <1>5, <2>1, ReplyFields DEF Offer
    <3>2. Offered(d, m.point)
      BY <1>4, <3>1 DEF Offered
    <3> QED BY <1>3, <2>1, <3>1, <3>2
  <2>2. CASE mine' = [mine EXCEPT ![d] = {p \in @ : p.kind # m.kind
                                                 \/ p.handle # m.handle}]
    BY <1>3, <2>2
  <2> QED BY <1>2, <1>3, <2>1, <2>2
<1>11. Typed'
  <2>1. \A e \in Debuggers : mine'[e] \subseteq [kind : Kinds, handle : Handles, id : Ids]
    BY <1>10 DEF PointRecords
  <2> QED BY <1>1, <1>4, <1>6, <1>8, <1>9, <1>10, <2>1 DEF IInv, Typed, TypeOK
<1>12. HandlesFresh'
  <2>1. \A e \in Debuggers, p \in PointRecords :
           p \in mine'[e] \/ Offered(e, p)' => p \in mine[e] \/ Offered(e, p)
    BY <1>4, <1>10
  <2> QED BY <1>1, <2>1, NoNewHandle DEF IInv
<1> QED BY <1>7, <1>11, <1>12 DEF IInv

-----------------------------------------------------------------------------
(***************************************************************************)
(* What debuggers know of peers and values                                 *)
(***************************************************************************)

\* Peers and values as a debugger knows them.
View(p, v) == [peers |-> p, values |-> v]

\* What a message makes of a view, as Receive does; a debugger that lists points
\* takes in their changes.
PeersRead(w, m) ==
    IF "signal" \in DOMAIN m
    THEN IF m.signal = "PeerChanged" /\ w.peers # None
         THEN [w.peers EXCEPT ![m.name] = m.state]
         ELSE w.peers
    ELSE IF m.reply = "peers" THEN m.peers ELSE w.peers

ValuesRead(lists, w, m) ==
    IF "signal" \in DOMAIN m
    THEN IF m.signal = "PeerChanged" THEN Forgotten(w.values)
         ELSE IF m.signal = "Changed" /\ lists
              THEN [w.values EXCEPT ![m.id] = m.to]
              ELSE w.values
    ELSE IF m.reply = "points" THEN Listed(w.values, m.value) ELSE w.values

Read(lists, w, m) == View(PeersRead(w, m), ValuesRead(lists, w, m))

\* Reading s turns the view w into u.
Leads(lists, w, s, u) ==
    \E views :
        /\ views[0] = w /\ views[Len(s)] = u
        /\ \A k \in 1 .. Len(s) : views[k] = Read(lists, views[k - 1], s[k])

Lists(d) == [do |-> "points"] \in session.uses[d]
Connected(d) == d \in connections /\ link[d] = "open"

\* A view that is not out of date.
Current(lists, u) ==
    /\ u.peers \in {None, peers}
    /\ u.values \in Views
    /\ \A i \in Ids : u.values[i] \in {None, value[i]}
    /\ ~lists => u.values = Nothing

\* What is on the way to a debugger brings its view up to date; one that is not
\* connected knows nothing yet.
ViewsReach ==
    \A d \in Debuggers :
        /\ call[d] = [do |-> "points"] => Lists(d)
        /\ Connected(d) =>
              \E u : /\ Leads(Lists(d), View(seenPeers[d], seen[d]), sent[d], u)
                     /\ Current(Lists(d), u)
        /\ ~Connected(d) =>
              sent[d] = <<>> /\ seenPeers[d] = None /\ seen[d] = Nothing

LEMMA LeadsNowhere ==
    ASSUME NEW l, NEW w
    PROVE  Leads(l, w, <<>>, w) /\ \A u : Leads(l, w, <<>>, u) => u = w
<1>1. Len(<<>>) = 0 /\ 1 .. 0 = {}
  OBVIOUS
<1>2. Leads(l, w, <<>>, w)
  <2> DEFINE views == [k \in {0} |-> w]
  <2>1. views[0] = w
    OBVIOUS
  <2> HIDE DEF views
  <2> QED BY <1>1, <2>1 DEF Leads
<1>3. \A u : Leads(l, w, <<>>, u) => u = w
  BY <1>1 DEF Leads
<1> QED BY <1>2, <1>3

LEMMA LeadsOne ==
    ASSUME NEW l, NEW w, NEW m
    PROVE  Leads(l, w, <<m>>, Read(l, w, m))
<1> DEFINE views == [k \in 0 .. 1 |-> IF k = 0 THEN w ELSE Read(l, w, m)]
<1>1. views[0] = w /\ views[1] = Read(l, w, m)
  OBVIOUS
<1> HIDE DEF views
<1>2. Len(<<m>>) = 1 /\ <<m>>[1] = m
  OBVIOUS
<1>3. \A k \in 1 .. 1 : k = 1 /\ k - 1 = 0
  OBVIOUS
<1> QED BY <1>1, <1>2, <1>3 DEF Leads

LEMMA LeadsOn ==
    ASSUME NEW l, NEW s \in Seq(Messages), NEW t \in Seq(Messages), NEW w, NEW u, NEW x,
           Leads(l, w, s, u), Leads(l, u, t, x)
    PROVE  Leads(l, w, s \o t, x)
<1>1. PICK f : /\ f[0] = w /\ f[Len(s)] = u
               /\ \A k \in 1 .. Len(s) : f[k] = Read(l, f[k - 1], s[k])
  BY DEF Leads
<1>2. PICK g : /\ g[0] = u /\ g[Len(t)] = x
               /\ \A k \in 1 .. Len(t) : g[k] = Read(l, g[k - 1], t[k])
  BY DEF Leads
<1> DEFINE n == Len(s)
           r == s \o t
           views == [k \in 0 .. n + Len(t) |-> IF k <= n THEN f[k] ELSE g[k - n]]
<1>3. /\ n \in Nat /\ Len(t) \in Nat /\ Len(r) = n + Len(t)
      /\ \A k \in 1 .. n + Len(t) : r[k] = IF k <= n THEN s[k] ELSE t[k - n]
  BY ConcatProperties, LenProperties
<1>4. \A k \in 0 .. n + Len(t) : views[k] = IF k <= n THEN f[k] ELSE g[k - n]
  OBVIOUS
<1> HIDE DEF views, r
<1>5. views[0] = w
  BY <1>1, <1>3, <1>4
<1>6. views[Len(r)] = x
  <2>1. CASE Len(t) = 0
    <3>1. Len(r) = n /\ Len(r) \in 0 .. n + Len(t) /\ x = u
      BY <1>2, <1>3, <2>1
    <3> QED BY <1>1, <1>4, <3>1, <1>3
  <2>2. CASE Len(t) # 0
    <3>1. Len(r) \in 0 .. n + Len(t) /\ ~(Len(r) <= n) /\ Len(r) - n = Len(t)
      BY <1>3, <2>2
    <3> QED BY <1>2, <1>4, <3>1
  <2> QED BY <2>1, <2>2
<1>7. ASSUME NEW k \in 1 .. Len(r)
      PROVE  views[k] = Read(l, views[k - 1], r[k])
  <2>1. k \in 0 .. n + Len(t) /\ k - 1 \in 0 .. n + Len(t) /\ k \in 1 .. n + Len(t)
    BY <1>3
  <2>2. CASE k <= n
    <3>1. k \in 1 .. n /\ k - 1 <= n
      BY <1>3, <2>1, <2>2
    <3> QED BY <1>1, <1>3, <1>4, <2>1, <2>2, <3>1
  <2>3. CASE k = n + 1
    <3>1. k - 1 = n /\ k - n = 1 /\ ~(k <= n) /\ 1 \in 1 .. Len(t) /\ 1 - 1 = 0
      BY <1>3, <2>1, <2>3
    <3>2. views[k - 1] = u /\ views[k] = g[1] /\ r[k] = t[1]
      BY <1>1, <1>3, <1>4, <2>1, <3>1
    <3>3. g[1] = Read(l, g[1 - 1], t[1])
      BY <1>2, <3>1
    <3> QED BY <1>2, <3>1, <3>2, <3>3
  <2>4. CASE k > n + 1
    <3>1. /\ ~(k - 1 <= n) /\ ~(k <= n) /\ (k - 1) - n = (k - n) - 1
          /\ k - n \in 1 .. Len(t)
      BY <1>3, <2>1, <2>4
    <3>2. g[k - n] = Read(l, g[(k - n) - 1], t[k - n])
      BY <1>2, <3>1
    <3>3. views[k - 1] = g[(k - n) - 1] /\ views[k] = g[k - n] /\ r[k] = t[k - n]
      BY <1>3, <1>4, <2>1, <3>1
    <3> QED BY <3>2, <3>3
  <2>5. k <= n \/ k = n + 1 \/ k > n + 1
    BY <1>3, <2>1
  <2> QED BY <2>2, <2>3, <2>4, <2>5
<1> QED BY <1>5, <1>6, <1>7 DEF Leads, r

LEMMA LeadsHead ==
    ASSUME NEW l, NEW s \in Seq(Messages), s # <<>>, NEW w, NEW u, Leads(l, w, s, u)
    PROVE  Leads(l, Read(l, w, Head(s)), Tail(s), u)
<1>1. PICK f : /\ f[0] = w /\ f[Len(s)] = u
               /\ \A k \in 1 .. Len(s) : f[k] = Read(l, f[k - 1], s[k])
  BY DEF Leads
<1> DEFINE n == Len(s) - 1
           t == Tail(s)
           views == [k \in 0 .. n |-> f[k + 1]]
<1>2. /\ Len(s) \in Nat \ {0} /\ Head(s) = s[1] /\ Len(t) = n /\ n \in Nat
      /\ \A k \in 1 .. n : t[k] = s[k + 1]
  BY EmptySeq, HeadTailProperties, LenProperties
<1>3. \A k \in 0 .. n : views[k] = f[k + 1]
  OBVIOUS
<1> HIDE DEF views, t
<1>4. views[0] = Read(l, w, Head(s))
  <2>1. 1 \in 1 .. Len(s) /\ 1 - 1 = 0 /\ 0 \in 0 .. n /\ 0 + 1 = 1
    BY <1>2
  <2>2. f[1] = Read(l, f[1 - 1], s[1])
    BY <1>1, <2>1
  <2> QED BY <1>1, <1>2, <1>3, <2>1, <2>2
<1>5. views[Len(t)] = u
  <2>1. n \in 0 .. n /\ n + 1 = Len(s)
    BY <1>2
  <2> QED BY <1>1, <1>2, <1>3, <2>1
<1>6. ASSUME NEW k \in 1 .. Len(t)
      PROVE  views[k] = Read(l, views[k - 1], t[k])
  <2>1. /\ k \in 1 .. n /\ k \in 0 .. n /\ k - 1 \in 0 .. n /\ k + 1 \in 1 .. Len(s)
        /\ (k - 1) + 1 = (k + 1) - 1
    BY <1>2
  <2>2. f[k + 1] = Read(l, f[(k + 1) - 1], s[k + 1])
    BY <1>1, <2>1
  <2>3. views[k] = f[k + 1] /\ views[k - 1] = f[(k + 1) - 1] /\ t[k] = s[k + 1]
    BY <1>2, <1>3, <2>1
  <2> QED BY <2>2, <2>3
<1> QED BY <1>4, <1>5, <1>6 DEF Leads, t

\* What messages make of a view that is not out of date.
LEMMA PeerNewsRead ==
    ASSUME IInv, NEW l, NEW u, Current(l, u), NEW n \in Names, NEW to \in States,
           peers' = [peers EXCEPT ![n] = to],
           \A x \in Vars : value'[x] = value[x]
    PROVE  Current(l, Read(l, u, PeerChanged(n, to)))'
<1> DEFINE m == PeerChanged(n, to)
           x == Read(l, u, m)
<1>1. "signal" \in DOMAIN m /\ m.signal = "PeerChanged" /\ m.name = n /\ m.state = to
  BY DEF PeerChanged
<1> HIDE DEF m
<1>2. x.peers = PeersRead(u, m) /\ x.values = ValuesRead(l, u, m)
  BY DEF Read, View
<1> HIDE DEF x
<1>3. x.values = Forgotten(u.values)
  BY <1>1, <1>2 DEF ValuesRead
<1>4. x.peers \in {None, peers'}
  BY <1>1, <1>2 DEF PeersRead, Current
<1>5. x.values \in Views
  BY <1>3 DEF Current, Forgotten, Views
<1>6. \A i \in Ids : x.values[i] \in {None, value'[i]}
  BY <1>3 DEF Current, Forgotten, Ids
<1>7. ~l => x.values = Nothing
  BY <1>3 DEF Current, Forgotten, Nothing
<1> QED BY <1>4, <1>5, <1>6, <1>7 DEF Current, x, m

LEMMA ChangeRead ==
    ASSUME IInv, NEW l \in BOOLEAN, NEW u, Current(l, u), NEW i \in Ids, NEW v \in Values,
           Changed(i, v), peers' = peers
    PROVE  \E x : Leads(l, u, Signals(i, v), x) /\ Current(l, x)'
<1> DEFINE m == PointChanged(i, v)
           x == Read(l, u, m)
<1>1. "signal" \in DOMAIN m /\ m.signal = "Changed" /\ m.id = i /\ m.to = v
  BY DEF PointChanged
<1>2. m \in SignalMessages
  BY DEF PointChanged, SignalMessages
<1> HIDE DEF m
<1>3. x.peers = PeersRead(u, m) /\ x.values = ValuesRead(l, u, m) /\ x = View(x.peers, x.values)
  BY DEF Read, View
<1> HIDE DEF x
<1>4. x.peers = u.peers /\ x.values = IF l THEN [u.values EXCEPT ![i] = v] ELSE u.values
  BY <1>1, <1>3 DEF PeersRead, ValuesRead
<1>5. Current(l, x)'
  <2>1. value \in Views /\ value' = [value EXCEPT ![i] = v]
    BY DEF IInv, Typed, TypeOK, Changed
  <2>2. CASE l
    <3>1. x.values \in Views /\ \A j \in Ids : x.values[j] \in {None, value'[j]}
      BY <1>4, <2>1, <2>2 DEF Current, Views
    <3> QED BY <1>4, <2>2, <3>1 DEF Current
  <2>3. CASE ~l
    <3>1. x.values = Nothing /\ \A j \in Ids : Nothing[j] = None
      BY <1>4, <2>3 DEF Current, Nothing
    <3> QED BY <1>4, <2>3, <3>1 DEF Current
  <2> QED BY <2>2, <2>3
<1>6. Leads(l, u, <<m>>, x)
  BY LeadsOne DEF x
<1>7. Leads(l, x, Intercept(i), x)
  <2>1. CASE Stops(i)
    <3>1. "signal" \in DOMAIN Stopped /\ Stopped.signal = "Stopped"
      BY DEF Stopped
    <3>2. PeersRead(x, Stopped) = x.peers /\ ValuesRead(l, x, Stopped) = x.values
      BY <3>1 DEF PeersRead, ValuesRead
    <3>3. Read(l, x, Stopped) = x
      BY <1>3, <3>2 DEF Read
    <3>4. Leads(l, x, <<Stopped>>, Read(l, x, Stopped))
      BY LeadsOne
    <3> QED BY <2>1, <3>3, <3>4 DEF Intercept
  <2>2. CASE ~Stops(i)
    BY <2>2, LeadsNowhere DEF Intercept
  <2> QED BY <2>1, <2>2
<1>8. <<m>> \in Seq(Messages) /\ Intercept(i) \in Seq(Messages)
  <2>1. m \in Messages /\ Stopped \in Messages
    BY <1>2 DEF Messages, SignalMessages
  <2> QED BY <2>1 DEF Intercept
<1>9. Leads(l, u, <<m>> \o Intercept(i), x)
  BY <1>6, <1>7, <1>8, LeadsOn
<1> QED BY <1>5, <1>9 DEF Signals, m

\* A reply that lists nothing leaves a view as it is.
LEMMA PlainRead ==
    ASSUME NEW l, NEW u, Current(l, u), NEW m \in ReplyMessages,
           m.reply \notin {"peers", "points"}
    PROVE  Current(l, Read(l, u, m))
<1>1. "signal" \notin DOMAIN m
  BY MessageKinds
<1>2. PeersRead(u, m) = u.peers /\ ValuesRead(l, u, m) = u.values
  BY <1>1 DEF PeersRead, ValuesRead
<1>3. Read(l, u, m).peers = u.peers /\ Read(l, u, m).values = u.values
  BY <1>2 DEF Read, View
<1> QED BY <1>3 DEF Current

\* A list is what the Core has.
LEMMA ListRead ==
    ASSUME IInv, NEW l, NEW u, Current(l, u)
    PROVE  /\ Current(l, Read(l, u, [reply |-> "peers", peers |-> peers]))
           /\ l => Current(l, Read(l, u, [reply |-> "points", value |-> value]))
<1>1. ASSUME NEW m, m = [reply |-> "peers", peers |-> peers]
      PROVE  Current(l, Read(l, u, m))
  <2>1. "signal" \notin DOMAIN m /\ m.reply = "peers" /\ m.peers = peers
    BY <1>1
  <2>2. PeersRead(u, m) = peers /\ ValuesRead(l, u, m) = u.values
    BY <2>1 DEF PeersRead, ValuesRead
  <2>3. Read(l, u, m).peers = peers /\ Read(l, u, m).values = u.values
    BY <2>2 DEF Read, View
  <2> QED BY <2>3 DEF Current
<1>2. ASSUME NEW m, m = [reply |-> "points", value |-> value], l
      PROVE  Current(l, Read(l, u, m))
  <2>1. "signal" \notin DOMAIN m /\ m.reply = "points" /\ m.value = value
    BY <1>2
  <2>2. PeersRead(u, m) = u.peers /\ ValuesRead(l, u, m) = Listed(u.values, value)
    BY <2>1 DEF PeersRead, ValuesRead
  <2>3. Read(l, u, m).peers = u.peers /\ Read(l, u, m).values = Listed(u.values, value)
    BY <2>2 DEF Read, View
  <2>4. value \in Views
    BY DEF IInv, Typed, TypeOK
  <2>5. /\ Listed(u.values, value) \in Views
        /\ \A i \in Ids : Listed(u.values, value)[i] \in {None, value[i]}
    BY <2>4 DEF Current, Listed, Views
  <2> QED BY <1>2, <2>3, <2>5 DEF Current
<1> QED BY <1>1, <1>2

\* Whom messages reach keeps a view that will be up to date if they make it so.
LEMMA ViewsSent ==
    ASSUME IInv, ViewsReach, NEW extra \in [Debuggers -> Seq(Messages)],
           sent' = [d \in Debuggers |-> sent[d] \o extra[d]],
           UNCHANGED <<session, connections, link, seenPeers, seen>>,
           \A d \in Debuggers :
              /\ call'[d] \in {call[d], None}
              /\ ~Connected(d) => extra[d] = <<>>
              /\ \A l, u : l = Lists(d) /\ Connected(d) /\ Current(l, u) =>
                    \E x : Leads(l, u, extra[d], x) /\ Current(l, x)'
    PROVE  ViewsReach'
<1> SUFFICES ASSUME NEW d \in Debuggers, NEW l, l = Lists(d)
             PROVE  /\ call'[d] = [do |-> "points"] => l
                    /\ Connected(d) =>
                          \E x : /\ Leads(l, View(seenPeers[d], seen[d]), sent'[d], x)
                                 /\ Current(l, x)'
                    /\ ~Connected(d) =>
                          sent'[d] = <<>> /\ seenPeers[d] = None /\ seen[d] = Nothing
  <2>1. \A d \in Debuggers : Lists(d)' = Lists(d) /\ (Connected(d)' <=> Connected(d))
    BY DEF Lists, Connected
  <2> QED BY <2>1 DEF ViewsReach, Current
<1>1. sent[d] \in Seq(Messages) /\ extra[d] \in Seq(Messages) /\ sent'[d] = sent[d] \o extra[d]
  BY DEF IInv, Typed
<1>2. call'[d] = [do |-> "points"] => l
  <2>1. [do |-> "points"] # None
    BY DebugServerAssumption DEF Calls
  <2> QED BY <2>1 DEF ViewsReach
<1>3. ASSUME Connected(d)
      PROVE  \E x : /\ Leads(l, View(seenPeers[d], seen[d]), sent'[d], x)
                    /\ Current(l, x)'
  <2>1. PICK u : /\ Leads(l, View(seenPeers[d], seen[d]), sent[d], u)
                 /\ Current(l, u)
    BY <1>3 DEF ViewsReach
  <2>2. PICK x : Leads(l, u, extra[d], x) /\ Current(l, x)'
    BY <1>3, <2>1
  <2>3. Leads(l, View(seenPeers[d], seen[d]), sent[d] \o extra[d], x)
    BY <1>1, <2>1, <2>2, LeadsOn
  <2> QED BY <1>1, <2>2, <2>3
<1>4. ASSUME ~Connected(d)
      PROVE  sent'[d] = <<>> /\ seenPeers[d] = None /\ seen[d] = Nothing
  BY <1>1, <1>4 DEF ViewsReach
<1> QED BY <1>2, <1>3, <1>4

\* Messages that are sent to all.
LEMMA BroadcastViews ==
    ASSUME IInv, ViewsReach, NEW signals \in Seq(SignalMessages), Broadcast(signals),
           UNCHANGED <<session, connections, link, call, seenPeers, seen>>,
           \A l \in BOOLEAN : \A u : Current(l, u) =>
              \E x : Leads(l, u, signals, x) /\ Current(l, x)'
    PROVE  ViewsReach'
<1> DEFINE extra == [d \in Debuggers |-> Told(d, signals)]
<1>1. extra \in [Debuggers -> Seq(Messages)]
  BY SignalsTold
<1>2. sent' = [d \in Debuggers |-> sent[d] \o extra[d]]
  BY DEF Broadcast
<1>3. \A d \in Debuggers : extra[d] = IF Connected(d) THEN signals ELSE <<>>
  BY DEF Told, Connected
<1>4. \A d \in Debuggers : Lists(d) \in BOOLEAN
  BY DEF Lists
<1> HIDE DEF extra
<1>5. ASSUME NEW d \in Debuggers, NEW l, NEW u, l = Lists(d), Connected(d), Current(l, u)
      PROVE  \E x : Leads(l, u, extra[d], x) /\ Current(l, x)'
  BY <1>3, <1>4, <1>5
<1>6. \A d \in Debuggers : call'[d] \in {call[d], None}
  OBVIOUS
<1> QED BY <1>1, <1>2, <1>3, <1>5, <1>6, ViewsSent

LEMMA PeersViews ==
    ASSUME IInv, ViewsReach, NEW n \in Names,
           PeerConnecting(n) \/ PeerReady(n) \/ PeerFailed(n) \/ PeerRemoved(n)
    PROVE  ViewsReach'
<1>1. PICK to \in States : /\ peers' = [peers EXCEPT ![n] = to]
                           /\ Broadcast(<<PeerChanged(n, to)>>)
                           /\ UNCHANGED <<session, connections, link, call, debugger>>
  BY DEF PeerConnecting, PeerReady, PeerFailed, PeerRemoved, PeerEvent, News, States
<1>2. \A x \in Vars : value'[x] = value[x]
  <2>1. \A x \in Vars : x \in Ids /\ x \notin Points
    BY DebugServerAssumption DEF Ids
  <2> QED BY <2>1 DEF PeerConnecting, PeerReady, PeerFailed, PeerRemoved, Withdrawn
<1>3. <<PeerChanged(n, to)>> \in Seq(SignalMessages)
  <2>1. PeerChanged(n, to) \in SignalMessages
    BY DEF PeerChanged, SignalMessages
  <2> QED BY <2>1
<1>4. ASSUME NEW l \in BOOLEAN, NEW u, Current(l, u)
      PROVE  \E x : Leads(l, u, <<PeerChanged(n, to)>>, x) /\ Current(l, x)'
  <2>1. Current(l, Read(l, u, PeerChanged(n, to)))'
    BY <1>1, <1>2, <1>4, PeerNewsRead
  <2> QED BY <2>1, LeadsOne
<1> QED BY <1>1, <1>3, <1>4, BroadcastViews DEF debugger

LEMMA NewsViews ==
    ASSUME IInv, ViewsReach, NEW i \in Ids, PointNews(i) \/ VarNews(i)
    PROVE  ViewsReach'
<1>1. PICK v \in Values : /\ News /\ Changed(i, v) /\ Broadcast(Signals(i, v))
                          /\ UNCHANGED <<session, peers>>
  BY DEF PointNews, VarNews
<1>2. UNCHANGED <<session, connections, link, call, seenPeers, seen>>
  BY <1>1 DEF News, debugger
<1>3. Signals(i, v) \in Seq(SignalMessages)
  BY SignalsOfChange
<1>4. \A l \in BOOLEAN : \A u : Current(l, u) =>
         \E x : Leads(l, u, Signals(i, v), x) /\ Current(l, x)'
  BY <1>1, ChangeRead
<1> QED BY <1>1, <1>2, <1>3, <1>4, BroadcastViews

\* The signals of a call, then its reply.
LEMMA ServeViews ==
    ASSUME IInv, ViewsReach, NEW d \in Debuggers, NEW do, Serves(d, do),
           NEW signals \in Seq(SignalMessages), NEW reply \in ReplyMessages,
           BroadcastAndReply(signals, d, reply),
           \A l \in BOOLEAN : \A u : Current(l, u) =>
              \E x : Leads(l, u, signals, x) /\ Current(l, x)',
           \A l, u : l = Lists(d) /\ Current(l, u)' => Current(l, Read(l, u, reply))'
    PROVE  ViewsReach'
<1> DEFINE extra == [e \in Debuggers |-> Answer(d, e, signals, reply)]
<1>1. extra \in [Debuggers -> Seq(Messages)]
  BY AnswerContents
<1>2. sent' = [e \in Debuggers |-> sent[e] \o extra[e]]
  <2>1. sent' = [e \in Debuggers |-> sent[e] \o Answer(d, e, signals, reply)]
    BY AnswerSent
  <2> QED BY <2>1
<1>3. \A e \in Debuggers : extra[e] = Told(e, signals) \o Last(d, e, reply)
  BY DEF Answer
<1> HIDE DEF extra
<1>4. /\ UNCHANGED <<session, connections, link, seenPeers, seen>>
      /\ \A e \in Debuggers : call'[e] \in {call[e], None}
      /\ d \in connections /\ link[d] = "open"
  BY DEF Serves, debugger, IInv, Typed, TypeOK
<1>5. ASSUME NEW e \in Debuggers, ~Connected(e)
      PROVE  extra[e] = <<>>
  <2>1. Told(e, signals) = <<>> /\ Last(d, e, reply) = <<>>
    BY <1>4, <1>5 DEF Told, Last, Connected
  <2>2. <<>> \o <<>> = <<>>
    OBVIOUS
  <2> QED BY <1>3, <2>1, <2>2
<1>6. ASSUME NEW e \in Debuggers, NEW l, NEW u, l = Lists(e), Connected(e), Current(l, u)
      PROVE  \E x : Leads(l, u, extra[e], x) /\ Current(l, x)'
  <2>1. l \in BOOLEAN
    BY <1>6 DEF Lists
  <2>2. PICK x : Leads(l, u, signals, x) /\ Current(l, x)'
    BY <1>6, <2>1
  <2>3. Told(e, signals) = signals /\ link[e] = "open"
    BY <1>6 DEF Told, Connected
  <2>4. Told(e, signals) \in Seq(Messages) /\ Last(d, e, reply) \in Seq(Messages)
    BY AnswerContents
  <2>5. CASE e = d
    <3>1. Last(d, e, reply) = <<reply>>
      BY <2>3, <2>5 DEF Last
    <3>2. Leads(l, x, Last(d, e, reply), Read(l, x, reply))
      BY <3>1, LeadsOne
    <3>3. Leads(l, u, extra[e], Read(l, x, reply))
      BY <1>3, <2>2, <2>3, <2>4, <3>2, LeadsOn
    <3>4. Current(l, Read(l, x, reply))'
      BY <1>6, <2>2, <2>5
    <3> QED BY <3>3, <3>4
  <2>6. CASE e # d
    <3>1. Leads(l, x, Last(d, e, reply), x)
      BY <2>6, LeadsNowhere DEF Last
    <3>2. Leads(l, u, extra[e], x)
      BY <1>3, <2>2, <2>3, <2>4, <3>1, LeadsOn
    <3> QED BY <2>2, <3>2
  <2> QED BY <2>5, <2>6
<1> QED BY <1>1, <1>2, <1>4, <1>5, <1>6, ViewsSent

\* A call that changes neither peers nor values.
LEMMA QuietServeViews ==
    ASSUME IInv, ViewsReach, NEW d \in Debuggers, NEW do, Serves(d, do),
           NEW reply \in ReplyMessages, BroadcastAndReply(<<>>, d, reply),
           UNCHANGED <<peers, value>>,
           \A l, u : l = Lists(d) /\ Current(l, u) => Current(l, Read(l, u, reply))
    PROVE  ViewsReach'
<1> DEFINE silence == <<>>
<1>1. silence \in Seq(SignalMessages) /\ BroadcastAndReply(silence, d, reply)
  OBVIOUS
<1>2. \A l, u : Leads(l, u, silence, u)
  BY LeadsNowhere
<1> HIDE DEF silence
<1>3. \A l \in BOOLEAN : \A u : Current(l, u) =>
         \E x : Leads(l, u, silence, x) /\ Current(l, x)'
  <2>1. \A l \in BOOLEAN : \A u : Current(l, u) => Current(l, u)'
    BY DEF Current
  <2> QED BY <1>2, <2>1
<1>4. \A l, u : l = Lists(d) /\ Current(l, u)' => Current(l, Read(l, u, reply))'
  <2>1. \A l, u : Current(l, u)' <=> Current(l, u)
    BY DEF Current
  <2>2. \A l, u : Current(l, Read(l, u, reply)) => Current(l, Read(l, u, reply))'
    BY DEF Current
  <2> QED BY <2>1, <2>2
<1> QED BY <1>1, <1>3, <1>4, ServeViews

\* A call for the points has no arguments.
LEMMA PointsCall ==
    ASSUME NEW c \in Calls, c.do = "points"
    PROVE  c = [do |-> "points"]
  BY DEF Calls

\* Every method but ListPoints and SetInput.
LEMMA PlainMethodViews ==
    ASSUME IInv, ViewsReach, NEW d \in Debuggers,
           GetStatus(d) \/ AddPoint(d) \/ RemovePoint(d) \/ Continue(d)
    PROVE  ViewsReach'
<1>1. /\ paused \in BOOLEAN /\ points \in [Kinds -> [Handles -> Ids \cup {None}]]
  BY DEF IInv, Typed, TypeOK
<1>2. PICK do \in {"status", "add", "remove", "continue"}, reply \in ReplyMessages :
         /\ Serves(d, do) /\ BroadcastAndReply(<<>>, d, reply) /\ value' = value
         /\ reply.reply \notin {"peers", "points"}
  <2>1. CASE GetStatus(d)
    <3> DEFINE reply == [reply |-> "status", paused |-> paused]
    <3>1. reply \in ReplyMessages /\ reply.reply \notin {"peers", "points"}
      BY <1>1 DEF ReplyMessages
    <3> QED BY <2>1, <3>1 DEF GetStatus, Reply
  <2>2. CASE AddPoint(d)
    <3> DEFINE c == call[d]
               reply == [reply |-> "added", point |-> Point(c.kind, Handle, c.id)]
    <3>1. Serves(d, "add") /\ BroadcastAndReply(<<>>, d, reply) /\ value' = value
      BY <2>2 DEF AddPoint, Reply
    <3>2. Point(c.kind, Handle, c.id) \in PointRecords
      BY <3>1, ServedCall, CallFields, HandleFacts DEF Point, PointRecords
    <3>3. reply \in ReplyMessages /\ reply.reply \notin {"peers", "points"}
      BY <3>2 DEF ReplyMessages
    <3> QED BY <3>1, <3>3
  <2>3. CASE RemovePoint(d)
    <3> DEFINE c == call[d]
               known == c.handle # 0 /\ points[c.kind][c.handle] # None
               reply == [reply |-> "removed", known |-> known,
                         kind |-> c.kind, handle |-> c.handle]
    <3>1. Serves(d, "remove") /\ BroadcastAndReply(<<>>, d, reply) /\ value' = value
      BY <2>3 DEF RemovePoint, Reply
    <3>2. c.kind \in Kinds /\ c.handle \in 0 .. HandleMod - 1 /\ known \in BOOLEAN
      BY <3>1, ServedCall, CallFields
    <3> HIDE DEF known
    <3>3. reply \in ReplyMessages /\ reply.reply \notin {"peers", "points"}
      BY <3>2 DEF ReplyMessages
    <3> QED BY <3>1, <3>3
  <2>4. CASE Continue(d)
    <3> DEFINE reply == [reply |-> "continued"]
    <3>1. reply \in ReplyMessages /\ reply.reply \notin {"peers", "points"}
      BY DEF ReplyMessages
    <3> QED BY <2>4, <3>1 DEF Continue, Reply
  <2> QED BY <2>1, <2>2, <2>3, <2>4
<1>3. peers' = peers
  BY <1>2 DEF Serves
<1>4. \A l, u : l = Lists(d) /\ Current(l, u) => Current(l, Read(l, u, reply))
  BY <1>2, PlainRead
<1> QED BY <1>2, <1>3, <1>4, QuietServeViews

LEMMA ListViews ==
    ASSUME IInv, ViewsReach, NEW d \in Debuggers, ListPeers(d) \/ ListPoints(d)
    PROVE  ViewsReach'
<1>1. value \in Views /\ peers \in [Names -> States]
  BY DEF IInv, Typed, TypeOK
<1>2. CASE ListPeers(d)
  <2> DEFINE reply == [reply |-> "peers", peers |-> peers]
  <2>1. reply \in ReplyMessages
    BY <1>1 DEF ReplyMessages
  <2>2. /\ Serves(d, "peers") /\ BroadcastAndReply(<<>>, d, reply)
        /\ UNCHANGED <<peers, value>>
    BY <1>2 DEF ListPeers, Reply, Serves
  <2>3. \A l, u : l = Lists(d) /\ Current(l, u) => Current(l, Read(l, u, reply))
    BY ListRead
  <2> HIDE DEF reply
  <2> QED BY <2>1, <2>2, <2>3, QuietServeViews
<1>3. CASE ListPoints(d)
  <2> DEFINE reply == [reply |-> "points", value |-> value]
  <2>1. reply \in ReplyMessages
    BY <1>1 DEF ReplyMessages
  <2>2. /\ Serves(d, "points") /\ BroadcastAndReply(<<>>, d, reply)
        /\ UNCHANGED <<peers, value>>
    BY <1>3 DEF ListPoints, Reply, Serves
  <2>3. Lists(d)
    <3>1. call[d] \in Calls /\ call[d].do = "points"
      BY <2>2, ServedCall
    <3> QED BY <3>1, PointsCall DEF ViewsReach
  <2>4. \A l, u : l = Lists(d) /\ Current(l, u) => Current(l, Read(l, u, reply))
    BY <2>3, ListRead
  <2> HIDE DEF reply
  <2> QED BY <2>1, <2>2, <2>4, QuietServeViews
<1> QED BY <1>2, <1>3

LEMMA SetInputViews ==
    ASSUME IInv, ViewsReach, NEW d \in Debuggers, SetInput(d)
    PROVE  ViewsReach'
<1> DEFINE c == call[d]
           reply == [reply |-> "set"]
<1>1. Serves(d, "set") /\ peers' = peers
  BY DEF SetInput, Serves
<1>2. c.id \in Ids /\ c.to \in Values
  BY <1>1, ServedCall, CallFields DEF Ids
<1>3. \/ BroadcastAndReply(<<>>, d, reply) /\ value' = value
      \/ Changed(c.id, c.to) /\ BroadcastAndReply(Signals(c.id, c.to), d, reply)
  BY DEF SetInput, Reply
<1>4. reply \in ReplyMessages /\ reply.reply \notin {"peers", "points"}
  BY DEF ReplyMessages
<1> HIDE DEF reply, c
<1>5. \A l, u : Current(l, u) => Current(l, Read(l, u, reply))
  BY <1>4, PlainRead
<1>6. CASE BroadcastAndReply(<<>>, d, reply) /\ value' = value
  BY <1>1, <1>4, <1>5, <1>6, QuietServeViews
<1>7. CASE Changed(c.id, c.to) /\ BroadcastAndReply(Signals(c.id, c.to), d, reply)
  <2>1. Signals(c.id, c.to) \in Seq(SignalMessages)
    BY <1>2, SignalsOfChange
  <2>2. \A l \in BOOLEAN : \A u : Current(l, u) =>
           \E x : Leads(l, u, Signals(c.id, c.to), x) /\ Current(l, x)'
    BY <1>1, <1>2, <1>7, ChangeRead
  <2>3. \A l, u : l = Lists(d) /\ Current(l, u)' => Current(l, Read(l, u, reply))'
    <3>1. "signal" \notin DOMAIN reply
      BY <1>4, MessageKinds
    <3>2. \A l, u : Read(l, u, reply).peers = u.peers /\ Read(l, u, reply).values = u.values
      BY <1>4, <3>1 DEF Read, View, PeersRead, ValuesRead
    <3> QED BY <3>2 DEF Current
  <2> QED BY <1>1, <1>4, <1>7, <2>1, <2>2, <2>3, ServeViews
<1> QED BY <1>3, <1>6, <1>7

\* Steps that send and read nothing: whoever connects knows nothing yet.
LEMMA SilentViews ==
    ASSUME IInv, ViewsReach,
           UNCHANGED <<session, peers, value, sent, seenPeers, seen>>,
           \A d \in Debuggers :
              /\ call'[d] = [do |-> "points"] => call[d] = [do |-> "points"] \/ Lists(d)
              /\ Connected(d) => Connected(d)'
    PROVE  ViewsReach'
<1> SUFFICES ASSUME NEW d \in Debuggers, NEW l, l = Lists(d)
             PROVE  /\ call'[d] = [do |-> "points"] => l
                    /\ Connected(d)' =>
                          \E u : /\ Leads(l, View(seenPeers[d], seen[d]), sent[d], u)
                                 /\ Current(l, u)
                    /\ ~Connected(d)' =>
                          sent[d] = <<>> /\ seenPeers[d] = None /\ seen[d] = Nothing
  <2>1. \A d \in Debuggers : Lists(d)' = Lists(d)
    BY DEF Lists
  <2>2. \A l, u : Current(l, u)' <=> Current(l, u)
    BY DEF Current
  <2> QED BY <2>1, <2>2 DEF ViewsReach
<1>1. call'[d] = [do |-> "points"] => l
  BY DEF ViewsReach
<1>2. CASE Connected(d)
  BY <1>1, <1>2 DEF ViewsReach
<1>3. CASE ~Connected(d)
  <2>1. sent[d] = <<>> /\ seenPeers[d] = None /\ seen[d] = Nothing
    BY <1>3 DEF ViewsReach
  <2> DEFINE u == View(None, Nothing)
  <2>2. Leads(l, View(seenPeers[d], seen[d]), sent[d], u)
    BY <2>1, LeadsNowhere
  <2>3. Current(l, u)
    <3>1. u.peers = None /\ u.values = Nothing
      BY DEF View
    <3>2. Nothing \in Views /\ \A i \in Ids : Nothing[i] = None
      BY DEF Nothing, Views
    <3> QED BY <3>1, <3>2 DEF Current
  <2> QED BY <1>1, <2>1, <2>2, <2>3
<1> QED BY <1>2, <1>3

LEMMA LinkViews ==
    ASSUME IInv, ViewsReach, NEW d \in Debuggers,
           OnNewConnection(d) \/ OnClosed(d) \/ Attach(d)
    PROVE  ViewsReach'
<1>1. UNCHANGED <<session, peers, value, sent, seenPeers, seen>>
  BY DEF OnNewConnection, OnClosed, Attach, core, debugger
<1>2. ASSUME NEW e \in Debuggers, Connected(e)
      PROVE  Connected(e)'
  BY <1>2 DEF OnNewConnection, OnClosed, Attach, Connected, IInv, Typed, TypeOK
<1>3. ASSUME NEW e \in Debuggers, call'[e] = [do |-> "points"]
      PROVE  call[e] = [do |-> "points"]
  <2>1. call' = call \/ call' = [call EXCEPT ![d] = [do |-> "status"]]
    BY DEF OnNewConnection, OnClosed, Attach
  <2>2. call \in [Debuggers -> Calls \cup {None}]
    BY DEF IInv, Typed, TypeOK
  <2>3. [do |-> "points"].do # [do |-> "status"].do
    OBVIOUS
  <2>4. [do |-> "points"] # [do |-> "status"]
    BY <2>3
  <2> QED BY <1>3, <2>1, <2>2, <2>4
<1> QED BY <1>1, <1>2, <1>3, SilentViews

LEMMA AskViews ==
    ASSUME IInv, ViewsReach, NEW d \in Debuggers, Ask(d) \/ LetGo(d)
    PROVE  ViewsReach'
<1>1. PICK c : Asks(d, c) /\ (c \in session.uses[d] \/ c = [do |-> "continue"])
  BY DEF Ask, LetGo
<1>2. /\ UNCHANGED <<session, peers, value, sent, seenPeers, seen, connections, link>>
      /\ call' = [call EXCEPT ![d] = c] /\ call \in [Debuggers -> Calls \cup {None}]
  BY <1>1 DEF Asks, core, debugger, IInv, Typed, TypeOK
<1>3. \A e \in Debuggers : Connected(e) => Connected(e)'
  BY <1>2 DEF Connected
<1>4. ASSUME NEW e \in Debuggers, call'[e] = [do |-> "points"]
      PROVE  call[e] = [do |-> "points"] \/ Lists(e)
  <2>1. CASE e = d
    <3>1. c = [do |-> "points"]
      BY <1>2, <1>4, <2>1
    <3>2. c.do = "points"
      BY <3>1
    <3> QED BY <1>1, <2>1, <3>1, <3>2 DEF Lists
  <2>2. CASE e # d
    BY <1>2, <1>4, <2>2
  <2> QED BY <2>1, <2>2
<1> QED BY <1>2, <1>3, <1>4, SilentViews

\* One debugger's step leaves what the others know.
LEMMA OthersView ==
    ASSUME IInv, ViewsReach, NEW d \in Debuggers,
           UNCHANGED <<session, peers, value, connections>>,
           \A e \in Debuggers : e # d =>
              /\ link'[e] = link[e] /\ call'[e] = call[e] /\ sent'[e] = sent[e]
              /\ seenPeers'[e] = seenPeers[e] /\ seen'[e] = seen[e],
           call'[d] = [do |-> "points"] => call[d] = [do |-> "points"],
           \A l : l = Lists(d) /\ Connected(d)' =>
              \E u : /\ Leads(l, View(seenPeers'[d], seen'[d]), sent'[d], u)
                     /\ Current(l, u),
           ~Connected(d)' => /\ sent'[d] = <<>>
                             /\ seenPeers'[d] = None
                             /\ seen'[d] = Nothing
    PROVE  ViewsReach'
<1> SUFFICES ASSUME NEW e \in Debuggers, NEW l, l = Lists(e)
             PROVE  /\ call'[e] = [do |-> "points"] => l
                    /\ Connected(e)' =>
                          \E u : /\ Leads(l, View(seenPeers'[e], seen'[e]), sent'[e], u)
                                 /\ Current(l, u)
                    /\ ~Connected(e)' => /\ sent'[e] = <<>>
                                         /\ seenPeers'[e] = None
                                         /\ seen'[e] = Nothing
  <2>1. \A e \in Debuggers : Lists(e)' = Lists(e)
    BY DEF Lists
  <2>2. \A l, u : Current(l, u)' <=> Current(l, u)
    BY DEF Current
  <2> QED BY <2>1, <2>2 DEF ViewsReach
<1>1. CASE e = d
  BY <1>1 DEF ViewsReach
<1>2. CASE e # d
  <2>1. Connected(e)' <=> Connected(e)
    BY <1>2 DEF Connected
  <2> QED BY <1>2, <2>1 DEF ViewsReach
<1> QED BY <1>1, <1>2

LEMMA VanishViews ==
    ASSUME IInv, ViewsReach, NEW d \in Debuggers, Vanish(d)
    PROVE  ViewsReach'
<1>1. UNCHANGED <<session, peers, value, connections>>
  BY DEF Vanish, core
<1>2. /\ link' = [link EXCEPT ![d] = "vanished"] /\ call' = [call EXCEPT ![d] = None]
      /\ sent' = [sent EXCEPT ![d] = <<>>]
      /\ seenPeers' = [seenPeers EXCEPT ![d] = None]
      /\ seen' = [seen EXCEPT ![d] = Nothing]
  BY DEF Vanish
<1>3. /\ link \in [Debuggers -> {"closed", "open", "vanished"}]
      /\ call \in [Debuggers -> Calls \cup {None}]
      /\ sent \in [Debuggers -> Seq(Messages)]
      /\ seenPeers \in [Debuggers -> [Names -> States] \cup {None}]
      /\ seen \in [Debuggers -> Views]
  BY DEF IInv, Typed, TypeOK
<1>4. /\ link'[d] = "vanished" /\ call'[d] = None /\ sent'[d] = <<>>
      /\ seenPeers'[d] = None /\ seen'[d] = Nothing
      /\ \A e \in Debuggers : e # d =>
            /\ link'[e] = link[e] /\ call'[e] = call[e] /\ sent'[e] = sent[e]
            /\ seenPeers'[e] = seenPeers[e] /\ seen'[e] = seen[e]
  BY <1>2, <1>3
<1>5. ~Connected(d)'
  BY <1>4 DEF Connected
<1>6. None # [do |-> "points"]
  BY DebugServerAssumption DEF Calls
<1> QED BY <1>1, <1>4, <1>5, <1>6, OthersView

LEMMA ReceiveViews ==
    ASSUME IInv, ViewsReach, NEW d \in Debuggers, Receive(d)
    PROVE  ViewsReach'
<1> DEFINE m == Head(sent[d])
           w == View(seenPeers[d], seen[d])
<1>1. /\ UNCHANGED <<session, peers, value, connections, link, call>>
      /\ sent[d] # <<>> /\ sent' = [sent EXCEPT ![d] = Tail(@)]
  BY DEF Receive, ReceiveSignal, ReceiveReply, core
<1>2. /\ sent[d] \in Seq(Messages) /\ sent'[d] = Tail(sent[d])
      /\ \A e \in Debuggers : e # d => sent'[e] = sent[e]
      /\ m \in Messages
  BY <1>1, Reading
<1>3. /\ seenPeers \in [Debuggers -> [Names -> States] \cup {None}]
      /\ seen \in [Debuggers -> Views]
  BY DEF IInv, Typed, TypeOK
<1>4. w.peers = seenPeers[d] /\ w.values = seen[d]
  BY DEF View
<1>5. \A e \in Debuggers : e # d => seenPeers'[e] = seenPeers[e] /\ seen'[e] = seen[e]
  BY <1>3 DEF Receive, ReceiveSignal, ReceiveReply
<1>6. /\ seenPeers'[d] = PeersRead(w, m)
      /\ \A l : l = Lists(d) => seen'[d] = ValuesRead(l, w, m)
  <2>1. CASE ReceiveSignal(d)
    <3>1. /\ "signal" \in DOMAIN m
          /\ seenPeers' = IF m.signal = "PeerChanged" /\ seenPeers[d] # None
                          THEN [seenPeers EXCEPT ![d][m.name] = m.state]
                          ELSE seenPeers
          /\ seen' = CASE m.signal = "PeerChanged" ->
                               [seen EXCEPT ![d] = Forgotten(@)]
                       [] m.signal = "Changed" /\ Lists(d) ->
                               [seen EXCEPT ![d][m.id] = m.to]
                       [] OTHER -> seen
      BY <2>1 DEF ReceiveSignal, Lists
    <3> HIDE DEF m, w
    <3>2. seenPeers'[d] = PeersRead(w, m)
      BY <1>3, <1>4, <3>1 DEF PeersRead
    <3>3. ASSUME NEW l, l = Lists(d)
          PROVE  seen'[d] = ValuesRead(l, w, m)
      <4>1. CASE m.signal = "PeerChanged"
        BY <1>3, <1>4, <3>1, <4>1 DEF ValuesRead
      <4>2. CASE m.signal # "PeerChanged" /\ m.signal = "Changed" /\ Lists(d)
        BY <1>3, <1>4, <3>1, <3>3, <4>2 DEF ValuesRead
      <4>3. CASE m.signal # "PeerChanged" /\ ~(m.signal = "Changed" /\ Lists(d))
        BY <1>3, <1>4, <3>1, <3>3, <4>3 DEF ValuesRead
      <4> QED BY <4>1, <4>2, <4>3
    <3> QED BY <3>2, <3>3
  <2>2. CASE ReceiveReply(d)
    <3>1. /\ "reply" \in DOMAIN m
          /\ seenPeers' = IF m.reply = "peers"
                          THEN [seenPeers EXCEPT ![d] = m.peers] ELSE seenPeers
          /\ seen' = IF m.reply = "points"
                     THEN [seen EXCEPT ![d] = Listed(@, m.value)] ELSE seen
      BY <2>2 DEF ReceiveReply
    <3> HIDE DEF m, w
    <3>2. "signal" \notin DOMAIN m
      BY <1>2, <3>1, MessageKinds DEF Messages
    <3>3. seenPeers'[d] = PeersRead(w, m)
      BY <1>3, <1>4, <3>1, <3>2 DEF PeersRead
    <3>4. \A l : seen'[d] = ValuesRead(l, w, m)
      BY <1>3, <1>4, <3>1, <3>2 DEF ValuesRead
    <3> QED BY <3>3, <3>4
  <2> QED BY <2>1, <2>2 DEF Receive
<1>7. Connected(d) /\ Connected(d)'
  BY <1>1 DEF ViewsReach, Connected
<1>8. ASSUME NEW l, l = Lists(d)
      PROVE  \E u : /\ Leads(l, View(seenPeers'[d], seen'[d]), sent'[d], u)
                    /\ Current(l, u)
  <2>1. PICK u : Leads(l, w, sent[d], u) /\ Current(l, u)
    BY <1>7, <1>8 DEF ViewsReach
  <2>2. Read(l, w, m) = View(seenPeers'[d], seen'[d])
    BY <1>6, <1>8 DEF Read
  <2> HIDE DEF w
  <2>3. Leads(l, Read(l, w, m), Tail(sent[d]), u)
    BY <1>1, <1>2, <2>1, LeadsHead
  <2> QED BY <1>2, <2>1, <2>2, <2>3
<1> QED BY <1>1, <1>2, <1>5, <1>7, <1>8, OthersView

LEMMA NextViews == IInv /\ ViewsReach /\ [Next]_vars => ViewsReach'
<1> SUFFICES ASSUME IInv, ViewsReach, [Next]_vars PROVE ViewsReach'
  OBVIOUS
<1>1. ASSUME NEW n \in Names,
             PeerConnecting(n) \/ PeerReady(n) \/ PeerFailed(n) \/ PeerRemoved(n)
      PROVE  ViewsReach'
  BY <1>1, PeersViews
<1>2. ASSUME NEW i \in Ids, PointNews(i) \/ VarNews(i)
      PROVE  ViewsReach'
  BY <1>2, NewsViews
<1>3. ASSUME NEW d \in Debuggers, Method(d)
      PROVE  ViewsReach'
  BY <1>3, PlainMethodViews, ListViews, SetInputViews DEF Method
<1>4. ASSUME NEW d \in Debuggers,
             OnNewConnection(d) \/ OnClosed(d) \/ Attach(d) \/ Vanish(d) \/ Ask(d) \/ LetGo(d)
      PROVE  ViewsReach'
  BY <1>4, LinkViews, VanishViews, AskViews
<1>5. ASSUME NEW d \in Debuggers, Receive(d)
      PROVE  ViewsReach'
  BY <1>5, ReceiveViews
<1>6. CASE UNCHANGED vars
  <2>1. UNCHANGED <<session, peers, value, sent, seenPeers, seen, call, connections, link>>
    BY <1>6 DEF vars, core, debugger
  <2>2. \A d \in Debuggers : Connected(d) => Connected(d)'
    BY <2>1 DEF Connected
  <2> QED BY <2>1, <2>2, SilentViews
<1> QED BY <1>1, <1>2, <1>3, <1>4, <1>5, <1>6 DEF Next, Ids

LEMMA InitViews == Init => ViewsReach
<1> SUFFICES ASSUME Init, NEW d \in Debuggers
             PROVE  /\ call[d] # [do |-> "points"] /\ ~Connected(d)
                    /\ sent[d] = <<>> /\ seenPeers[d] = None /\ seen[d] = Nothing
  BY DEF ViewsReach
<1>1. None # [do |-> "points"]
  BY DebugServerAssumption DEF Calls
<1> QED BY <1>1 DEF Init, Connected

-----------------------------------------------------------------------------
(***************************************************************************)
(* The theorems                                                            *)
(***************************************************************************)

LEMMA InitIInv == Init => IInv
<1> SUFFICES ASSUME Init PROVE IInv
  OBVIOUS
<1>1. \A d \in Debuggers : /\ sent[d] = <<>> /\ mine[d] = {} /\ link[d] = "closed"
                           /\ \A p : ~Offered(d, p)
  BY NoSignals DEF Init, Offered
<1>2. Typed
  <2>1. Nothing \in Views /\ 1 \in 0 .. HandleMod - 1
    BY DebugServerAssumption DEF Nothing, Views
  <2>2. sent \in [Debuggers -> Seq(Messages)] /\ mine \in [Debuggers -> SUBSET PointRecords]
    BY DEF Init
  <2>3. TypeOK
    BY <1>1, <2>1 DEF Init, TypeOK
  <2> QED BY <2>2, <2>3 DEF Init, Typed
<1>3. StopsReach
  BY <1>1 DEF Init, StopsReach
<1>4. HandlesFresh
  BY <1>1 DEF Init, HandlesFresh
<1> QED BY <1>2, <1>3, <1>4 DEF IInv

LEMMA NextIInv == IInv /\ [Next]_vars => IInv'
<1> SUFFICES ASSUME IInv, [Next]_vars PROVE IInv'
  OBVIOUS
<1>1. ASSUME NEW n \in Names,
             PeerConnecting(n) \/ PeerReady(n) \/ PeerFailed(n) \/ PeerRemoved(n)
      PROVE  IInv'
  BY <1>1, PeersStep
<1>2. ASSUME NEW i \in Ids, PointNews(i) \/ VarNews(i)
      PROVE  IInv'
  <2>1. PICK v \in Values : /\ News /\ Changed(i, v) /\ Broadcast(Signals(i, v))
                            /\ UNCHANGED <<session, peers>>
    BY <1>2 DEF PointNews, VarNews
  <2> QED BY <2>1, NewsStep
<1>3. ASSUME NEW d \in Debuggers, Method(d)
      PROVE  IInv'
  BY <1>3, GetStatusStep, ListStep, AddPointStep, RemovePointStep, ContinueStep,
     SetInputStep DEF Method
<1>4. ASSUME NEW d \in Debuggers, OnNewConnection(d) \/ OnClosed(d)
      PROVE  IInv'
  BY <1>4, OnNewConnectionStep, OnClosedStep
<1>5. ASSUME NEW d \in Debuggers,
             Attach(d) \/ Vanish(d) \/ Ask(d) \/ LetGo(d) \/ Receive(d)
      PROVE  IInv'
  BY <1>5, AttachStep, VanishStep, AskStep, ReceiveSignalStep, ReceiveReplyStep DEF Receive
<1>6. CASE UNCHANGED vars
  <2>1. UNCHANGED <<session, peers, value, connections, points, next, adds, paused, link,
                    call, sent, held, seenPeers, seen, mine>>
    BY <1>6 DEF vars, core, table, debugger
  <2>2. Typed'
    BY <2>1 DEF IInv, Typed, TypeOK
  <2>3. StopsReach'
    BY <2>1 DEF IInv, StopsReach, Asking
  <2> QED BY <2>1, <2>2, <2>3, NothingSent DEF IInv
<1> QED BY <1>1, <1>2, <1>3, <1>4, <1>5, <1>6 DEF Next, Ids

LEMMA InvariantHolds == Spec => []IInv
  BY InitIInv, NextIInv, PTL DEF Spec

\* The types: what is on the way, what debuggers keep and what the Core keeps.
THEOREM TypeOKHolds == Spec => []TypeOK
<1>1. IInv => TypeOK
  BY DEF IInv, Typed
<1> QED BY InvariantHolds, <1>1, PTL

\* A stop reaches every debugger attached, however many there are: the signal of
\* broadcast_signal, the reply to GetStatus and the replies to Continue come in an
\* order that leaves none unaware of it.
THEOREM StopsKnownHolds == Spec => []StopsKnown
<1>1. IInv => StopsKnown
  <2> SUFFICES ASSUME IInv, NEW d \in Debuggers, paused, link[d] = "open", sent[d] = <<>>
               PROVE  held[d] \/ (call[d] # None /\ call[d].do = "status")
    BY DEF StopsKnown
  <2>1. Knows(held[d], <<>>) \/ Asking(d)
    BY DEF IInv, StopsReach
  <2>2. Knows(held[d], <<>>) => held[d]
    BY DEF Knows
  <2> QED BY <2>1, <2>2 DEF Asking
<1> QED BY InvariantHolds, <1>1, PTL

\* Until next_handle comes round, a handle is never given out twice: it means the
\* point a debugger was given it for, or nothing once the point was removed.
THEOREM HandleKeepsItsMeaningHolds == Spec => []HandleKeepsItsMeaning
<1>1. IInv => HandleKeepsItsMeaning
  <2> SUFFICES ASSUME IInv, adds < HandleMod, NEW d \in Debuggers, NEW p \in mine[d],
                      NEW k \in Kinds
               PROVE  points[k][p.handle] = None
                      \/ (k = p.kind /\ points[k][p.handle] = p.id)
    BY DEF HandleKeepsItsMeaning
  <2>1. p \in PointRecords
    BY DEF IInv, Typed
  <2>2. Right(p)
    BY <2>1 DEF IInv, HandlesFresh
  <2> QED BY <2>2 DEF Right
<1> QED BY InvariantHolds, <1>1, PTL

\* A debugger that read everything sent to it knows peers and values as they are, or
\* does not know them: whatever was listed, reported by broadcast_signal or set by
\* another debugger, and in whatever order, during a stop as well.
THEOREM ViewsFollowHolds == Spec => []ViewsFollow
<1>1. ViewsReach => ViewsFollow
  <2> SUFFICES ASSUME ViewsReach, NEW d \in Debuggers, sent[d] = <<>>
               PROVE  /\ seenPeers[d] \in {None, peers}
                      /\ \A i \in Ids : seen[d][i] \in {None, value[i]}
    BY DEF ViewsFollow
  <2>1. CASE Connected(d)
    <3>1. PICK u : /\ Leads(Lists(d), View(seenPeers[d], seen[d]), <<>>, u)
                   /\ Current(Lists(d), u)
      BY <2>1 DEF ViewsReach
    <3>2. u = View(seenPeers[d], seen[d])
      BY <3>1, LeadsNowhere
    <3>3. u.peers = seenPeers[d] /\ u.values = seen[d]
      BY <3>2 DEF View
    <3> QED BY <3>1, <3>3 DEF Current
  <2>2. CASE ~Connected(d)
    BY <2>2 DEF ViewsReach, Nothing
  <2> QED BY <2>1, <2>2
<1>2. Init => IInv /\ ViewsReach
  BY InitIInv, InitViews
<1>3. (IInv /\ ViewsReach) /\ [Next]_vars => (IInv /\ ViewsReach)'
  BY NextIInv, NextViews
<1> QED BY <1>1, <1>2, <1>3, PTL DEF Spec

=============================================================================
