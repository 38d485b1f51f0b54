-------------------------- MODULE StatisticsProofs --------------------------
(***************************************************************************)
(* What a service counts of itself, for any samples, threshold and bounds, *)
(* with proofs: no read is lost or counted twice, and the extremes are     *)
(* those of all samples, whichever files could be read when.               *)
(***************************************************************************)
EXTENDS Statistics, SequenceTheorems, TLAPS

IInv == TypeOK /\ ReadsCountedOnce /\ ExtremesOfAllSamples

Messages == [reply : BOOLEAN, stats : Stats]

\* What whole samples are: multiples of the threshold.
Multiples == {k * Threshold : k \in Int}

\* The samples of memory and stat are whole numbers.
LEMMA WholeSamples == Memory \cup Priority \subseteq Multiples /\ Multiples \subseteq Int
<1>1. Threshold \in Nat \ {0} /\ \A v \in Memory \cup Priority : v \in Int /\ v % Threshold = 0
  BY StatisticsAssumption
<1>2. ASSUME NEW v \in Int, v % Threshold = 0
      PROVE  \E k \in Int : v = k * Threshold
  <2>1. v = (v \div Threshold) * Threshold /\ v \div Threshold \in Int
    BY <1>1, <1>2
  <2> QED BY <2>1
<1>3. \A k \in Int : k * Threshold \in Int
  BY <1>1
<1> QED BY <1>1, <1>2, <1>3 DEF Multiples

\* Storing one more sample keeps the extremes, and the types.
LEMMA UpdateExtremes ==
    ASSUME NEW entry \in Entry, NEW samples \in SUBSET Int, NEW v \in Int,
           ExtremesOf(entry, samples)
    PROVE  Update(entry, v) \in Entry /\ ExtremesOf(Update(entry, v), samples \cup {v})
<1> DEFINE new == Update(entry, v)
<1>1. /\ entry.min \in Int \cup {Far} /\ entry.max \in Int \cup {Tiny}
      /\ Far \notin Int /\ Tiny \notin Int
  BY StatisticsAssumption DEF Entry
<1>2. /\ new.min = IF Below(v, entry.min) THEN v ELSE entry.min
      /\ new.max = IF Above(v, entry.max) THEN v ELSE entry.max
      /\ new \in Entry
  BY <1>1 DEF Update, Entry
<1> DEFINE all == samples \cup {v}
           positive == {w \in samples : w > 0}
           Positive == {w \in all : w > 0}
<1>3. new.min \in all /\ \A w \in all : new.min <= w
  <2>1. CASE samples = {}
    <3>1. entry.min = Far
      BY <2>1 DEF ExtremesOf
    <3>2. new.min = v
      BY <1>2, <3>1 DEF Below
    <3>3. all = {v}
      BY <2>1
    <3> QED BY <3>2, <3>3
  <2>2. CASE samples # {}
    <3>1. entry.min \in samples /\ \A w \in samples : entry.min <= w
      BY <2>2 DEF ExtremesOf
    <3>2. new.min = IF v < entry.min THEN v ELSE entry.min
      BY <1>1, <1>2, <3>1 DEF Below
    <3> DEFINE m == entry.min
               n == new.min
    <3> HIDE DEF m, n, new
    <3>3. m \in samples /\ m \in Int /\ (\A w \in samples : m <= w)
          /\ n = IF v < m THEN v ELSE m
      BY <3>1, <3>2 DEF m, n
    <3>4. n \in all /\ n <= v /\ n <= m /\ n \in Int
      BY <3>3
    <3>5. \A w \in samples : w \in Int /\ n <= w
      BY <3>3, <3>4
    <3> QED BY <3>4, <3>5 DEF n
  <2> QED BY <2>1, <2>2
<1>4. IF Positive = {} THEN new.max = Tiny
      ELSE new.max \in Positive /\ \A w \in Positive : w <= new.max
  <2>1. CASE positive = {}
    <3>1. entry.max = Tiny /\ \A w \in samples : ~(w > 0)
      BY <2>1 DEF ExtremesOf
    <3>2. new.max = IF v > 0 THEN v ELSE Tiny
      BY <1>2, <3>1 DEF Above
    <3>3. Positive = IF v > 0 THEN {v} ELSE {}
      BY <3>1
    <3> QED BY <3>2, <3>3
  <2>2. CASE positive # {}
    <3>1. entry.max \in positive /\ \A w \in positive : w <= entry.max
      BY <2>2 DEF ExtremesOf
    <3>2. new.max = IF v > entry.max THEN v ELSE entry.max
      BY <1>1, <1>2, <3>1 DEF Above
    <3> DEFINE m == entry.max
               n == new.max
    <3> HIDE DEF m, n, new
    <3>3. m \in positive /\ m \in Int /\ m > 0 /\ (\A w \in positive : w <= m)
          /\ n = IF v > m THEN v ELSE m
      BY <3>1, <3>2 DEF m, n
    <3>4. n \in Positive /\ v <= n /\ m <= n /\ n \in Int
      BY <3>3
    <3>5. \A w \in Positive : w \in Int /\ (w \in positive \/ w = v)
      OBVIOUS
    <3>6. \A w \in Positive : w <= n
      <4>1. ASSUME NEW w \in positive
            PROVE  w <= n
        BY <3>3, <3>4
      <4> QED BY <3>4, <3>5, <4>1
    <3> QED BY <3>4, <3>6 DEF n
  <2> QED BY <2>1, <2>2
<1>5. all # {}
  OBVIOUS
<1> QED BY <1>2, <1>3, <1>4, <1>5 DEF ExtremesOf

\* Facts of arithmetic.
LEMMA Differences ==
    /\ \A a \in Int : a - a = 0
    /\ \A a, b \in Int : b <= a => a - b \in Nat
  OBVIOUS

\* A new process has no samples and has counted nothing.
LEMMA NewProcess ==
    /\ [e \in Entries |-> NewEntry] \in Stats
    /\ ExtremesOf(NewEntry, {})
  BY DEF Stats, Entry, NewEntry, ExtremesOf

\* The initial states satisfy the invariant.
LEMMA InitIInv == Init => IInv
<1> SUFFICES ASSUME Init PROVE IInv
  OBVIOUS
<1>1. /\ read \in 0 .. MaxRead /\ prev \in {0, read} /\ base = prev
      /\ stats = [e \in Entries |-> NewEntry] /\ sampled = [e \in Entries |-> {}]
      /\ counted = 0 /\ taken = 0 /\ silent = 0 /\ starts = 0 /\ client = "away"
      /\ mirror = [e \in Entries |-> NewEntry] /\ sent = <<>> /\ missed = FALSE
  BY DEF Init
<1>2. read \in Nat /\ prev \in 0 .. read /\ base \in 0 .. prev /\ counted = prev - base
  BY <1>1, StatisticsAssumption
<1>3. TypeOK
  <2>1. sent \in Seq([reply : BOOLEAN, stats : Stats])
    BY <1>1
  <2>2. stats \in Stats /\ mirror \in Stats
    BY <1>1, NewProcess
  <2>3. /\ \A e \in Entries : sampled[e] \subseteq Int
        /\ counted \in Nat /\ taken \in Nat /\ silent \in Nat /\ starts \in Nat
        /\ client \in {"away", "asking", "ready"} /\ missed \in BOOLEAN
    BY <1>1
  <2> QED BY <1>2, <2>1, <2>2, <2>3 DEF TypeOK
<1>4. ExtremesOfAllSamples
  BY <1>1, NewProcess DEF ExtremesOfAllSamples
<1> QED BY <1>2, <1>3, <1>4 DEF IInv, ReadsCountedOnce

\* A new process, and a client that is gone.
LEMMA RestartIInv ==
    ASSUME IInv, Restart
    PROVE  IInv'
<1>1. /\ read' \in 0 .. MaxRead /\ prev' \in {0, read'} /\ base' = prev'
      /\ stats' = [e \in Entries |-> NewEntry] /\ sampled' = [e \in Entries |-> {}]
      /\ counted' = 0 /\ taken' = 0 /\ silent' = 0 /\ starts' = starts + 1
      /\ client' = "away" /\ mirror' = [e \in Entries |-> NewEntry]
      /\ sent' = <<>> /\ missed' = FALSE
  BY DEF Restart, Starts
<1>2. /\ read' \in Nat /\ prev' \in 0 .. read' /\ base' \in 0 .. prev'
      /\ counted' = prev' - base'
  <2>1. read' \in Nat /\ prev' \in Nat /\ prev' <= read'
    BY <1>1, StatisticsAssumption
  <2>2. base' = prev' /\ counted' = 0
    BY <1>1
  <2>3. prev' \in 0 .. read'
    BY <2>1
  <2>4. base' \in 0 .. prev'
    BY <2>1, <2>2
  <2>5. prev' - base' = 0
    <3>1. prev' \in Int
      BY <2>1
    <3>2. prev' - prev' = 0
      BY <3>1, Differences
    <3> QED BY <2>2, <3>2, Zenon
  <2> QED BY <2>1, <2>2, <2>3, <2>4, <2>5
<1>3. starts' \in Nat
  BY <1>1 DEF IInv, TypeOK
<1>4. TypeOK'
  <2>1. sent' \in Seq([reply : BOOLEAN, stats : Stats])
    BY <1>1
  <2>2. stats' \in Stats /\ mirror' \in Stats
    BY <1>1, NewProcess
  <2>3. /\ \A e \in Entries : sampled'[e] \subseteq Int
        /\ counted' \in Nat /\ taken' \in Nat /\ silent' \in Nat
        /\ client' \in {"away", "asking", "ready"} /\ missed' \in BOOLEAN
    BY <1>1
  <2> QED BY <1>2, <1>3, <2>1, <2>2, <2>3 DEF TypeOK
<1>5. ExtremesOfAllSamples'
  BY <1>1, NewProcess DEF ExtremesOfAllSamples
<1> QED BY <1>2, <1>4, <1>5 DEF IInv, ReadsCountedOnce

\* The samples of one period, those of the files that could be read.
LEMMA StoresIInv ==
    ASSUME IInv, NEW sample \in Samples, NEW readable \in SUBSET Entries,
           Stores(sample, readable), read' \in read .. MaxRead
    PROVE  /\ stats' \in Stats
           /\ \A e \in Entries : sampled'[e] \subseteq Int
           /\ silent' \in Nat
           /\ sent' \in Seq(Messages)
           /\ ExtremesOfAllSamples'
           /\ counted' = counted + (IF "io" \in readable THEN read' - prev ELSE 0)
<1> USE DEF IInv
<1>1. \A e \in Entries : sample[e] \in Int
  BY WholeSamples, StatisticsAssumption DEF Samples, Entries, TypeOK
<1>2. sample["io"] = read' - prev
  BY DEF Samples
<1>3. /\ stats' = [e \in Entries |-> IF e \in readable THEN Update(stats[e], sample[e])
                                     ELSE stats[e]]
      /\ sampled' = [e \in Entries |-> IF e \in readable
                                       THEN sampled[e] \cup {sample[e]}
                                       ELSE sampled[e]]
      /\ counted' = counted + (IF "io" \in readable THEN sample["io"] ELSE 0)
      /\ silent' \in {0, silent + 1}
      /\ sent' \in {sent, Append(sent, Message(FALSE, stats'))}
  BY DEF Stores
<1>4. \A e \in Entries : stats'[e] \in Entry /\ sampled'[e] \subseteq Int
                         /\ ExtremesOf(stats'[e], sampled'[e])
  <2> SUFFICES ASSUME NEW e \in Entries
               PROVE  stats'[e] \in Entry /\ sampled'[e] \subseteq Int
                      /\ ExtremesOf(stats'[e], sampled'[e])
    OBVIOUS
  <2>1. stats[e] \in Entry /\ sampled[e] \in SUBSET Int /\ ExtremesOf(stats[e], sampled[e])
    BY DEF TypeOK, Stats, ExtremesOfAllSamples
  <2>2. CASE e \in readable
    <3>1. stats'[e] = Update(stats[e], sample[e]) /\ sampled'[e] = sampled[e] \cup {sample[e]}
      BY <1>3, <2>2
    <3>2. sample[e] \in Int
      BY <1>1
    <3>3. /\ Update(stats[e], sample[e]) \in Entry
          /\ ExtremesOf(Update(stats[e], sample[e]), sampled[e] \cup {sample[e]})
      BY <2>1, <3>2, UpdateExtremes
    <3> QED BY <2>1, <3>1, <3>2, <3>3
  <2>3. CASE e \notin readable
    <3>1. stats'[e] = stats[e] /\ sampled'[e] = sampled[e]
      BY <1>3, <2>3
    <3> QED BY <2>1, <3>1
  <2> QED BY <2>2, <2>3
<1>5. stats' \in Stats
  BY <1>3, <1>4 DEF Stats
<1>6. Message(FALSE, stats') \in Messages
  BY <1>5 DEF Message, Messages
<1>7. sent \in Seq(Messages)
  BY DEF TypeOK, Messages
<1>8. sent' \in Seq(Messages)
  <2>1. Append(sent, Message(FALSE, stats')) \in Seq(Messages)
    BY <1>6, <1>7, AppendProperties
  <2> QED BY <1>3, <1>7, <2>1
<1>9. silent' \in Nat
  BY <1>3 DEF TypeOK
<1>10. ExtremesOfAllSamples'
  BY <1>4 DEF ExtremesOfAllSamples
<1> QED BY <1>2, <1>3, <1>4, <1>5, <1>8, <1>9, <1>10

\* One period of the collector: stat could not be read, or its samples are stored.
LEMMA CollectIInv ==
    ASSUME IInv, Collect
    PROVE  IInv'
<1> USE DEF IInv
<1>1. PICK readable \in SUBSET Entries :
        \/ "stat" \notin readable /\ UNCHANGED <<prev, stats, sampled, counted, silent, sent>>
        \/ /\ "stat" \in readable
           /\ \E sample \in Samples : Stores(sample, readable)
           /\ prev' = IF "io" \in readable THEN read' ELSE prev
  BY DEF Collect
<1>2. /\ read' \in read .. MaxRead /\ taken' = taken + 1
      /\ UNCHANGED <<base, starts, client, mirror, missed>>
  BY DEF Collect, copy
<1>3. read \in Nat /\ prev \in 0 .. read /\ base \in 0 .. prev /\ counted = prev - base
  BY DEF TypeOK, ReadsCountedOnce
<1>4. read' \in Nat /\ read <= read' /\ taken' \in Nat
  BY <1>2, <1>3, StatisticsAssumption DEF TypeOK
<1>5. CASE UNCHANGED <<prev, stats, sampled, counted, silent, sent>>
  <2>1. prev' \in 0 .. read' /\ base' \in 0 .. prev' /\ counted' = prev' - base'
    BY <1>2, <1>3, <1>4, <1>5
  <2>2. TypeOK'
    BY <1>2, <1>4, <1>5, <2>1 DEF TypeOK
  <2>3. ExtremesOfAllSamples'
    BY <1>5 DEF ExtremesOfAllSamples
  <2> QED BY <2>1, <2>2, <2>3 DEF ReadsCountedOnce
<1>6. CASE /\ \E sample \in Samples : Stores(sample, readable)
           /\ prev' = IF "io" \in readable THEN read' ELSE prev
  <2>1. /\ stats' \in Stats
        /\ \A e \in Entries : sampled'[e] \subseteq Int
        /\ silent' \in Nat
        /\ sent' \in Seq(Messages)
        /\ ExtremesOfAllSamples'
        /\ counted' = counted + (IF "io" \in readable THEN read' - prev ELSE 0)
    BY <1>2, <1>6, StoresIInv
  <2>2. prev' \in 0 .. read' /\ base' \in 0 .. prev' /\ counted' = prev' - base'
    <3>1. CASE "io" \in readable
      <4>1. prev' = read' /\ counted' = counted + (read' - prev)
        BY <1>6, <2>1, <3>1
      <4>2. base' = base
        BY <1>2
      <4> QED BY <1>3, <1>4, <4>1, <4>2
    <3>2. CASE "io" \notin readable
      <4>1. prev' = prev /\ counted' = counted + 0 /\ base' = base
        BY <1>2, <1>6, <2>1, <3>2
      <4> QED BY <1>3, <1>4, <4>1
    <3> QED BY <3>1, <3>2
  <2>3. counted' \in Nat
    <3>1. prev' \in Int /\ base' \in Int /\ base' <= prev'
      BY <2>2
    <3>2. prev' - base' \in Nat
      BY <3>1, Differences
    <3> QED BY <2>2, <3>2
  <2>4. TypeOK'
    BY <1>2, <1>4, <2>1, <2>2, <2>3 DEF TypeOK, Messages
  <2> QED BY <2>1, <2>2, <2>4 DEF ReadsCountedOnce
<1> QED BY <1>1, <1>5, <1>6

\* The client only copies.
LEMMA ClientIInv ==
    ASSUME IInv, GetStats \/ OnStats \/ OnStatsChanged
    PROVE  IInv'
<1> USE DEF IInv
<1>1. UNCHANGED <<read, prev, base, stats, sampled, counted, taken, silent>>
  BY DEF GetStats, OnStats, OnStatsChanged, process
<1>2. sent \in Seq(Messages)
  BY DEF TypeOK, Messages
<1>3. CASE GetStats
  <2>1. Message(TRUE, stats) \in Messages
    BY DEF TypeOK, Message, Messages
  <2>2. sent' \in Seq(Messages)
    <3>1. sent' = <<Message(TRUE, stats)>>
      BY <1>3 DEF GetStats
    <3>2. \A m \in Messages : <<m>> \in Seq(Messages)
      OBVIOUS
    <3> QED BY <2>1, <3>1, <3>2
  <2>3. starts' \in Nat /\ client' = "asking" /\ UNCHANGED <<mirror, missed>>
    BY <1>3 DEF GetStats, TypeOK
  <2> QED BY <1>1, <2>2, <2>3 DEF TypeOK, Messages, ReadsCountedOnce, ExtremesOfAllSamples
<1>4. CASE OnStats
  <2>1. Head(sent) \in Messages
    BY <1>2, <1>4, HeadTailProperties DEF OnStats
  <2>2. PICK arrived \in 1 .. Len(sent) : /\ sent' = SubSeq(sent, arrived + 1, Len(sent))
                                          /\ missed' = (arrived > 1)
    BY <1>4 DEF OnStats
  <2>3. sent' \in Seq(Messages)
    BY <1>2, <2>2, SubSeqProperties
  <2>4. mirror' \in Stats /\ client' = "ready" /\ starts' = starts /\ missed' \in BOOLEAN
    BY <1>4, <2>1, <2>2 DEF OnStats, Messages
  <2> QED BY <1>1, <2>3, <2>4 DEF TypeOK, Messages, ReadsCountedOnce, ExtremesOfAllSamples
<1>5. CASE OnStatsChanged
  <2>1. Head(sent) \in Messages /\ Tail(sent) \in Seq(Messages)
    BY <1>2, <1>5, HeadTailProperties DEF OnStatsChanged
  <2>2. /\ mirror' \in Stats /\ sent' \in Seq(Messages) /\ missed' = FALSE
        /\ UNCHANGED <<starts, client>>
    BY <1>5, <2>1 DEF OnStatsChanged, Messages
  <2> QED BY <1>1, <2>2 DEF TypeOK, Messages, ReadsCountedOnce, ExtremesOfAllSamples
<1> QED BY <1>3, <1>4, <1>5

\* The invariant is inductive.
LEMMA NextIInv == IInv /\ [Next]_vars => IInv'
<1> SUFFICES ASSUME IInv, [Next]_vars PROVE IInv'
  OBVIOUS
<1>1. CASE UNCHANGED vars
  BY <1>1 DEF IInv, TypeOK, ReadsCountedOnce, ExtremesOfAllSamples, vars, process, copy
<1> QED BY <1>1, RestartIInv, CollectIInv, ClientIInv DEF Next

-----------------------------------------------------------------------------
(***************************************************************************)
(* How far the client's copy drifts                                        *)
(***************************************************************************)

Fields == {"min", "max", "last"}

IsWhole(entry) ==
    /\ entry.min \in Multiples \cup {Far}
    /\ entry.max \in Multiples \cup {Tiny}
    /\ entry.last \in Multiples

\* Two numbers are equal, or neither is Far and they differ by no more than d.
Near(a, b, d) == a = b \/ (Far \notin {a, b} /\ Distance(a, b) <= d)

\* A copy of statistics that have taken n samples since without telling.
NearStats(s, now, n) ==
    /\ \A e \in Whole : s[e] = now[e]
    /\ \A f \in Fields : Near(s["io"][f], now["io"][f], n * (Threshold - 1))

\* The newest message on the way is near the statistics, and with none on the
\* way the copy is, unless a signal was missed.
DriftInv ==
    /\ IInv
    /\ \A e \in Whole : IsWhole(stats[e])
    /\ client = "away" => sent = <<>>
    /\ sent # <<>> => NearStats(sent[Len(sent)].stats, stats, silent)
    /\ UpToDate => NearStats(mirror, stats, silent)

\* Two different multiples of the threshold are apart.
LEMMA MultiplesApart ==
    ASSUME NEW a \in Multiples \cup {Far, Tiny}, NEW b \in Multiples \cup {Far, Tiny},
           ~Apart(a, b), a = Tiny => b = Tiny \/ (b \in Int /\ b > 0),
           b = Tiny => a = Tiny
    PROVE  a = b
<1>1. /\ Threshold \in Nat \ {0} /\ Far \notin Int /\ Tiny \notin Int
      /\ Multiples \subseteq Int
  BY StatisticsAssumption DEF Multiples
<1>2. \A n \in Multiples : n # 0 => n >= Threshold \/ n <= -Threshold
  <2> SUFFICES ASSUME NEW k \in Int, k * Threshold # 0
               PROVE  k * Threshold >= Threshold \/ k * Threshold <= -Threshold
    BY DEF Multiples
  <2>1. CASE k >= 1
    BY <1>1, <2>1
  <2>2. CASE k <= -1
    BY <1>1, <2>2
  <2> QED BY <1>1, <2>1, <2>2
<1>3. \A m, n \in Multiples : m - n \in Multiples
  <2> SUFFICES ASSUME NEW j \in Int, NEW k \in Int
               PROVE  j * Threshold - k * Threshold \in Multiples
    BY DEF Multiples
  <2>1. j * Threshold - k * Threshold = (j - k) * Threshold
    BY <1>1
  <2> QED BY <2>1 DEF Multiples
<1>4. CASE Far \in {a, b}
  BY <1>4 DEF Apart
<1>5. CASE Far \notin {a, b} /\ a = Tiny
  <2>1. CASE b \in Int /\ b > 0
    <3>1. b \in Multiples /\ b >= Threshold
      BY <1>1, <1>2, <1>5, <2>1
    <3>2. Distance(a, b) = b
      BY <1>1, <1>5, <2>1 DEF Distance
    <3> QED BY <1>1, <1>5, <3>1, <3>2 DEF Apart
  <2> QED BY <1>5, <2>1
<1>6. CASE Far \notin {a, b} /\ a # Tiny
  <2>1. a \in Multiples /\ b \in Multiples
    BY <1>6
  <2>2. a - b \in Multiples /\ a \in Int /\ b \in Int /\ a # Tiny /\ b # Tiny
    BY <1>1, <1>3, <2>1
  <2>3. Distance(a, b) = IF a - b < 0 THEN -(a - b) ELSE a - b
    BY <2>2 DEF Distance
  <2>4. Distance(a, b) < Threshold
    BY <1>1, <1>6, <2>2, <2>3 DEF Apart
  <2>5. a - b = 0
    BY <1>1, <1>2, <2>2, <2>3, <2>4
  <2> QED BY <2>2, <2>5
<1> QED BY <1>4, <1>5, <1>6

\* A step below the threshold adds less than the threshold to the distance.
LEMMA NearStep ==
    ASSUME NEW a \in Numbers, NEW b \in Numbers, NEW c \in Numbers, NEW d \in Nat,
           Near(a, b, d), ~Apart(b, c)
    PROVE  Near(a, c, d + (Threshold - 1))
<1>1. Threshold \in Nat \ {0} /\ Far \notin Int /\ Tiny \notin Int
  BY StatisticsAssumption
<1>2. CASE Far \in {b, c}
  BY <1>2 DEF Apart, Near
<1>3. CASE Far \notin {b, c}
  <2> DEFINE size(n) == IF n = Tiny THEN 0 ELSE n
             Abs(n) == IF n < 0 THEN -n ELSE n
  <2>1. \A m, n : Distance(m, n) = Abs(size(m) - size(n))
    BY DEF Distance
  <2>2. size(b) \in Int /\ size(c) \in Int /\ Far # a => size(a) \in Int
    BY <1>1, <1>3 DEF Numbers
  <2>3. Abs(size(b) - size(c)) <= Threshold - 1
    <3>1. ~(Distance(b, c) >= Threshold)
      BY <1>3 DEF Apart
    <3> HIDE DEF size
    <3>2. size(b) \in Int /\ size(c) \in Int
      BY <1>1, <1>3 DEF Numbers, size
    <3> QED BY <1>1, <2>1, <3>1, <3>2
  <2>4. a # Far /\ Abs(size(a) - size(b)) <= d
    <3>1. CASE a = b
      <4>1. size(b) \in Int
        BY <1>1, <1>3 DEF Numbers
      <4> QED BY <1>3, <3>1, <4>1
    <3>2. CASE Far \notin {a, b} /\ Distance(a, b) <= d
      BY <2>1, <3>2
    <3> QED BY <3>1, <3>2 DEF Near
  <2>5. size(a) \in Int /\ size(b) \in Int /\ size(c) \in Int
    BY <1>1, <1>3, <2>4 DEF Numbers
  <2>6. Abs(size(a) - size(c)) <= d + (Threshold - 1)
    <3> HIDE DEF size
    <3> QED BY <1>1, <2>3, <2>4, <2>5
  <2> QED BY <1>3, <2>1, <2>4, <2>6 DEF Near
<1> QED BY <1>2, <1>3

\* A whole sample that does not differ from an entry leaves it as it is.
LEMMA WholeUpdate ==
    ASSUME NEW entry \in Entry, IsWhole(entry), NEW v \in Multiples
    PROVE  /\ IsWhole(Update(entry, v))
           /\ ~Differs(entry, Update(entry, v)) => Update(entry, v) = entry
<1> DEFINE new == Update(entry, v)
<1>1. Far \notin Int /\ Tiny \notin Int /\ v \in Int
  BY StatisticsAssumption, WholeSamples
<1>2. /\ new.min \in {entry.min, v}
      /\ new.max \in {entry.max, v} /\ (entry.max = Tiny => new.max = Tiny \/ v > 0)
      /\ new.last = v
  BY DEF Update, Above
<1>3. IsWhole(new)
  BY <1>2 DEF IsWhole
<1>4. ASSUME ~Differs(entry, new) PROVE new = entry
  <2>1. ~Apart(entry.min, new.min) /\ ~Apart(entry.max, new.max) /\ ~Apart(entry.last, new.last)
    BY <1>4 DEF Differs
  <2>2. new.min = entry.min
    <3>1. CASE new.min = v /\ entry.min # v
      <4>1. CASE entry.min = Far
        BY <1>1, <2>1, <3>1, <4>1 DEF Apart
      <4>2. CASE entry.min # Far
        <5>1. entry.min \in Multiples
          BY <4>2 DEF IsWhole
        <5>2. entry.min # Tiny /\ v # Tiny
          BY <1>1, <5>1, WholeSamples
        <5> QED BY <2>1, <3>1, <5>1, <5>2, MultiplesApart
      <4> QED BY <4>1, <4>2
    <3> QED BY <1>2, <3>1
  <2>3. new.max = entry.max
    <3>1. CASE new.max = v
      <4>1. v # Tiny /\ (entry.max = Tiny => v > 0)
        BY <1>1, <1>2, <3>1
      <4>2. entry.max \in Multiples \cup {Far, Tiny} /\ v \in Multiples \cup {Far, Tiny}
        BY DEF IsWhole
      <4> QED BY <1>1, <2>1, <3>1, <4>1, <4>2, MultiplesApart
    <3> QED BY <1>2, <3>1
  <2>4. new.last = entry.last
    <3>1. entry.last \in Multiples /\ entry.last # Tiny /\ v # Tiny
      BY <1>1, WholeSamples DEF IsWhole
    <3> QED BY <1>2, <2>1, <3>1, MultiplesApart
  <2>5. entry = [min |-> entry.min, max |-> entry.max, last |-> entry.last]
    BY DEF Entry
  <2>6. new = [min |-> new.min, max |-> new.max, last |-> new.last]
    BY DEF Update
  <2> QED BY <2>2, <2>3, <2>4, <2>5, <2>6
<1> QED BY <1>3, <1>4

\* A copy is near the statistics it is made of, however long these were silent.
LEMMA NearItself == \A s, n : NearStats(s, s, n)
  BY DEF NearStats, Near

\* One sample more that is not told keeps a copy near.
LEMMA NearQuiet ==
    ASSUME NEW s \in Stats, NEW old \in Stats, NEW new \in Stats, NEW n \in Nat,
           NearStats(s, old, n), ~Changes(old, new), \A e \in Whole : new[e] = old[e]
    PROVE  NearStats(s, new, n + 1)
<1>1. /\ Threshold - 1 \in Nat /\ n * (Threshold - 1) \in Nat
      /\ (n + 1) * (Threshold - 1) = n * (Threshold - 1) + (Threshold - 1)
  BY StatisticsAssumption
<1>2. ASSUME NEW f \in Fields
      PROVE  Near(s["io"][f], new["io"][f], (n + 1) * (Threshold - 1))
  <2>1. \A t \in Stats : t["io"][f] \in Numbers
    BY DEF Stats, Entry, Entries, Fields, Numbers
  <2>2. ~Apart(old["io"][f], new["io"][f])
    BY DEF Changes, Differs, Entries, Fields
  <2>3. Near(s["io"][f], old["io"][f], n * (Threshold - 1))
    BY DEF NearStats
  <2> DEFINE k == n * (Threshold - 1)
  <2>4. k \in Nat
    BY <1>1
  <2>5. Near(s["io"][f], new["io"][f], k + (Threshold - 1))
    <3> HIDE DEF k
    <3>1. Near(s["io"][f], old["io"][f], k)
      BY <2>3 DEF k
    <3> QED BY <2>1, <2>2, <2>4, <3>1, NearStep
  <2> QED BY <1>1, <2>5
<1>3. \A e \in Whole : s[e] = new[e]
  BY DEF NearStats
<1> QED BY <1>2, <1>3 DEF NearStats

\* The newest message of a sequence, and what is added to or dropped from it.
LEMMA Newest ==
    ASSUME NEW S, NEW q \in Seq(S)
    PROVE  /\ q # <<>> => q[Len(q)] \in S
           /\ \A m \in S : /\ Append(q, m) # <<>>
                           /\ Append(q, m)[Len(Append(q, m))] = m
           /\ \A k \in 1 .. Len(q) : k < Len(q) =>
                 LET rest == SubSeq(q, k + 1, Len(q))
                 IN  rest # <<>> /\ rest[Len(rest)] = q[Len(q)]
<1>1. Len(q) \in Nat /\ (q # <<>> => Len(q) \in 1 .. Len(q))
  BY EmptySeq, LenProperties
<1>2. q # <<>> => q[Len(q)] \in S
  BY <1>1, ElementOfSeq
<1>3. ASSUME NEW m \in S
      PROVE  Append(q, m) # <<>> /\ Append(q, m)[Len(Append(q, m))] = m
  <2>1. /\ Append(q, m) # <<>> /\ Len(Append(q, m)) = Len(q) + 1
        /\ Append(q, m)[Len(q) + 1] = m
    BY AppendProperties
  <2> QED BY <2>1
<1>4. ASSUME NEW k \in 1 .. Len(q), k < Len(q)
      PROVE  /\ SubSeq(q, k + 1, Len(q)) # <<>>
             /\ SubSeq(q, k + 1, Len(q))[Len(SubSeq(q, k + 1, Len(q)))] = q[Len(q)]
  <2> DEFINE rest == SubSeq(q, k + 1, Len(q))
  <2>1. Len(rest) = Len(q) - k
    BY <1>1, <1>4, SubSeqProperties
  <2>2. rest[Len(q) - k] = q[(k + 1) + (Len(q) - k) - 1]
    BY <1>1, <1>4, SubSeqProperties
  <2>3. (k + 1) + (Len(q) - k) - 1 = Len(q) /\ Len(q) - k # 0
    BY <1>1, <1>4
  <2> QED BY <2>1, <2>2, <2>3, EmptySeq
<1> QED BY <1>2, <1>3, <1>4

\* The samples of one period: what is told is on the way, what is not told
\* leaves the newest message, or the copy, near.
LEMMA StoresDrift ==
    ASSUME DriftInv, NEW sample \in Samples, NEW readable \in SUBSET Entries,
           Stores(sample, readable), stats' \in Stats,
           UNCHANGED <<client, mirror, missed>>
    PROVE  /\ \A e \in Whole : IsWhole(stats'[e])
           /\ client' = "away" => sent' = <<>>
           /\ sent' # <<>> => NearStats(sent'[Len(sent')].stats, stats', silent')
           /\ UpToDate' => NearStats(mirror', stats', silent')
<1> DEFINE told == Changes(stats, stats')
<1>1. /\ \A e \in Entries : stats'[e] = IF e \in readable THEN Update(stats[e], sample[e])
                                        ELSE stats[e]
      /\ silent' = IF told THEN 0 ELSE silent + 1
      /\ sent' = IF told /\ client # "away" THEN Append(sent, Message(FALSE, stats'))
                 ELSE sent
  BY DEF Stores
<1>2. stats \in Stats /\ silent \in Nat /\ mirror \in Stats /\ sent \in Seq(Messages)
  BY DEF DriftInv, IInv, TypeOK, Messages
<1>3. ASSUME NEW e \in Whole
      PROVE  IsWhole(stats'[e]) /\ (~told => stats'[e] = stats[e])
  <2>1. stats[e] \in Entry /\ IsWhole(stats[e]) /\ sample[e] \in Multiples /\ e \in Entries
    BY <1>2, WholeSamples DEF DriftInv, Stats, Samples, Whole, Entries
  <2>2. CASE e \in readable
    <3>1. stats'[e] = Update(stats[e], sample[e])
      BY <1>1, <2>1, <2>2
    <3>2. ~told => ~Differs(stats[e], stats'[e])
      BY <2>1 DEF Changes
    <3> QED BY <2>1, <3>1, <3>2, WholeUpdate
  <2>3. CASE e \notin readable
    BY <1>1, <2>1, <2>3
  <2> QED BY <2>2, <2>3
<1>4. client' = "away" => sent' = <<>>
  BY <1>1 DEF DriftInv
<1>5. CASE told /\ client # "away"
  <2>1. sent' = Append(sent, Message(FALSE, stats'))
    BY <1>1, <1>5
  <2>2. Message(FALSE, stats') \in Messages
    BY DEF Message, Messages
  <2>3. sent' # <<>> /\ sent'[Len(sent')] = Message(FALSE, stats')
    <3>1. \A m \in Messages : /\ Append(sent, m) # <<>>
                               /\ Append(sent, m)[Len(Append(sent, m))] = m
      BY <1>2, Newest
    <3> QED BY <2>1, <2>2, <3>1, Zenon
  <2>4. sent'[Len(sent')].stats = stats'
    BY <2>3 DEF Message
  <2> QED BY <1>3, <1>4, <2>3, <2>4, NearItself DEF UpToDate
<1>6. CASE told /\ client = "away"
  <2>1. sent' = <<>> /\ client' # "ready"
    BY <1>1, <1>6 DEF DriftInv
  <2> QED BY <1>3, <1>4, <2>1 DEF UpToDate
<1>7. CASE ~told
  <2>1. sent' = sent /\ silent' = silent + 1 /\ UpToDate' = UpToDate
    BY <1>1, <1>7 DEF UpToDate
  <2>2. \A e \in Whole : stats'[e] = stats[e]
    BY <1>3, <1>7
  <2>3. ASSUME NEW s \in Stats, NearStats(s, stats, silent)
        PROVE  NearStats(s, stats', silent')
    BY <1>2, <1>7, <2>1, <2>2, <2>3, NearQuiet
  <2>4. sent # <<>> => sent[Len(sent)].stats \in Stats
    <3>1. sent # <<>> => sent[Len(sent)] \in Messages
      BY <1>2, Newest
    <3> QED BY <3>1 DEF Messages
  <2> QED BY <1>2, <1>3, <1>4, <2>1, <2>3, <2>4 DEF DriftInv
<1> QED BY <1>5, <1>6, <1>7

\* One period of the collector.
LEMMA CollectDrift ==
    ASSUME DriftInv, Collect
    PROVE  DriftInv'
<1>1. IInv' /\ stats' \in Stats
  BY CollectIInv DEF DriftInv, IInv, TypeOK
<1>2. UNCHANGED <<client, mirror, missed>>
  BY DEF Collect, copy
<1>3. CASE \E readable \in SUBSET Entries, sample \in Samples : Stores(sample, readable)
  BY <1>1, <1>2, <1>3, StoresDrift DEF DriftInv
<1>4. CASE UNCHANGED <<prev, stats, sampled, counted, silent, sent>>
  BY <1>1, <1>2, <1>4 DEF DriftInv, UpToDate
<1> QED BY <1>3, <1>4 DEF Collect

\* The client copies messages in order; those it drops come before one that it
\* gets, or the copy counts as missing a signal.
LEMMA ClientDrift ==
    ASSUME DriftInv, GetStats \/ OnStats \/ OnStatsChanged
    PROVE  DriftInv'
<1>1. IInv'
  BY ClientIInv DEF DriftInv
<1>2. UNCHANGED <<stats, silent>>
  BY DEF GetStats, OnStats, OnStatsChanged, process
<1>3. sent \in Seq(Messages)
  BY DEF DriftInv, IInv, TypeOK, Messages
<1>4. CASE GetStats
  <2>1. sent' = <<Message(TRUE, stats)>> /\ client' = "asking"
    BY <1>4 DEF GetStats
  <2>2. sent' # <<>> /\ sent'[Len(sent')].stats = stats
    BY <2>1 DEF Message
  <2> QED BY <1>1, <1>2, <2>1, <2>2, NearItself DEF DriftInv, UpToDate
<1>5. CASE OnStats
  <2>1. sent # <<>> /\ mirror' = Head(sent).stats /\ client' = "ready"
    BY <1>5 DEF OnStats
  <2>2. PICK arrived \in 1 .. Len(sent) : /\ sent' = SubSeq(sent, arrived + 1, Len(sent))
                                          /\ missed' = (arrived > 1)
    BY <1>5 DEF OnStats
  <2>3. Head(sent) = sent[1] /\ Len(sent) \in Nat \ {0}
    BY <1>3, <2>1, EmptySeq
  <2>4. CASE arrived < Len(sent)
    <3>1. sent' # <<>> /\ sent'[Len(sent')] = sent[Len(sent)]
      BY <1>3, <2>2, <2>4, Newest
    <3> QED BY <1>1, <1>2, <2>1, <3>1 DEF DriftInv, UpToDate
  <2>5. CASE arrived = Len(sent)
    <3>1. sent' = <<>>
      BY <1>3, <2>2, <2>3, <2>5, SubSeqProperties
    <3>2. UpToDate' => Head(sent) = sent[Len(sent)]
      <4>1. UpToDate' => ~(arrived > 1)
        BY <2>2 DEF UpToDate
      <4>2. ~(arrived > 1) => Len(sent) = 1
        BY <2>3, <2>5
      <4> QED BY <2>3, <4>1, <4>2
    <3> QED BY <1>1, <1>2, <2>1, <3>1, <3>2 DEF DriftInv
  <2> QED BY <2>2, <2>3, <2>4, <2>5
<1>6. CASE OnStatsChanged
  <2>1. sent # <<>> /\ mirror' = Head(sent).stats /\ sent' = Tail(sent) /\ client' = client
    BY <1>6 DEF OnStatsChanged
  <2>2. Head(sent) = sent[1] /\ Len(sent) \in Nat \ {0}
    BY <1>3, <2>1, EmptySeq
  <2>3. client' # "away"
    BY <2>1 DEF DriftInv
  <2>4. CASE Len(sent) = 1
    <3>1. sent' = <<>> /\ Head(sent) = sent[Len(sent)]
      BY <1>3, <2>1, <2>2, <2>4, HeadTailProperties, EmptySeq
    <3> QED BY <1>1, <1>2, <2>1, <3>1 DEF DriftInv
  <2>5. CASE Len(sent) > 1
    <3>1. Len(sent') = Len(sent) - 1 /\ sent'[Len(sent')] = sent[Len(sent)]
      BY <1>3, <2>1, <2>2, <2>5, HeadTailProperties
    <3>2. sent' # <<>>
      BY <2>2, <2>5, <3>1
    <3> QED BY <1>1, <1>2, <2>3, <3>1, <3>2 DEF DriftInv, UpToDate
  <2> QED BY <2>2, <2>4, <2>5
<1> QED BY <1>4, <1>5, <1>6

\* A new process has no samples and its client nothing to copy.
LEMMA FreshDrift ==
    /\ Init => DriftInv
    /\ DriftInv /\ Restart => DriftInv'
<1>1. \A e \in Whole : IsWhole([x \in Entries |-> NewEntry][e])
  <2>1. 0 \in Multiples
    <3>1. 0 = 0 * Threshold
      BY StatisticsAssumption
    <3> QED BY <3>1 DEF Multiples
  <2> QED BY <2>1 DEF IsWhole, NewEntry, Whole, Entries
<1>2. Init => DriftInv
  BY <1>1, InitIInv DEF DriftInv, Init, UpToDate
<1>3. DriftInv /\ Restart => DriftInv'
  BY <1>1, RestartIInv DEF DriftInv, Restart, Starts, UpToDate
<1> QED BY <1>2, <1>3

\* The invariant of the copy is inductive.
LEMMA NextDrift == DriftInv /\ [Next]_vars => DriftInv'
<1> SUFFICES ASSUME DriftInv, [Next]_vars PROVE DriftInv'
  OBVIOUS
<1>1. CASE UNCHANGED vars
  <2>1. IInv'
    BY <1>1, NextIInv DEF DriftInv
  <2> QED BY <1>1, <2>1 DEF DriftInv, UpToDate, vars, process, copy
<1> QED BY <1>1, FreshDrift, CollectDrift, ClientDrift DEF Next

-----------------------------------------------------------------------------
(***************************************************************************)
(* Theorems                                                                *)
(***************************************************************************)

\* The invariant holds throughout.
THEOREM InvariantHolds == Spec => []IInv
  BY InitIInv, NextIInv, PTL DEF Spec

\* Counters, entries and messages have their types.
THEOREM TypeOKHolds == Spec => []TypeOK
<1>1. IInv => TypeOK
  BY DEF IInv
<1> QED BY InvariantHolds, <1>1, PTL

\* The rates stored add up to what the process read, whatever reads of /proc fail.
THEOREM ReadsCountedOnceHolds == Spec => []ReadsCountedOnce
<1>1. IInv => ReadsCountedOnce
  BY DEF IInv
<1> QED BY InvariantHolds, <1>1, PTL

\* The minimum is that of all samples stored since the process started, the maximum
\* that of those above zero: what st_entry_init begins with is below no other.
THEOREM ExtremesOfAllSamplesHolds == Spec => []ExtremesOfAllSamples
<1>1. IInv => ExtremesOfAllSamples
  BY DEF IInv
<1> QED BY InvariantHolds, <1>1, PTL

\* A Core that has read every signal since its snapshot has the whole entries as
\* they are, and rates that differ by less than the threshold for each sample
\* stored since a change was told.
THEOREM DriftBoundedHolds == Spec => []DriftBounded
<1>1. Init => DriftInv
  BY FreshDrift
<1>2. DriftInv => DriftBounded
  BY DEF DriftInv, DriftBounded, NearStats, Near, Fields
<1> QED BY <1>1, NextDrift, <1>2, PTL DEF Spec
=============================================================================
