----------------------------- MODULE Statistics -----------------------------
(***************************************************************************)
(* The statistics of a service and the Core's copy of them: the collector  *)
(* that reads /proc once a period (process-stats-collector.c), STStats with *)
(* its threshold for telling of a change (stats.c), the StatsChanged       *)
(* signal of the server, and the STStats the client keeps of its service.  *)
(*                                                                         *)
(* Three of the nine entries stand for all: one that is read from memory,  *)
(* one from stat, which hold whole numbers, and one that is the rate of a  *)
(* counter in io.  Numbers are counted in fractions of the threshold.      *)
(***************************************************************************)
EXTENDS Integers, Sequences, FiniteSets

CONSTANTS
    Memory, Priority,  \* samples of an entry of memory and of one of stat
    Threshold,   \* the difference that counts as a change
    Far, Tiny,   \* G_MAXDOUBLE, and G_MINDOUBLE, the least number above 0
    MaxRead,     \* bound: what the process reads in all
    MaxSamples,  \* bound: samples taken of one process
    MaxStarts,   \* bound: starts of the service and of clients
    MaxSent      \* bound: messages on the way to the client

Entries == {"memory", "stat", "io"}
Whole == {"memory", "stat"}

ASSUME StatisticsAssumption ==
    /\ Threshold \in Nat \ {0}
    /\ \A v \in Memory \cup Priority : v \in Int /\ v % Threshold = 0
    /\ Far \notin Int /\ Tiny \notin Int
    /\ MaxRead \in Nat /\ MaxSamples \in Nat /\ MaxStarts \in Nat /\ MaxSent \in Nat

VARIABLES
    read,       \* rchar of the process
    prev,       \* rchar_prev
    base,       \* history: rchar_prev when the collector was made
    stats,      \* the statistics of the service
    sampled,    \* history: the samples of an entry that were stored
    counted,    \* history: the sum of the samples of io that were stored
    taken,      \* samples taken
    silent,     \* history: samples stored since the last change was told
    starts,     \* starts so far
    client,     \* away, asking (its snapshot is on the way), or ready
    mirror,     \* the client's copy
    sent,       \* messages on the way to the client
    missed      \* history: a signal came too early for the client, none since

process == <<read, prev, base, stats, sampled, counted, taken, silent>>
copy == <<client, mirror, missed>>
vars == <<process, starts, copy, sent>>

Numbers == Int \cup {Far, Tiny}
Entry == [min : Int \cup {Far}, max : Int \cup {Tiny}, last : Int]
Stats == [Entries -> Entry]

TypeOK ==
    /\ read \in Nat /\ prev \in 0 .. read /\ base \in 0 .. prev
    /\ stats \in Stats
    /\ \A e \in Entries : sampled[e] \subseteq Int
    /\ counted \in Nat /\ taken \in Nat /\ silent \in Nat /\ starts \in Nat
    /\ client \in {"away", "asking", "ready"}
    /\ mirror \in Stats
    /\ sent \in Seq([reply : BOOLEAN, stats : Stats])
    /\ missed \in BOOLEAN

-----------------------------------------------------------------------------
(***************************************************************************)
(* An entry: its smallest, largest and last sample                         *)
(***************************************************************************)

\* st_entry_init.
NewEntry == [min |-> Far, max |-> Tiny, last |-> 0]

Above(v, max) == IF max = Tiny THEN v > 0 ELSE v > max
Below(v, min) == min = Far \/ v < min

\* Mutant: a sample is either a new smallest or a new largest.
UpdateElse(entry, v) ==
    [min |-> IF Below(v, entry.min) THEN v ELSE entry.min,
     max |-> IF ~Below(v, entry.min) /\ Above(v, entry.max) THEN v ELSE entry.max,
     last |-> v]

\* st_entry_update.
Update(entry, v) ==
    [min |-> IF Below(v, entry.min) THEN v ELSE entry.min,
     max |-> IF Above(v, entry.max) THEN v ELSE entry.max,
     last |-> v]

\* fabs (a - b), of numbers that are not Far.
Distance(a, b) ==
    LET size(n) == IF n = Tiny THEN 0 ELSE n
        d == size(a) - size(b)
    IN  IF d < 0 THEN -d ELSE d

\* Mutant: a difference of just the threshold is not enough.
ApartByMore(a, b) == IF Far \in {a, b} THEN a # b ELSE Distance(a, b) > Threshold

Apart(a, b) == IF Far \in {a, b} THEN a # b ELSE Distance(a, b) >= Threshold

\* entry_diff.
Differs(old, new) ==
    \/ Apart(old.min, new.min)
    \/ Apart(old.max, new.max)
    \/ Apart(old.last, new.last)

\* st_stats_set_full stores every entry and signals "changed" once if any of
\* them differs.
Changes(old, new) == \E e \in Entries : Differs(old[e], new[e])

-----------------------------------------------------------------------------
(***************************************************************************)
(* The service                                                             *)
(***************************************************************************)

\* Mutant: the counter remembered is that of the process before.
StartsWithOldCount ==
    /\ read' \in 0 .. MaxRead /\ prev' = prev /\ base' = prev'
    /\ stats' = [e \in Entries |-> NewEntry]
    /\ sampled' = [e \in Entries |-> {}]
    /\ counted' = 0
    /\ taken' = 0
    /\ silent' = 0

\* The collector is made; if it cannot read io then rchar_prev stays 0.
Starts ==
    /\ read' \in 0 .. MaxRead /\ prev' \in {0, read'} /\ base' = prev'
    /\ stats' = [e \in Entries |-> NewEntry]
    /\ sampled' = [e \in Entries |-> {}]
    /\ counted' = 0
    /\ taken' = 0
    /\ silent' = 0

Init ==
    /\ read \in 0 .. MaxRead /\ prev \in {0, read} /\ base = prev
    /\ stats = [e \in Entries |-> NewEntry]
    /\ sampled = [e \in Entries |-> {}]
    /\ counted = 0
    /\ taken = 0
    /\ silent = 0
    /\ starts = 0
    /\ client = "away"
    /\ mirror = [e \in Entries |-> NewEntry]
    /\ sent = <<>>
    /\ missed = FALSE

\* The service ends and is started anew; the Core drops its client, with the
\* connection, when mDNS withdraws the service.
Restart ==
    /\ starts < MaxStarts
    /\ starts' = starts + 1
    /\ Starts
    /\ client' = "away"
    /\ mirror' = [e \in Entries |-> NewEntry]
    /\ sent' = <<>>
    /\ missed' = FALSE

Message(isReply, s) == [reply |-> isReply, stats |-> s]

\* update_callback with the samples given, for the files that can be read, once
\* stat could be.
Stores(sample, readable) ==
    LET new == [e \in Entries |-> IF e \in readable THEN Update(stats[e], sample[e])
                                  ELSE stats[e]]
        told == Changes(stats, new)
    IN  /\ stats' = new
        /\ sampled' = [e \in Entries |-> IF e \in readable
                                         THEN sampled[e] \cup {sample[e]}
                                         ELSE sampled[e]]
        /\ counted' = counted + (IF "io" \in readable THEN sample["io"] ELSE 0)
        /\ silent' = IF told THEN 0 ELSE silent + 1
        /\ sent' = IF told /\ client # "away"
                   THEN Append(sent, Message(FALSE, new))
                   ELSE sent

Samples == [memory : Memory, stat : Priority, io : {read' - prev}]

\* Mutant: io is read, and its counter remembered, before stat.
CollectIoFirst ==
    /\ taken < MaxSamples /\ Len(sent) < MaxSent
    /\ taken' = taken + 1
    /\ read' \in read .. MaxRead
    /\ \E readable \in SUBSET Entries :
          /\ prev' = IF "io" \in readable THEN read' ELSE prev
          /\ \/ /\ "stat" \notin readable
                /\ UNCHANGED <<stats, sampled, counted, silent, sent>>
             \/ /\ "stat" \in readable
                /\ \E sample \in Samples : Stores(sample, readable)
    /\ UNCHANGED <<base, starts, copy>>

\* periodic_callback.  Without stat nothing at all is stored; a rate that could
\* not be read is made up for by the next.
Collect ==
    /\ taken < MaxSamples /\ Len(sent) < MaxSent
    /\ taken' = taken + 1
    /\ read' \in read .. MaxRead
    /\ \E readable \in SUBSET Entries :
          \/ /\ "stat" \notin readable
             /\ UNCHANGED <<prev, stats, sampled, counted, silent, sent>>
          \/ /\ "stat" \in readable
             /\ \E sample \in Samples : Stores(sample, readable)
             /\ prev' = IF "io" \in readable THEN read' ELSE prev
    /\ UNCHANGED <<base, starts, copy>>

-----------------------------------------------------------------------------
(***************************************************************************)
(* The client                                                              *)
(***************************************************************************)

\* A client connects and gets as far as GetStats, which the service answers.
GetStats ==
    /\ client = "away" /\ starts < MaxStarts
    /\ starts' = starts + 1
    /\ client' = "asking"
    /\ sent' = <<Message(TRUE, stats)>>
    /\ UNCHANGED <<process, mirror, missed>>

\* on_start_async_get_stats subscribes to the signals once it has the snapshot;
\* those that arrived before are dropped.
OnStats ==
    /\ sent # <<>> /\ Head(sent).reply
    /\ mirror' = Head(sent).stats
    /\ client' = "ready"
    /\ \E arrived \in 1 .. Len(sent) :
          /\ sent' = SubSeq(sent, arrived + 1, Len(sent))
          /\ missed' = (arrived > 1)
    /\ UNCHANGED <<process, starts>>

\* handle_stats_changed_signal.
OnStatsChanged ==
    /\ sent # <<>> /\ ~Head(sent).reply
    /\ mirror' = Head(sent).stats
    /\ sent' = Tail(sent)
    /\ missed' = FALSE
    /\ UNCHANGED <<process, starts, client>>

Next == Restart \/ Collect \/ GetStats \/ OnStats \/ OnStatsChanged

Spec == Init /\ [][Next]_vars

-----------------------------------------------------------------------------
(***************************************************************************)
(* Properties                                                              *)
(***************************************************************************)

UpToDate == client = "ready" /\ sent = <<>> /\ ~missed

\* The smallest of an entry is that of its samples, the largest that of its samples
\* above zero.  With no sample above zero it keeps the tiny number it started with.
ExtremesOf(entry, samples) ==
    LET positive == {v \in samples : v > 0}
    IN  /\ IF samples = {} THEN entry.min = Far
           ELSE entry.min \in samples /\ \A v \in samples : entry.min <= v
        /\ IF positive = {} THEN entry.max = Tiny
           ELSE entry.max \in positive /\ \A v \in positive : v <= entry.max

\* The extremes of an entry are those of all samples stored in it since the process
\* started, whatever reads failed between them; the largest only of samples above
\* zero.  That is less than doc/starter-core.texi 1657 says of the field max, "The
\* maximum value recorded.": a real-time priority, -2 for the lowest, is never one.
ExtremesOfAllSamples == \A e \in Entries : ExtremesOf(stats[e], sampled[e])

\* What the process read since the collector was made is in the samples, once,
\* up to the last sample, although reads of /proc fail now and then.
ReadsCountedOnce == counted = prev - base

\* A Core that has read every signal since its snapshot has the entries with whole
\* samples as they are in the service.  A rate may drift away unseen in steps below
\* the threshold, but no further than a step for each sample since the last change
\* was told.
DriftBounded ==
    UpToDate =>
        /\ \A e \in Whole : mirror[e] = stats[e]
        /\ \A f \in {"min", "max", "last"} :
              \/ mirror["io"][f] = stats["io"][f]
              \/ Distance(mirror["io"][f], stats["io"][f]) <= silent * (Threshold - 1)
=============================================================================
