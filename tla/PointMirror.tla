----------------------------- MODULE PointMirror -----------------------------
(***************************************************************************)
(* One input or output of a service and its mirror in the Core: the        *)
(* STServer that owns the point (lib/server.c), the STClient that mirrors  *)
(* it (lib/client.c), the rules that write it (assign_apply of engine.c)   *)
(* and the debugger.                                                       *)
(*                                                                         *)
(* Server and Core are two processes with a connection between them.  The  *)
(* Core's GDBus worker thread takes messages off the wire: it queues those *)
(* for which there is a subscription or a waiting call on the main loop    *)
(* and drops the others.  A rule's SetInput or SetOutput is a synchronous  *)
(* call: while the Core waits for its answer its main loop stands still.   *)
(* The service may die; a start that fails then, and the release of the    *)
(* client when mDNS withdraws the service, are PeerRegistry's.             *)
(***************************************************************************)
EXTENDS IoPoint, Sequences

CONSTANTS
    Values,         \* values, minima and maxima that anyone asks for
    Steps,          \* steps the service asks for
    Flags,          \* flags of a point
    UsrFlags,       \* those a FLAG rule may write, ST_IO_FLAG_USR1..4
    Manual,         \* ST_IO_FLAG_MANUAL_OVERRIDE
    InitialPoints,  \* points a service starts with
    None,
    MaxFlight,      \* bound on messages between server and main loop
    MaxCalls,       \* bound on calls the server has not served yet
    MaxWrites       \* bound on writes of the point in one rule pass

ASSUME MirrorAssumption ==
    /\ Values \subseteq Int
    /\ Steps \subseteq Nat \ {0}
    /\ UsrFlags \subseteq Flags \ {Manual}
    /\ InitialPoints \subseteq IoPoints(Int, Nat \ {0}, Flags)
    /\ \A p \in InitialPoints : WellFormed(p)
    /\ MaxFlight \in Nat
    /\ MaxCalls \in Nat
    /\ MaxWrites \in Nat

VARIABLES
    alive,    \* the service's process runs
    kind,     \* the point is an "input" or an "output"
    server,   \* the point in the service
    calls,    \* Core -> server, calls not served yet
    wire,     \* server -> Core, messages not read yet
    loop,     \* messages queued on the Core's main loop
    stage,    \* the start of the STClient
    mirror,   \* the point in the Core
    pass,     \* what the main loop is in the middle of
    late,     \* answers to come to calls that timed out
    missed,   \* (history) the mirror did not get some change of the point
    heard     \* (history) signals of the mirror's step applied since the last
              \* change it did not get

vars == <<alive, kind, server, calls, wire, loop, stage, mirror, pass, late, missed, heard>>

coreVars == <<stage, mirror, pass, late, loop>>

-----------------------------------------------------------------------------
(***************************************************************************)
(* Messages                                                                *)
(***************************************************************************)
Signal(p) == [type |-> "signal", point |-> p]
Snapshot(p) == [type |-> "snapshot", point |-> p]
Stats == [type |-> "stats", point |-> None]
Done == [type |-> "done", point |-> None]

Call(method, from, val, flags) ==
    [method |-> method, from |-> from, val |-> val, flags |-> flags]

GetPoints == Call("get_points", "start", None, {})
GetStats == Call("get_stats", "start", None, {})

\* The main loop is free; or the rules run, at the point of a change handler
\* after which "rest" of the signal "of" is still to be set; or it waits for the
\* answer of a write the rules made.
Idle == [at |-> "idle", left |-> 0, rest |-> "none", of |-> None]

Rules(rest, of) == [at |-> "rules", left |-> MaxWrites, rest |-> rest, of |-> of]

Init ==
    /\ alive = TRUE
    /\ kind \in {"input", "output"}
    /\ server \in InitialPoints
    /\ calls = <<GetPoints>>
    /\ wire = <<>>
    /\ loop = <<>>
    /\ stage = "get_points"
    /\ mirror = None
    /\ pass = Idle
    /\ late = 0
    /\ missed = FALSE
    /\ heard = 0

-----------------------------------------------------------------------------
(***************************************************************************)
(* The service                                                             *)
(***************************************************************************)
RoomOnWire == Len(wire) + Len(loop) < MaxFlight

\* Mutant: only changes of value and flags are told.
SignalValAndFlags(p, q) ==
    IF q.val = p.val /\ q.flags = p.flags THEN <<>> ELSE <<Signal(q)>>

\* Mutant: changes of the value are not told.
SignalUnlessVal(p, q) == IF q = p \/ q.val # p.val THEN <<>> ELSE <<Signal(q)>>

\* "changed" of the point, told to every connection.
SignalIfChanged(p, q) == IF q = p THEN <<>> ELSE <<Signal(q)>>

\* What one setter call makes of the point.
Edited(p) ==
    {SetMin(p, v) : v \in Values} \cup {SetMax(p, v) : v \in Values}
        \cup {SetVal(p, v) : v \in Values}
        \cup {SetStep(p, s) : s \in Steps}
        \cup {SetFlags(p, f) : f \in SUBSET Flags}

\* The service itself changes its point.
ServiceEdits ==
    /\ alive
    /\ RoomOnWire
    /\ server' \in Edited(server) \ {server}
    /\ wire' = wire \o SignalIfChanged(server, server')
    /\ UNCHANGED <<alive, kind, calls, missed, heard>>
    /\ UNCHANGED coreVars

\* SetInput and SetOutput: the value, then the flags, each telling its change;
\* a rejected value leaves both.
Written(p, val, flags) == IF AcceptsVal(p, val) THEN SetFlags(SetVal(p, val), flags) ELSE p

WriteSignals(p, val, flags) ==
    IF AcceptsVal(p, val)
    THEN SignalIfChanged(p, SetVal(p, val))
            \o SignalIfChanged(SetVal(p, val), Written(p, val, flags))
    ELSE <<>>

\* Another client of the service, an operator's panel, writes the point.
OperatorWrites(val, flags) ==
    /\ alive
    /\ RoomOnWire
    /\ server' = Written(server, val, flags)
    /\ server' # server
    /\ wire' = wire \o WriteSignals(server, val, flags)
    /\ UNCHANGED <<alive, kind, calls, missed, heard>>
    /\ UNCHANGED coreVars

\* handle_method_call, for the Core.  A rejected value is answered twice, with a
\* result and with an error, on an invocation the first answer has released: GDBus
\* drops the second answer, and the service may die there, which ServiceDies is.
Serve ==
    /\ alive
    /\ calls # <<>>
    /\ RoomOnWire
    /\ calls' = Tail(calls)
    /\ LET call == Head(calls)
       IN  \/ /\ call.method = "get_points"
              /\ wire' = Append(wire, Snapshot(server))
              /\ UNCHANGED server
           \/ /\ call.method = "get_stats"
              /\ wire' = Append(wire, Stats)
              /\ UNCHANGED server
           \/ /\ call.method = "set"
              /\ server' = Written(server, call.val, call.flags)
              /\ wire' = Append(wire \o WriteSignals(server, call.val, call.flags), Done)
    /\ UNCHANGED <<alive, kind, missed, heard>>
    /\ UNCHANGED coreVars

\* The service's process ends.  Messages it had not sent are lost; calls fail
\* from then on and change nothing.
ServiceDies ==
    /\ alive
    /\ alive' = FALSE
    /\ calls' = <<>>
    /\ \E sent \in 0..Len(wire) : wire' = SubSeq(wire, 1, sent)
    /\ missed' = (missed \/ \E i \in DOMAIN wire \ DOMAIN wire' : wire[i].type = "signal")
    /\ UNCHANGED <<kind, server, heard>>
    /\ UNCHANGED coreVars

-----------------------------------------------------------------------------
(***************************************************************************)
(* The Core's GDBus worker thread                                          *)
(***************************************************************************)
Subscribed == stage = "ready"

\* A signal that arrives before the subscription is lost.  It is a change the
\* mirror misses unless the snapshot, read later, has it.
ReceiveSignal ==
    /\ wire # <<>>
    /\ Head(wire).type = "signal"
    /\ wire' = Tail(wire)
    /\ IF Subscribed
       THEN loop' = Append(loop, Head(wire)) /\ UNCHANGED missed
       ELSE /\ missed' = (missed \/ stage # "get_points" \/ loop # <<>>)
            /\ UNCHANGED loop
    /\ UNCHANGED <<alive, kind, server, calls, stage, mirror, pass, late, heard>>

\* The answer of an asynchronous call is queued; that of a synchronous call ends
\* the waiting, unless that call has timed out.
ReceiveAnswer ==
    /\ wire # <<>>
    /\ wire' = Tail(wire)
    /\ \/ /\ Head(wire).type \in {"snapshot", "stats"}
          /\ loop' = Append(loop, Head(wire))
          /\ UNCHANGED <<pass, late>>
       \/ /\ Head(wire).type = "done"
          /\ late > 0
          /\ late' = late - 1
          /\ UNCHANGED <<loop, pass>>
       \/ /\ Head(wire).type = "done"
          /\ late = 0
          /\ pass' = [pass EXCEPT !.at = "rules"]
          /\ UNCHANGED <<loop, late>>
    /\ UNCHANGED <<alive, kind, server, calls, stage, mirror, missed, heard>>

\* Mutant: calls have no timeout.
NoTimeout == FALSE

\* GDBus gives up on a call after its default timeout; the server may serve it yet.
CallTimesOut ==
    /\ pass.at = "calling"
    /\ pass' = [pass EXCEPT !.at = "rules"]
    /\ late' = late + 1
    /\ UNCHANGED <<alive, kind, server, calls, wire, loop, stage, mirror, missed, heard>>

-----------------------------------------------------------------------------
(***************************************************************************)
(* The Core's main loop: the start                                         *)
(***************************************************************************)
Dispatch(type) ==
    /\ pass.at = "idle"
    /\ loop # <<>>
    /\ Head(loop).type = type
    /\ loop' = Tail(loop)

\* apply_inputs_from_result, apply_outputs_from_result, and the next call.
OnSnapshot ==
    /\ Dispatch("snapshot")
    /\ mirror' = Head(loop).point
    /\ calls' = IF alive THEN Append(calls, GetStats) ELSE calls
    /\ stage' = "get_stats"
    /\ UNCHANGED <<alive, kind, server, wire, pass, late, missed, heard>>

\* start_async_complete_ready: subscribe, READY, and the rules run.
OnStats ==
    /\ Dispatch("stats")
    /\ stage' = "ready"
    /\ pass' = Rules("none", None)
    /\ UNCHANGED <<alive, kind, server, calls, wire, mirror, late, missed, heard>>

-----------------------------------------------------------------------------
(***************************************************************************)
(* The Core's main loop: change signals                                    *)
(***************************************************************************)

\* Mutant: the handler does not set the maximum.
BoundsWithoutMax(m, p) == SetStep(SetMin(m, p.min), p.step)

\* The first setters of handle_input_changed_signal and
\* handle_output_changed_signal: each on the step the mirror has by then.
BoundsSet(m, p) == SetStep(SetMax(SetMin(m, p.min), p.max), p.step)

\* The rest of the handler.  A change of the value runs the rules, before the
\* flags are set.
ValSet(m, p) ==
    LET n == SetVal(m, p.val)
    IN  IF n.val # m.val
        THEN mirror' = n /\ pass' = Rules("flags", p)
        ELSE mirror' = SetFlags(n, p.flags) /\ pass' = Idle

OnSignal ==
    /\ Dispatch("signal")
    /\ LET p == Head(loop).point
           m == BoundsSet(mirror, p)
       IN  IF m.val # mirror.val
           THEN mirror' = m /\ pass' = Rules("val", p)
           ELSE ValSet(m, p)
    /\ heard' = IF heard < 2 /\ Head(loop).point.step = mirror.step THEN heard + 1 ELSE heard
    /\ UNCHANGED <<alive, kind, server, calls, wire, stage, late, missed>>

\* The rules are done: the handler goes on with what is left of the signal.
EndPass ==
    /\ pass.at = "rules"
    /\ \/ pass.rest = "none" /\ mirror' = mirror /\ pass' = Idle
       \/ pass.rest = "val" /\ ValSet(mirror, pass.of)
       \/ pass.rest = "flags" /\ mirror' = SetFlags(mirror, pass.of.flags) /\ pass' = Idle
    /\ UNCHANGED <<alive, kind, server, calls, wire, loop, stage, late, missed, heard>>

\* Some other point of the Core changes and its rules run.
OtherPointChanges ==
    /\ stage = "ready"
    /\ pass.at = "idle"
    /\ pass' = Rules("none", None)
    /\ UNCHANGED <<alive, kind, server, calls, wire, loop, stage, mirror, late, missed, heard>>

-----------------------------------------------------------------------------
(***************************************************************************)
(* Writes                                                                  *)
(***************************************************************************)

\* call_set_io_method from the rules.
Write(from, val, flags) ==
    /\ pass.at = "rules"
    /\ pass.left > 0
    /\ stage = "ready"
    /\ alive
    /\ Len(calls) < MaxCalls
    /\ calls' = Append(calls, Call("set", from, val, flags))
    /\ pass' = [pass EXCEPT !.at = "calling", !.left = @ - 1]
    /\ UNCHANGED <<alive, kind, server, wire, loop, stage, mirror, late, missed, heard>>

\* Mutant: the manual override is not looked at.
RuleSetsValueAlways(val) ==
    /\ kind = "output"
    /\ stage = "ready"
    /\ val # mirror.val
    /\ Write("rule_value", val, mirror.flags)

\* assign_apply to an output: never under manual override, as the mirror has it,
\* and with the flags the mirror has.
RuleSetsValue(val) ==
    /\ kind = "output"
    /\ stage = "ready"
    /\ val # mirror.val
    /\ Manual \notin mirror.flags
    /\ Write("rule_value", val, mirror.flags)

\* assign_apply_flag: one USR flag, and the value the mirror has.
RuleSetsFlag(flags) ==
    /\ stage = "ready"
    /\ flags # mirror.flags
    /\ \E f \in UsrFlags : flags = mirror.flags \cup {f} \/ flags = mirror.flags \ {f}
    /\ Write("rule_flag", mirror.val, flags)

\* st_core_debug_set_output: the debugger's own value and flags.  The handler
\* waits for the answer; no rule runs.
DebuggerSetsOutput(val, flags) ==
    /\ kind = "output"
    /\ stage = "ready"
    /\ pass.at = "idle"
    /\ alive
    /\ Len(calls) < MaxCalls
    /\ calls' = Append(calls, Call("set", "debugger", val, flags))
    /\ pass' = [Idle EXCEPT !.at = "calling"]
    /\ UNCHANGED <<alive, kind, server, wire, loop, stage, mirror, late, missed, heard>>

\* st_core_debug_set_input changes the mirror, not the service's point.
DebuggerSetsInput(val, flags) ==
    /\ kind = "input"
    /\ stage = "ready"
    /\ pass.at = "idle"
    /\ AcceptsVal(mirror, val)
    /\ Written(mirror, val, flags) # mirror
    /\ ValSet(mirror, [mirror EXCEPT !.val = val, !.flags = flags])
    /\ missed' = TRUE
    /\ heard' = 0
    /\ UNCHANGED <<alive, kind, server, calls, wire, loop, stage, late>>

Next ==
    \/ ServiceEdits
    \/ \E v \in Values, f \in SUBSET Flags : OperatorWrites(v, f)
    \/ Serve
    \/ ServiceDies
    \/ ReceiveSignal
    \/ ReceiveAnswer
    \/ CallTimesOut
    \/ OnSnapshot
    \/ OnStats
    \/ OnSignal
    \/ EndPass
    \/ OtherPointChanges
    \/ \E v \in Values : RuleSetsValue(v)
    \/ \E f \in SUBSET Flags : RuleSetsFlag(f)
    \/ \E v \in Values, f \in SUBSET Flags : DebuggerSetsOutput(v, f)
    \/ \E v \in Values, f \in SUBSET Flags : DebuggerSetsInput(v, f)

Spec == Init /\ [][Next]_vars

\* The worker thread reads what arrives; the main loop dispatches its sources in
\* the order they were queued, so none waits for ever behind other points'
\* changes (the steps that dispatch are OnSnapshot, OnStats and OnSignal); a rule
\* pass ends; GDBus ends a call that is not answered.  Nothing is assumed of the
\* service.
CoreFairness ==
    /\ WF_vars(ReceiveSignal \/ ReceiveAnswer)
    /\ SF_loop(\E type \in {"snapshot", "stats", "signal"} : Dispatch(type))
    /\ WF_vars(CallTimesOut)
    /\ WF_vars(EndPass)

FairSpec == Spec /\ CoreFairness

-----------------------------------------------------------------------------
(***************************************************************************)
(* Properties                                                              *)
(***************************************************************************)

\* The points stay as st_input_new and st_output_new assert them: a service can
\* always be snapshotted, and the Core never aborts in an assertion on a
\* snapshot, whatever setters ran in which order.
AssertionsHold ==
    /\ WellFormed(server)
    /\ mirror # None => WellFormed(mirror)
    /\ \A i \in DOMAIN wire : wire[i].point # None => WellFormed(wire[i].point)

\* A signal is on its way, or the handler is in the middle of one.
SignalUnderWay ==
    \/ \E i \in DOMAIN wire : wire[i].type = "signal"
    \/ \E i \in DOMAIN loop : loop[i].type = "signal"
    \/ pass.rest # "none"

Quiet == stage = "ready" /\ ~SignalUnderWay

\* A mirror that missed no change is the service's point whenever no signal is
\* under way: the handler, which sets minimum, maximum, step, value and flags one
\* after the other on a point with another step, never rejects or rounds one away.
MirrorFollows == Quiet /\ ~missed => mirror = server

\* A change that was missed is made good by the next two signals that do not
\* change the step: the first may still leave a bound of the mirror behind,
\* rejected because of the value the mirror has.
TwoSignalsRepair == alive /\ Quiet /\ heard >= 2 => mirror = server

\* What the documentation promises of the handshake: no early update is lost in
\* the gap between the snapshot and the subscription.  So when the client becomes
\* READY its mirror is the point, or a signal that will make it so is on its way.
NoEarlyUpdateLost ==
    [][stage # "ready" /\ stage' = "ready" => SignalUnderWay \/ mirror' = server]_vars

ServedFor(from) == calls # <<>> /\ calls' = Tail(calls) /\ Head(calls).from = from

\* A rule changes an output under manual override only while the Core does not
\* have the flag yet; once its mirror has it, only by a call that timed out.
OverrideLostOnlyUnseen ==
    [][ServedFor("rule_value") /\ Manual \in server.flags /\ server'.val # server.val
          => missed \/ late > 0 \/ Manual \notin mirror.flags]_vars

\* A FLAG write reverts a change of the value only while the Core has yet to
\* apply that change, or after its call timed out.
ValueRevertedOnlyUnseen ==
    [][ServedFor("rule_flag") /\ server'.val # server.val
          => missed \/ late > 0 \/ SignalUnderWay]_vars

\* The main loop never stands still for good, whatever the service does: a write
\* it does not answer times out and the rule pass it came from ends.
LoopReturns == pass.at # "idle" ~> pass.at = "idle"

\* When a service's point stops changing, a mirror that missed nothing is the
\* point from some time on, whatever else the Core is busy with.
EventuallySynchronized ==
    <>[][server' = server]_vars => <>[](missed \/ stage # "ready" \/ mirror = server)
=============================================================================
