----------------------------- MODULE Collector -----------------------------
(***************************************************************************)
(* The telemetry collectors of the agent, guardian/collectors: one for     *)
(* processes, one for network connections, each around an ETW session.     *)
(*                                                                         *)
(* Three threads meet in a collector: the agent's, which starts it, drains *)
(* it and stops it; the ETW thread, which brings events; and the worker    *)
(* that reconnects a session which could not be started.  The adapter that *)
(* self._etw refers to holds a live session or none; a live session of an  *)
(* adapter that nothing refers to any more is an orphan: nobody can stop   *)
(* it.  The etw library is external: a start succeeds or raises.           *)
(***************************************************************************)
EXTENDS Naturals, Sequences

CONSTANTS
    Kind,       \* the collectors
    MaxQueue,   \* maxlen of the buffer
    MaxEvents   \* bound: events that the sessions of a kind bring

ASSUME CollectorAssumption == MaxQueue \in Nat \ {0} /\ MaxEvents \in Nat \ {0}

VARIABLES
    collector,  \* the collectors of the process
    emitted     \* how many events the operating system brought, per kind

Health == {"stopped", "starting", "running", "degraded"}

\* The worker thread: none, or where it is in its loop.
Worker == {"none", "waiting", "renewing", "opening", "reporting"}

\* An event that is in the buffer and not yet in the statistics.
Counting == {"none", "kept", "evicted"}

\* A collector, and its statistics.
CollectorRow ==
    [installed : BOOLEAN, health : Health, stop : BOOLEAN,
     etw : {"none", "idle", "live"}, orphans : Nat,
     worker : Worker, pending : Seq(1..MaxEvents),
     counting : Counting, received : Nat, dropped : Nat, handed : Nat]

CollectorTypeOK ==
    /\ emitted \in [Kind -> 0..MaxEvents]
    /\ collector \in [Kind -> CollectorRow]
    /\ \A k \in Kind : Len(collector[k].pending) <= MaxQueue

\* The collector of a process in which the etw library can, or cannot, be imported.
NewCollector(inst) ==
    [installed |-> inst, health |-> "stopped", stop |-> FALSE, etw |-> "none", orphans |-> 0,
     worker |-> "none", pending |-> << >>,
     counting |-> "none", received |-> 0, dropped |-> 0, handed |-> 0]

CollectorInit ==
    /\ collector = [k \in Kind |-> NewCollector(TRUE)]
    /\ emitted = [k \in Kind |-> 0]

-----------------------------------------------------------------------------
\* start, by the agent's thread.

BeginStart(k) ==
    /\ collector' = [collector EXCEPT ![k].health = "starting", ![k].stop = FALSE, ![k].etw = "idle"]
    /\ UNCHANGED emitted

NotInstalled(k) ==
    /\ ~collector[k].installed
    /\ collector' = [collector EXCEPT ![k].health = "degraded"]
    /\ UNCHANGED emitted

FirstOpen(k) ==
    /\ collector[k].installed /\ collector[k].etw # "none"
    /\ collector' = [collector EXCEPT ![k].etw = "live"]
    /\ UNCHANGED emitted

\* The session does not start, or a stop has taken the adapter away: a worker
\* is scheduled, unless the stop has been signalled.
FirstOpenFails(k) ==
    /\ collector[k].installed
    /\ collector' = [collector EXCEPT
           ![k].health = "degraded",
           ![k].worker = IF collector[k].stop THEN "none" ELSE "waiting"]
    /\ UNCHANGED emitted

ReportRunning(k) ==
    /\ collector' = [collector EXCEPT ![k].health = "running"]
    /\ UNCHANGED emitted

-----------------------------------------------------------------------------
\* The reconnect worker.

\* The back-off is over, or the stop ends it.
Wake(k) ==
    /\ collector[k].worker = "waiting"
    /\ collector' = [collector EXCEPT
           ![k].worker = IF collector[k].stop THEN "none" ELSE "renewing"]
    /\ UNCHANGED emitted

\* A fresh adapter.  A stop that forgets the old one between the worker's test
\* and its call raises, which counts as a failed attempt.
Renew(k) ==
    /\ collector[k].worker = "renewing"
    /\ \/ collector' = [collector EXCEPT ![k].etw = "idle", ![k].worker = "opening"]
       \/ /\ collector[k].etw = "none"
          /\ collector' = [collector EXCEPT ![k].worker = "waiting"]
    /\ UNCHANGED emitted

Reopen(k) ==
    /\ collector[k].worker = "opening"
    /\ collector[k].etw # "none"
    /\ collector' = [collector EXCEPT ![k].etw = "live", ![k].worker = "reporting"]
    /\ UNCHANGED emitted

\* Mutant of ReopenFails: one failed attempt ends the worker.
GiveUp(k) ==
    /\ collector[k].worker = "opening"
    /\ collector' = [collector EXCEPT ![k].worker = "none"]
    /\ UNCHANGED emitted

ReopenFails(k) ==
    /\ collector[k].worker = "opening"
    /\ collector' = [collector EXCEPT ![k].worker = "waiting"]
    /\ UNCHANGED emitted

Reconnected(k) ==
    /\ collector[k].worker = "reporting"
    /\ collector' = [collector EXCEPT ![k].health = "running", ![k].worker = "none"]
    /\ UNCHANGED emitted

-----------------------------------------------------------------------------
\* stop, a step at a time: the worker and a second stop run beside it.

SignalStop(k) ==
    /\ collector' = [collector EXCEPT ![k].stop = TRUE]
    /\ UNCHANGED emitted

CloseSession(k) ==
    /\ collector[k].etw # "none"
    /\ collector' = [collector EXCEPT ![k].etw = "idle"]
    /\ UNCHANGED emitted

ForgetSession(k) ==
    /\ collector' = [collector EXCEPT
           ![k].etw = "none",
           ![k].orphans = IF collector[k].etw = "live" THEN @ + 1 ELSE @]
    /\ UNCHANGED emitted

\* The worker has ended, or the five seconds that stop waits for it are over: it
\* may be anywhere.
MarkStopped(k) ==
    /\ collector' = [collector EXCEPT ![k].health = "stopped"]
    /\ UNCHANGED emitted

-----------------------------------------------------------------------------
\* Events.

HasSession(k) == collector[k].etw = "live" \/ collector[k].orphans > 0

Evict(s, e) == IF Len(s) < MaxQueue THEN Append(s, e) ELSE Append(Tail(s), e)

\* The event_id is a hash of the time, the executable and the like: the event after
\* another one may have the id of the one before.
Identity(k) == {emitted[k] + 1, emitted[k]} \ {0}

\* Mutant of Emit: the buffer is tested after the event went in.
TestAfterAppend(k) ==
    /\ HasSession(k) /\ collector[k].counting = "none"
    /\ emitted[k] < MaxEvents
    /\ emitted' = [emitted EXCEPT ![k] = @ + 1]
    /\ \E id \in Identity(k) : collector' = [collector EXCEPT
           ![k].pending = Evict(@, id),
           ![k].counting = IF Len(Evict(collector[k].pending, 1)) >= MaxQueue THEN "evicted" ELSE "kept"]

\* The ETW callback puts the event into the buffer, which drops its oldest when full.
\* An event that the normaliser refuses changes nothing.
Emit(k) ==
    /\ HasSession(k) /\ collector[k].counting = "none"
    /\ emitted[k] < MaxEvents
    /\ emitted' = [emitted EXCEPT ![k] = @ + 1]
    /\ \E id \in Identity(k) : collector' = [collector EXCEPT
           ![k].pending = Evict(@, id),
           ![k].counting = IF Len(collector[k].pending) >= MaxQueue THEN "evicted" ELSE "kept"]

\* The statistics follow under a lock of their own.
Count(k) ==
    /\ collector[k].counting # "none"
    /\ collector' = [collector EXCEPT
           ![k].received = @ + 1,
           ![k].dropped = IF collector[k].counting = "evicted" THEN @ + 1 ELSE @,
           ![k].counting = "none"]
    /\ UNCHANGED emitted

\* collect: the whole buffer.
Drain(k) ==
    /\ collector' = [collector EXCEPT ![k].pending = << >>, ![k].handed = @ + Len(collector[k].pending)]
    /\ UNCHANGED emitted

-----------------------------------------------------------------------------
\* Properties.

\* The statistics account for every event that came in: it was handed out, is
\* in the buffer, or is counted as dropped, whatever collect, the callback and
\* the two locks interleave (the callback may be between them).
DropsAreCounted ==
    \A k \in Kind :
        LET c == collector[k]
            late(what) == IF c.counting \in what THEN 1 ELSE 0
        IN  c.received + late({"kept", "evicted"})
              = c.handed + Len(c.pending) + c.dropped + late({"evicted"})

=============================================================================
