----------------------------- MODULE FlushTrigger -----------------------------
(***************************************************************************)
(* What starts "flask signalbus flush" every minute, so that signals whose *)
(* transaction has not published them are published at last: an event      *)
(* listener of supervisord (trigger_supervisor_process.py), the supervised *)
(* process signalbus_flush, and supervisord itself, which is not a part of *)
(* this repository and is modelled as supervisord.conf sets it up and as   *)
(* the listener uses it.                                                   *)
(*                                                                         *)
(* With startsecs=0 a process is RUNNING as soon as it has been spawned,   *)
(* and EXITED when it ends, whatever it returns.  A process that cannot be *)
(* spawned (no more memory, no more file descriptors) is in BACKOFF and    *)
(* will be tried startretries times more before it is FATAL.               *)
(***************************************************************************)
EXTENDS Naturals

CONSTANTS
    Interval,        \* seconds between two starts, in ticks of 5 seconds
    StartRetries,    \* startretries: the default, for the file does not set it
    MaxFailures      \* bound on how often a process cannot be spawned

ASSUME TriggerAssumption ==
    /\ Interval \in Nat \ {0}
    /\ StartRetries \in Nat
    /\ MaxFailures \in Nat

VARIABLES
    process,      \* the state of signalbus_flush
    failed,       \* how often it could not be spawned since it was last RUNNING
    failures,     \* how often it could not be spawned at all
    listener,     \* what the listener is doing
    sinceStart    \* ticks since last_started_at, or Interval if there are more

triggerVars == <<process, failed, failures, listener, sinceStart>>

TriggerInit ==
    /\ process = "STOPPED"
    /\ failed = 0
    /\ failures = 0
    /\ listener = "ready"
    /\ sinceStart = Interval

\* Mistake: a process that has ended is not started again.
NeverEnded == {"STOPPED", "BACKOFF"}

Startable == {"STOPPED", "BACKOFF", "EXITED"}

\* The states in which supervisord has the process under way, and answers a
\* request to start it with the fault ALREADY_STARTED.
UnderWay == {"STARTING", "RUNNING", "BACKOFF"}

Spawned ==
    /\ process' = "RUNNING"
    /\ failed' = 0
    /\ UNCHANGED failures

NotSpawned ==
    /\ failures < MaxFailures
    /\ failures' = failures + 1
    /\ process' = "BACKOFF"
    /\ failed' = failed + 1

----------------------------------------------------------------------------
(* The listener.                                                           *)

\* A TICK_5 event: the listener asks for the state of the process when the
\* time has come.
Tick ==
    LET elapsed == IF sinceStart < Interval THEN sinceStart + 1 ELSE Interval
    IN  /\ listener = "ready"
        /\ sinceStart' = elapsed
        /\ listener' = IF elapsed = Interval /\ process \in Startable
                       THEN "starting" ELSE "ready"
        /\ UNCHANGED <<process, failed, failures>>

Start ==
    /\ listener = "starting"
    /\ process \notin UnderWay
    /\ Spawned
    /\ listener' = "ready"
    /\ sinceStart' = 0

\* A fault is an exception that nobody catches: the listener ends.
StartFails ==
    /\ listener = "starting"
    /\ \/ process \in UnderWay /\ UNCHANGED <<process, failed, failures>>
       \/ process \notin UnderWay /\ NotSpawned
    /\ listener' = "down"
    /\ UNCHANGED sinceStart

\* supervisord starts the listener again, with a last_started_at of zero.
RestartListener ==
    /\ listener = "down"
    /\ listener' = "ready"
    /\ sinceStart' = Interval
    /\ UNCHANGED <<process, failed, failures>>

----------------------------------------------------------------------------
(* supervisord.                                                            *)

Exit ==
    /\ process = "RUNNING"
    /\ process' = "EXITED"
    /\ UNCHANGED <<failed, failures, listener, sinceStart>>

\* supervisord tries again to spawn the process, or gives up.
BackOff ==
    /\ process = "BACKOFF"
    /\ IF failed > StartRetries
       THEN process' = "FATAL" /\ UNCHANGED <<failed, failures>>
       ELSE Spawned \/ NotSpawned
    /\ UNCHANGED <<listener, sinceStart>>

TriggerNext ==
    Tick \/ Start \/ StartFails \/ RestartListener \/ Exit \/ BackOff

\* Time passes, the processes run, and a flush ends.
TriggerFairness ==
    /\ WF_triggerVars(Tick)
    /\ WF_triggerVars(Start \/ StartFails)
    /\ WF_triggerVars(RestartListener)
    /\ WF_triggerVars(Exit)
    /\ WF_triggerVars(BackOff)

TriggerSpec == TriggerInit /\ [][TriggerNext]_triggerVars /\ TriggerFairness

----------------------------------------------------------------------------
\* The pending signals are flushed again and again: "It triggers a process at
\* regular intervals" (the usage text of trigger_supervisor_process.py).
TriggersAtIntervals == []<>(process = "RUNNING")

\* Nothing but a FATAL process stops the flushes: not a process that cannot be
\* spawned for a while, not a listener that asks for a process that is under
\* way already and ends with an exception.
OnlyFatalStops == TriggersAtIntervals \/ <>[](process = "FATAL")
=============================================================================
