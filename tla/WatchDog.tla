------------------------------- MODULE WatchDog -------------------------------
(***************************************************************************)
(* The watchdog of a runtime (src/src/host/host2.cpp, class WatchDog): while*)
(* interruptInterval is not 0, a thread asks the engine from time to time to*)
(* interrupt the script; the engine then calls interruptCallback(), which   *)
(* runs host.onInterrupt with the callback disabled.                        *)
(*                                                                          *)
(* The engine's part, external, is a flag that the request sets and that the*)
(* script's next check clears, calling the callback if there is one; when   *)
(* the callback fails the script is terminated.  The lengths of intervals   *)
(* are left out, but not that 0 means none.                                 *)
(***************************************************************************)
EXTENDS Integers

CONSTANTS
    MaxInterval,    \* intervals the script sets are 0..MaxInterval
    MaxDepth,       \* callbacks within callbacks
    StopInCallback  \* TRUE: onInterrupt may set interruptInterval to 0

ASSUME BoundsAssumption == MaxInterval \in Nat \ {0} /\ MaxDepth \in Nat \ {0}
ASSUME StopAssumption == StopInCallback \in BOOLEAN

VARIABLES
    interval,   \* _interruptInterval
    semEnd,     \* _watchDogSemEnd
    tpc,        \* the thread, "none" when there is none
    callback,   \* the runtime has an interrupt callback: interruptCallback()
    requested,  \* the engine is asked to interrupt the script
    spc,        \* the script's thread
    depth       \* onInterrupt runs, within onInterrupt if more than 1

vars == <<interval, semEnd, tpc, callback, requested, spc, depth>>

TypeOK ==
    /\ interval \in 0..MaxInterval
    /\ semEnd \in 0..1
    /\ tpc \in {"none", "sleep", "test", "request", "exited"}
    /\ callback \in BOOLEAN /\ requested \in BOOLEAN
    /\ spc \in {"run", "start", "stop", "join", "killed", "ending",
                "destroyed"}
    /\ depth \in 0..MaxDepth

Init ==
    /\ interval = 0 /\ semEnd = 0 /\ tpc = "none"
    /\ callback = FALSE /\ requested = FALSE
    /\ spc = "run" /\ depth = 0

-----------------------------------------------------------------------------
(* watchDogThreadProc()                                                     *)

Thread(from, to) ==
    /\ tpc = from /\ tpc' = to
    /\ UNCHANGED <<interval, callback, spc, depth>>

IntervalElapses ==
    /\ Thread("sleep", "test") /\ semEnd = 0
    /\ UNCHANGED <<semEnd, requested>>

SeeEnd ==
    /\ Thread("sleep", "exited") /\ semEnd > 0
    /\ semEnd' = semEnd - 1
    /\ UNCHANGED requested

TestCallback ==
    /\ Thread("test", IF callback THEN "request" ELSE "sleep")
    /\ UNCHANGED <<semEnd, requested>>

RequestInterrupt ==
    /\ Thread("request", "sleep")
    /\ requested' = TRUE
    /\ UNCHANGED semEnd

-----------------------------------------------------------------------------
(* setInterruptInterval(): the script sets it, or ~HostRuntime() to 0.      *)

NeedsStart(n) == interval = 0 /\ n # 0
NeedsStop(n) == interval # 0 /\ n = 0

SetInterruptInterval ==
    /\ spc = "run"
    /\ \E n \in 0..MaxInterval :
        /\ n = 0 => depth = 0 \/ StopInCallback
        /\ interval' = n
        /\ spc' = IF NeedsStart(n) THEN "start"
                  ELSE IF NeedsStop(n) THEN "stop" ELSE "run"
    /\ UNCHANGED <<semEnd, tpc, callback, requested, depth>>

Start ==
    /\ spc = "start" /\ spc' = "run"
    /\ callback' = TRUE
    /\ semEnd' = 0 /\ tpc' = "sleep"
    /\ UNCHANGED <<interval, requested, depth>>

\* Mutant: stop() does not release the semaphore.
PostNothing == UNCHANGED semEnd
PostEnd == semEnd' = semEnd + 1

StopThread ==
    /\ spc \in {"stop", "ending"} /\ tpc # "none"
    /\ spc = "ending" => interval # 0
    /\ interval' = 0
    /\ PostEnd
    /\ spc' = IF spc = "stop" THEN "join" ELSE "killed"
    /\ UNCHANGED <<tpc, callback, requested, depth>>

\* Mutant: stop() leaves the callback.
KeepCallback == UNCHANGED callback
RemoveCallback == callback' = FALSE

JoinThread ==
    /\ spc \in {"join", "killed"} /\ tpc = "exited"
    /\ tpc' = "none"
    /\ RemoveCallback
    /\ spc' = IF spc = "join" THEN "run" ELSE "ending"
    /\ UNCHANGED <<interval, semEnd, requested, depth>>

-----------------------------------------------------------------------------
(* The engine and interruptCallback().                                      *)

\* The script checks for interrupts: the observers run, and with them
\* onInterrupt, which is the script.
Interrupt ==
    /\ spc = "run" /\ requested
    /\ requested' = FALSE
    /\ IF callback
         THEN depth < MaxDepth /\ depth' = depth + 1 /\ callback' = FALSE
         ELSE UNCHANGED <<depth, callback>>
    /\ UNCHANGED <<interval, semEnd, tpc, spc>>

\* Mutant: the callback is not enabled again.
EnableNot == UNCHANGED callback
EnableCallback == callback' = TRUE

CallbackReturns ==
    /\ spc = "run" /\ depth > 0
    /\ depth' = depth - 1
    /\ EnableCallback
    /\ UNCHANGED <<interval, semEnd, tpc, requested, spc>>

\* An error of onInterrupt cannot be reported.
CallbackFails ==
    /\ spc = "run" /\ depth > 0
    /\ spc' = "ending" /\ depth' = 0
    /\ UNCHANGED <<interval, semEnd, tpc, callback, requested>>

ScriptEnds ==
    /\ spc = "run" /\ depth = 0
    /\ spc' = "ending"
    /\ UNCHANGED <<interval, semEnd, tpc, callback, requested, depth>>

\* ~HostRuntime(), behind _watchDog.setInterruptInterval(0).
DestroyRuntime ==
    /\ spc = "ending" /\ interval = 0
    /\ spc' = "destroyed"
    /\ UNCHANGED <<interval, semEnd, tpc, callback, requested, depth>>

-----------------------------------------------------------------------------

ThreadStep == IntervalElapses \/ SeeEnd \/ TestCallback \/ RequestInterrupt
ChangeStep == Start \/ StopThread \/ JoinThread \/ DestroyRuntime
CallbackEnds == CallbackReturns \/ CallbackFails

Next ==
    \/ ThreadStep \/ ChangeStep \/ CallbackEnds \/ Interrupt
    \/ SetInterruptInterval \/ ScriptEnds

Spec == Init /\ [][Next]_vars

\* Threads run, the engine comes to check for interrupts, onInterrupt returns.
\* The script need not set an interval or end.
Fairness == /\ WF_vars(ThreadStep) /\ WF_vars(ChangeStep)
            /\ WF_vars(Interrupt) /\ WF_vars(CallbackEnds)

FairSpec == Spec /\ Fairness

-----------------------------------------------------------------------------
(* Properties.                                                              *)

\* start() finds neither a thread nor a callback:
\* ASSERT( _watchDogThread == JLThreadInvalidHandler ) and
\* ASSERT( prevInterruptCallback == nullptr ).
StartsFromNothing == spc = "start" => tpc = "none" /\ ~callback

\* While the script runs, a thread is there exactly when the interval is not 0,
\* and the callback exactly when onInterrupt does not run: onInterrupt is not
\* interrupted, and interruptCallback() finds no callback when it enables itself
\* again, ASSERT( tmp == nullptr ).
WatchesWhenSet ==
    spc = "run" =>
        /\ interval # 0 <=> tpc # "none"
        /\ callback <=> interval # 0 /\ depth = 0

\* The thread does not outlive the runtime it requests interrupts of: "it is
\* important to destroy the watchDogThread BEFORE destroying the cx".
NoThreadWithoutRuntime == spc = "destroyed" => tpc = "none"

\* A script that runs with an interval is interrupted, again and again, until
\* it sets the interval or ends.
KeepsInterrupting ==
    (spc = "run" /\ depth = 0 /\ interval # 0)
        ~> (depth > 0 \/ spc # "run" \/ interval = 0)

\* Setting the interval to 0, and the destruction of the runtime, end.
StopEnds == spc \in {"stop", "ending"} ~> spc \in {"run", "destroyed"}
=============================================================================
