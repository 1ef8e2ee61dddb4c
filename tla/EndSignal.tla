------------------------------- MODULE EndSignal -------------------------------
(***************************************************************************)
(* The end signal of the host program (src/src/jshost/jshost.cpp): Ctrl-C,  *)
(* the shutdown of the system or an assignment of endSignal sets a state;   *)
(* the waits that processEvents() runs for the handles of endSignalEvents() *)
(* sleep on a condition until it is set.  The condition is JLCond of        *)
(* src/src/common/jlplatform.h, that of pthreads on UNIX, a count of the    *)
(* waiters and a manual event on WIN.                                       *)
(*                                                                          *)
(* What a thread does under the mutex is one action up to the point where   *)
(* it touches what others touch without it: on WIN a waiter decrements the  *)
(* count and resets the event outside of the mutex.                         *)
(***************************************************************************)
EXTENDS Integers, FiniteSets

CONSTANTS
    Handles,        \* handles that endSignalEvents() returned
    Platforms,      \* those the program is built for
    MaxWaits,       \* per platform, handles a call of processEvents() gets
    MaxInterrupt,   \* signals the system sends
    UIntMax,        \* largest value of the count of the waiters
    Misuse          \* "lock": a signal may interrupt the owner of the mutex
                    \* "exit": a signal may be handled while the program ends

ASSUME PlatformsAssumption ==
    Platforms # {} /\ Platforms \subseteq {"WIN", "UNIX"}
ASSUME HandlesAssumption ==
    /\ IsFiniteSet(Handles) /\ MaxWaits \in [Platforms -> Nat]
    /\ Handles \cap {"script", "handler", "free", "freed"} = {}
ASSUME BoundsAssumption == MaxInterrupt \in Nat /\ UIntMax \in Nat \ {0}
ASSUME MisuseAssumption == Misuse \subseteq {"lock", "exit"}

VARIABLES
    platform,
    endSignal,      \* gEndSignalState: 0, 1 (interrupt) or 2 (shutdown)
    mutex,          \* owner of gEndSignalLock, "free", or "freed" at the end
    waitersCount,   \* WIN: waiters_count
    broadcastEvent, \* WIN: events[1]
    cancel,         \* EndSignalProcessEvent::cancel
    wpc, reg,       \* the waits; reg is the count a wait has read
    spc,            \* the script
    waiting,        \* the handles of its call that are not ended yet
    toCancel,       \* those that it has not canceled yet
    callback,       \* the handle whose callback runs, a set of at most one
    other,          \* the call was ended by an event of another kind
    ipc, interrupts,\* Interrupt()
    suspended,      \* UNIX: it runs on the script's thread
    haveWaiters     \* what JLCondBroadcast() read, per caller

cond == <<waitersCount, broadcastEvent, wpc, reg>>
call == <<waiting, toCancel, callback, other>>
handler == <<ipc, interrupts, suspended>>
vars == <<platform, endSignal, mutex, cond, cancel, spc, call, handler,
          haveWaiters>>

Callers == {"script", "handler"}    \* threads that broadcast

TypeOK ==
    /\ platform \in Platforms
    /\ endSignal \in 0..2
    /\ mutex \in Handles \cup Callers \cup {"free", "freed"}
    /\ waitersCount \in 0..UIntMax
    /\ broadcastEvent \in BOOLEAN
    /\ cancel \in [Handles -> BOOLEAN]
    /\ wpc \in [Handles -> {"idle", "enter", "increment", "sleep", "awake",
                            "decrement", "last", "reset", "done"}]
    /\ reg \in [Handles -> 0..UIntMax]
    /\ spc \in {"run", "set", "wait", "cancel", "broadcast", "collect", "end",
                "ended"}
    /\ waiting \subseteq Handles /\ toCancel \subseteq waiting
    /\ callback \subseteq waiting /\ Cardinality(callback) <= 1
    /\ other \in BOOLEAN
    /\ ipc \in {"none", "acquire", "broadcast"}
    /\ interrupts \in 0..MaxInterrupt
    /\ suspended \in BOOLEAN
    /\ haveWaiters \in [Callers -> BOOLEAN]

Init ==
    /\ platform \in Platforms
    /\ endSignal = 0 /\ mutex = "free"
    /\ waitersCount = 0 /\ broadcastEvent = FALSE
    /\ cancel = [h \in Handles |-> FALSE]
    /\ wpc = [h \in Handles |-> "idle"] /\ reg = [h \in Handles |-> 0]
    /\ spc = "run" /\ waiting = {} /\ toCancel = {} /\ callback = {}
    /\ other = FALSE
    /\ ipc = "none" /\ interrupts = 0 /\ suspended = FALSE
    /\ haveWaiters = [c \in Callers |-> FALSE]

-----------------------------------------------------------------------------
(* JLCondBroadcast(), by a caller that owns the mutex.                      *)

\* Mutant: `> 1` for `> 0`.
ReadCountOffByOne(c) ==
    haveWaiters' = [haveWaiters EXCEPT ![c] = waitersCount > 1]
ReadCount(c) == haveWaiters' = [haveWaiters EXCEPT ![c] = waitersCount > 0]

\* Mutant: the platform's broadcast wakes one waiter only.
WakeOne ==
    IF platform = "UNIX" /\ \E h \in Handles : wpc[h] = "sleep"
      THEN \E h \in Handles :
              wpc[h] = "sleep" /\ wpc' = [wpc EXCEPT ![h] = "enter"]
      ELSE UNCHANGED wpc

WakeAll ==
    IF platform = "UNIX"
      THEN wpc' = [h \in Handles |->
                     IF wpc[h] = "sleep" THEN "enter" ELSE wpc[h]]
      ELSE UNCHANGED wpc

BroadcastAndRelease(c) ==
    /\ mutex = c
    /\ mutex' = "free"
    /\ WakeAll
    /\ broadcastEvent' = (broadcastEvent \/ (platform = "WIN" /\ haveWaiters[c]))
    /\ UNCHANGED <<platform, endSignal, waitersCount, reg, cancel, call,
                   interrupts, haveWaiters>>

-----------------------------------------------------------------------------
(* EndSignalProcessEvent::startWait() and JLCondWait(), on a thread.        *)

Wait(h, from, to) == wpc[h] = from /\ wpc' = [wpc EXCEPT ![h] = to]
OutsideWaits == <<platform, endSignal, cancel, spc, call, handler, haveWaiters>>

WaitIsOver(h) == endSignal # 0 \/ cancel[h]

\* Acquires the mutex and tests what it waits for.
Enter(h) ==
    /\ mutex = "free"
    /\ IF WaitIsOver(h)
         THEN Wait(h, "enter", "done") /\ UNCHANGED <<mutex, reg>>
         ELSE IF platform = "UNIX"
                THEN Wait(h, "enter", "sleep") /\ UNCHANGED <<mutex, reg>>
                ELSE /\ Wait(h, "enter", "increment")
                     /\ mutex' = h
                     /\ reg' = [reg EXCEPT ![h] = waitersCount]
    /\ UNCHANGED <<OutsideWaits, waitersCount, broadcastEvent>>

IncrementAndRelease(h) ==
    /\ Wait(h, "increment", "sleep")
    /\ waitersCount' = (reg[h] + 1) % (UIntMax + 1)
    /\ mutex' = "free"
    /\ UNCHANGED <<OutsideWaits, broadcastEvent, reg>>

\* WaitForMultipleObjects() returns.
Wake(h) ==
    /\ platform = "WIN" /\ broadcastEvent
    /\ Wait(h, "sleep", "awake")
    /\ UNCHANGED <<OutsideWaits, mutex, waitersCount, broadcastEvent, reg>>

\* pthread_cond_wait() may return without a broadcast.
WakeSpuriously(h) ==
    /\ platform = "UNIX"
    /\ Wait(h, "sleep", "enter")
    /\ UNCHANGED <<OutsideWaits, mutex, waitersCount, broadcastEvent, reg>>

ReadForDecrement(h) ==
    /\ Wait(h, "awake", "decrement")
    /\ reg' = [reg EXCEPT ![h] = waitersCount]
    /\ UNCHANGED <<OutsideWaits, mutex, waitersCount, broadcastEvent>>

OneLess(n) == (n + UIntMax) % (UIntMax + 1)

Decrement(h) ==
    /\ Wait(h, "decrement", "last")
    /\ waitersCount' = OneLess(reg[h])
    /\ UNCHANGED <<OutsideWaits, mutex, broadcastEvent, reg>>

\* last_waiter: the compiler may keep the count or read it again.
IsLast(h) ==
    /\ \E count \in {OneLess(reg[h]), waitersCount} :
         Wait(h, "last", IF count = 0 THEN "reset" ELSE "enter")
    /\ UNCHANGED <<OutsideWaits, mutex, waitersCount, broadcastEvent, reg>>

ResetEvent(h) ==
    /\ Wait(h, "reset", "enter")
    /\ broadcastEvent' = FALSE
    /\ UNCHANGED <<OutsideWaits, mutex, waitersCount, reg>>

-----------------------------------------------------------------------------
(* Interrupt().                                                             *)

\* WIN runs it on a thread of its own.  UNIX runs it on an interrupted thread,
\* for instance the script's.
Signal ==
    /\ ipc = "none" /\ interrupts < MaxInterrupt /\ spc # "ended"
    /\ interrupts' = interrupts + 1
    /\ ipc' = "acquire"
    /\ suspended' \in {FALSE} \cup IF platform = "UNIX" THEN {TRUE} ELSE {}
    /\ suspended' => mutex # "script" \/ "lock" \in Misuse
    /\ UNCHANGED <<platform, endSignal, mutex, cond, cancel, spc, call,
                   haveWaiters>>

\* SIGKILL, the shutdown of UNIX, cannot be caught.
SetByInterrupt ==
    /\ ipc = "acquire" /\ mutex = "free"
    /\ mutex' = "handler"
    /\ endSignal' \in IF platform = "WIN" THEN 1..2 ELSE {1}
    /\ ReadCount("handler")
    /\ ipc' = "broadcast"
    /\ UNCHANGED <<platform, cond, cancel, spc, call, interrupts, suspended>>

InterruptEnds ==
    /\ ipc = "broadcast"
    /\ BroadcastAndRelease("handler")
    /\ ipc' = "none" /\ suspended' = FALSE
    /\ UNCHANGED spc

-----------------------------------------------------------------------------
(* The script.                                                              *)

Script(from, to) == ~suspended /\ spc = from /\ spc' = to
OutsideScript == <<platform, cond, handler>>

\* EndSignalSetter(), in a callback or not.
SetEndSignal ==
    /\ Script("run", "set")
    /\ mutex = "free" /\ mutex' = "script"
    /\ endSignal' \in 0..2
    /\ ReadCount("script")
    /\ UNCHANGED <<OutsideScript, cancel, call>>

SetterReturns ==
    /\ Script("set", "run")
    /\ BroadcastAndRelease("script")
    /\ UNCHANGED <<ipc, suspended>>

\* Mutant: prepareWait() does not clear cancel.
CancelKept(hs) == UNCHANGED cancel
PrepareWait(hs) == cancel' = [h \in Handles |-> cancel[h] /\ h \notin hs]

ProcessEvents(hs) ==
    /\ Script("run", "wait")
    /\ waiting = {} /\ hs # {} /\ Cardinality(hs) <= MaxWaits[platform]
    /\ PrepareWait(hs)
    /\ waiting' = hs /\ toCancel' = hs
    /\ wpc' = [h \in Handles |-> IF h \in hs THEN "enter" ELSE wpc[h]]
    /\ other' = FALSE
    /\ UNCHANGED <<platform, endSignal, mutex, waitersCount, broadcastEvent,
                   reg, callback, handler, haveWaiters>>

WaitSignals ==
    /\ Script("wait", "cancel")
    /\ \E h \in waiting : wpc[h] = "done"
    /\ UNCHANGED <<OutsideScript, endSignal, mutex, cancel, call, haveWaiters>>

\* An event of another handle of the call, a timeout say.
OtherEvent ==
    /\ Script("wait", "cancel")
    /\ other' = TRUE
    /\ UNCHANGED <<OutsideScript, endSignal, mutex, cancel, waiting, toCancel,
                   callback, haveWaiters>>

\* The wait has returned: there is nothing to cancel.
CancelNothing(h) ==
    /\ Script("cancel", "cancel")
    /\ h \in toCancel /\ wpc[h] = "done"
    /\ toCancel' = toCancel \ {h}
    /\ UNCHANGED <<OutsideScript, endSignal, mutex, cancel, waiting, callback,
                   other, haveWaiters>>

\* cancelWait()
CancelWait(h) ==
    /\ Script("cancel", "broadcast")
    /\ h \in toCancel /\ toCancel' = toCancel \ {h}
    /\ mutex = "free" /\ mutex' = "script"
    /\ cancel' = [cancel EXCEPT ![h] = TRUE]
    /\ ReadCount("script")
    /\ UNCHANGED <<OutsideScript, endSignal, waiting, callback, other>>

CancelWaitReturns ==
    /\ Script("broadcast", "cancel")
    /\ BroadcastAndRelease("script")
    /\ UNCHANGED <<ipc, suspended>>

AllCanceled ==
    /\ Script("cancel", "collect") /\ toCancel = {}
    /\ UNCHANGED <<OutsideScript, endSignal, mutex, cancel, call, haveWaiters>>

Collect ==
    /\ Script("collect", "end")
    /\ \A h \in waiting : wpc[h] = "done"
    /\ UNCHANGED <<OutsideScript, endSignal, mutex, cancel, call, haveWaiters>>

\* endWait() of the next handle: with the signal its callback runs, which is
\* the script.
EndWait(h) ==
    /\ ~suspended /\ spc = "end" /\ h \in waiting
    /\ wpc' = [wpc EXCEPT ![h] = "idle"]
    /\ IF endSignal # 0
         THEN spc' = "run" /\ callback' = {h} /\ UNCHANGED waiting
         ELSE /\ waiting' = waiting \ {h}
              /\ spc' = IF waiting' = {} THEN "run" ELSE "end"
              /\ UNCHANGED callback
    /\ UNCHANGED <<platform, endSignal, mutex, waitersCount, broadcastEvent,
                   reg, cancel, toCancel, other, handler, haveWaiters>>

CallbackReturns ==
    /\ ~suspended /\ spc = "run" /\ callback # {}
    /\ waiting' = waiting \ callback /\ callback' = {}
    /\ spc' = IF waiting' = {} THEN "run" ELSE "end"
    /\ UNCHANGED <<OutsideScript, endSignal, mutex, cancel, toCancel, other,
                   haveWaiters>>

\* freeInterrupt(), when the script has ended.
FreeInterrupt ==
    /\ Script("run", "ended") /\ waiting = {}
    /\ \/ ipc = "none"
       \/ platform = "WIN" /\ "exit" \in Misuse
    /\ mutex = "free" /\ mutex' = "freed"
    /\ UNCHANGED <<OutsideScript, endSignal, cancel, call, haveWaiters>>

-----------------------------------------------------------------------------

WaitStep(h) ==
    \/ Enter(h) \/ IncrementAndRelease(h) \/ Wake(h) \/ ReadForDecrement(h)
    \/ Decrement(h) \/ IsLast(h) \/ ResetEvent(h)

HandlerStep == SetByInterrupt \/ InterruptEnds

\* What a call does by itself.
CallStep ==
    \/ SetterReturns \/ WaitSignals \/ CancelWaitReturns \/ AllCanceled
    \/ Collect \/ CallbackReturns
    \/ \E h \in Handles : CancelNothing(h) \/ CancelWait(h) \/ EndWait(h)

Next ==
    \/ \E h \in Handles : WaitStep(h) \/ WakeSpuriously(h)
    \/ Signal \/ HandlerStep
    \/ CallStep \/ SetEndSignal \/ OtherEvent \/ FreeInterrupt
    \/ \E hs \in SUBSET Handles : ProcessEvents(hs)

Spec == Init /\ [][Next]_vars

\* Threads run and callbacks return.  No signal need come, the script need not
\* call anything, and a wait need not wake without a broadcast.
Fairness == /\ \A h \in Handles : WF_vars(WaitStep(h))
            /\ WF_vars(HandlerStep)
            /\ WF_vars(CallStep)

FairSpec == Spec /\ Fairness

-----------------------------------------------------------------------------
(* Properties.                                                              *)

\* Something will wake the sleepers: the event is set, or a caller that found
\* waiters is about to broadcast.
WakeIsComing ==
    \/ (platform = "WIN" /\ broadcastEvent)
    \/ \E c \in Callers : mutex = c /\ (platform = "UNIX" \/ haveWaiters[c])

\* startWait() never sleeps through the end signal or its own cancel: if what a
\* sleeping wait waits for holds, its wake-up is coming.
NoLostWakeup ==
    \A h \in Handles : wpc[h] = "sleep" /\ WaitIsOver(h) => WakeIsComing

\* A processEvents() call that no other event ended, and that no callback
\* changed the state in, reports the end signal.
EndsForTheSignal ==
    spc \in {"cancel", "broadcast", "collect"} /\ ~other => endSignal # 0

\* The comment of JLCond, "protects the waiters_count_ from being corrupted by
\* race conditions. This is not necessary as long as [broadcast is] called by a
\* thread that has locked the same external_mutex": JLCondBroadcast() and
\* JLCondWait() find in waiters_count the threads that wait.
InCondWait(h) == wpc[h] \in {"sleep", "awake", "decrement"}
WaitersAreCounted ==
    mutex = "free" /\ platform = "WIN" =>
        waitersCount = Cardinality({h \in Handles : InCondWait(h)})

\* Interrupt() finds the mutex it acquires: ASSERT( JLMutexOk(mutex) ).
HandlerFindsTheMutex == ~(ipc = "acquire" /\ mutex = "freed")

\* The end signal gets the script out of processEvents(), or into a callback.
SignalEndsCall == (spc = "wait" /\ endSignal # 0) ~> spc = "run"

\* Once the call cancels its waits it returns.
CancelEnds == spc = "cancel" ~> spc = "run"
=============================================================================
