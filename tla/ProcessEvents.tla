---------------------------- MODULE ProcessEvents ----------------------------
(***************************************************************************)
(* The event multiplexer of the jslang module: processEvents(h1, h2, ...)   *)
(* (src/src/jslang/static.cpp).                                             *)
(*                                                                          *)
(* The script thread ("main") hands every handle of a call to a pooled      *)
(* worker thread (one per argument position, a "slot"), sleeps until one    *)
(* worker posts the shared semaphore signalEventSem, cancels or kills the   *)
(* other waits, collects one token per handle and then runs the handles'    *)
(* endWait(), which may call back into script and from there into a nested  *)
(* processEvents().                                                         *)
(*                                                                          *)
(* Two kinds of handles are modelled in full: TimeoutProcessEvent           *)
(* (jslang/static.cpp), whose wait can be cancelled, and SemProcessEvent    *)
(* (jsio/semaphore.cpp), whose cancelWait() returns false, so that the      *)
(* thread that waits is killed.                                             *)
(*                                                                          *)
(* One action is one access to shared memory, one semaphore operation or    *)
(* one call.  Accesses to peSlot are sequentially consistent: it is an      *)
(* aligned pointer that both threads access around semaphore operations.    *)
(***************************************************************************)
EXTENDS Integers, Sequences, FiniteSets

CONSTANTS
    MaxItem,        \* PROCESSEVENT_MAX_ITEM, the number of slots
    MaxDepth,       \* bound: nesting of processEvents through callbacks
    MaxPost,        \* bound: value of a user semaphore reached by posts
    Timeouts,       \* handles made by timeoutEvents()
    ZeroTimeouts,   \* those whose timeout is 0
    SemEvents,      \* handles made by Semaphore::events()
    Callers,        \* what handles script passes: "once": each at most once;
                    \* "fresh": made for the call, as in the documentation;
                    \* "any": also handles that a call already used
    ThreadsMayFail, \* TRUE: JLThreadStart may fail
    TimedWaitReportsTimeout
        \* TRUE: JLEventWait returns JLTIMEOUT when the time is over (WIN);
        \* FALSE: it returns JLOK then (UNIX: the error code is not errno)

ASSUME MaxItemAssumption == MaxItem \in Nat \ {0}
ASSUME MaxDepthAssumption == MaxDepth \in Nat \ {0}
ASSUME MaxPostAssumption == MaxPost \in Nat
ASSUME KindsAssumption == /\ ZeroTimeouts \subseteq Timeouts
                          /\ Timeouts \cap SemEvents = {}
ASSUME FlagsAssumption == /\ Callers \in {"once", "fresh", "any"}
                          /\ ThreadsMayFail \in BOOLEAN
                          /\ TimedWaitReportsTimeout \in BOOLEAN

Handles == Timeouts \cup SemEvents
Slots == 1..MaxItem
NULL == "NULL"
ASSUME NullAssumption == NULL \notin Handles

VARIABLES
    \* ProcessEventThreadInfo[] and the thread it owns
    peSlot,      \* the handle a slot has to wait for, or NULL
    isEnd,       \* the slot's worker has to exit
    startSem,    \* value of the slot's start semaphore
    worker,      \* program counter of the slot's thread, "none": no thread
    cur,         \* the handle whose startWait() the thread is executing
    killed,      \* JLThreadCancel() was called on the thread
    \* ModulePrivate
    signalSem,   \* value of processEventSignalEventSem
    \* the handles
    cancel,      \* the cancel event of a timeout handle is set
    canceled,    \* field canceled of a timeout handle
    hasEv,       \* field _hasEvent of a semaphore handle
    semCount,    \* value of the user semaphore behind a semaphore handle
    used,        \* the handle was an argument of a call
    happened,    \* history: the last wait ended because its event occurred
    \* the script thread: program counter and its stack of calls
    main, depth, args, idx, mask

slotVars == <<peSlot, isEnd, startSem, worker, cur, killed>>
handleVars == <<cancel, canceled, hasEv, semCount, used, happened>>
stackVars == <<depth, args, idx, mask>>
vars == <<slotVars, signalSem, handleVars, main, stackVars>>

WorkerPC == {"none", "acquire", "woken", "waiting", "taken", "returned",
             "cleared", "exited", "dead", "hung", "crashed"}
MainPC == {"script", "thread", "setSlot", "start", "wait", "repost", "check",
           "cancelWait", "killSlot", "killSignal", "killThread", "killJoin",
           "collect", "endWait", "done", "release", "wakeWorker", "join",
           "released"}

ArgLists == UNION {[1..n -> Handles] : n \in Slots}

TypeOK ==
    /\ peSlot \in [Slots -> Handles \cup {NULL}]
    /\ isEnd \in [Slots -> BOOLEAN]
    /\ startSem \in [Slots -> Nat]
    /\ worker \in [Slots -> WorkerPC]
    /\ cur \in [Slots -> Handles \cup {NULL}]
    /\ killed \in [Slots -> BOOLEAN]
    /\ signalSem \in Nat
    /\ cancel \in [Timeouts -> BOOLEAN]
    /\ canceled \in [Timeouts -> BOOLEAN]
    /\ hasEv \in [SemEvents -> BOOLEAN]
    /\ semCount \in [SemEvents -> Nat]
    /\ used \in [Handles -> BOOLEAN]
    /\ happened \in [Handles -> BOOLEAN]
    /\ main \in MainPC
    /\ depth \in 0..MaxDepth
    /\ args \in [0..MaxDepth -> ArgLists \cup {<<>>}]
    /\ idx \in [0..MaxDepth -> Nat]
    /\ mask \in [0..MaxDepth -> SUBSET Slots]

(***************************************************************************)
(* jslangModuleInit: the slots are zeroed and the signal semaphore is       *)
(* created empty.  The constructors of the handles leave canceled and       *)
(* _hasEvent uninitialised.                                                 *)
(***************************************************************************)
Init ==
    /\ peSlot = [i \in Slots |-> NULL]
    /\ isEnd = [i \in Slots |-> FALSE]
    /\ startSem = [i \in Slots |-> 0]
    /\ worker = [i \in Slots |-> "none"]
    /\ cur = [i \in Slots |-> NULL]
    /\ killed = [i \in Slots |-> FALSE]
    /\ signalSem = 0
    /\ cancel = [h \in Timeouts |-> FALSE]
    /\ canceled \in [Timeouts -> BOOLEAN]
    /\ hasEv \in [SemEvents -> BOOLEAN]
    /\ semCount = [h \in SemEvents |-> 0]
    /\ used = [h \in Handles |-> FALSE]
    /\ happened = [h \in Handles |-> FALSE]
    /\ main = "script"
    /\ depth = 0
    /\ args = [d \in 0..MaxDepth |-> <<>>]
    /\ idx = [d \in 0..MaxDepth |-> 1]
    /\ mask = [d \in 0..MaxDepth |-> {}]

-----------------------------------------------------------------------------
(* Script.                                                                   *)

Argc == Len(args[depth])
I == idx[depth]
Arg == args[depth][I]

\* The frame of the current call is gone.
PopFrame ==
    /\ depth' = depth - 1
    /\ args' = [args EXCEPT ![depth] = <<>>]
    /\ idx' = [idx EXCEPT ![depth] = 1]
    /\ mask' = [mask EXCEPT ![depth] = {}]

\* The arguments of a call that script makes with handles it uses only once.
Fresh(a) ==
    /\ \A i \in DOMAIN a : ~used[a[i]]
    /\ \A i, j \in DOMAIN a : a[i] = a[j] => i = j

\* processEvents(a): the argument checks and prepareWait() of every handle,
\* which does nothing for both kinds.  A call with no argument or with a wrong
\* one returns without any effect.
Call(a) ==
    /\ main = "script"
    /\ depth < MaxDepth
    /\ Callers = "any" \/ Fresh(a)
    /\ depth' = depth + 1
    /\ args' = [args EXCEPT ![depth + 1] = a]
    /\ used' = [h \in Handles |-> used[h] \/ \E i \in DOMAIN a : a[i] = h]
    /\ happened' = [h \in Handles |->
                      happened[h] /\ ~ \E i \in DOMAIN a : a[i] = h]
    /\ main' = "thread"
    /\ UNCHANGED <<slotVars, signalSem, cancel, canceled, hasEv, semCount,
                   idx, mask>>

\* A handle no call refers to is collected and script makes another one.
Renew(h) ==
    /\ main = "script"
    /\ Callers # "once"
    /\ used[h]
    /\ \A d \in 1..depth : \A i \in DOMAIN args[d] : args[d][i] # h
    /\ used' = [used EXCEPT ![h] = FALSE]
    /\ happened' = [happened EXCEPT ![h] = FALSE]
    /\ UNCHANGED <<slotVars, signalSem, semCount, main, stackVars>>

\* timeoutEvents()
NewTimeout(h) ==
    /\ Renew(h)
    /\ cancel' = [cancel EXCEPT ![h] = FALSE]
    /\ \E b \in BOOLEAN : canceled' = [canceled EXCEPT ![h] = b]
    /\ UNCHANGED hasEv

\* Semaphore::events()
NewSemEvents(h) ==
    /\ Renew(h)
    /\ \E b \in BOOLEAN : hasEv' = [hasEv EXCEPT ![h] = b]
    /\ UNCHANGED <<cancel, canceled>>

\* Any thread or process posts the semaphore behind a semaphore handle.
Post(h) ==
    /\ semCount[h] < MaxPost
    /\ semCount' = [semCount EXCEPT ![h] = @ + 1]
    /\ UNCHANGED <<slotVars, signalSem, cancel, canceled, hasEv, used,
                   happened, main, stackVars>>

-----------------------------------------------------------------------------
(* processEvents: start the workers.                                         *)

StartThread ==
    /\ main = "thread"
    /\ worker' = [worker EXCEPT ![I] = IF @ = "none" THEN "acquire" ELSE @]
    /\ isEnd' = [isEnd EXCEPT ![I] = IF worker[I] = "none" THEN FALSE ELSE @]
    /\ main' = "setSlot"
    /\ UNCHANGED <<peSlot, startSem, cur, killed, signalSem, handleVars,
                   stackVars>>

\* throwOSError: the slots that were started before keep waiting.
StartThreadFails ==
    /\ main = "thread"
    /\ ThreadsMayFail
    /\ worker[I] = "none"
    /\ main' = "script"
    /\ PopFrame
    /\ UNCHANGED <<slotVars, signalSem, handleVars>>

SetSlot ==
    /\ main = "setSlot"
    /\ peSlot' = [peSlot EXCEPT ![I] = Arg]
    /\ main' = "start"
    /\ UNCHANGED <<isEnd, startSem, worker, cur, killed, signalSem, handleVars,
                   stackVars>>

\* Go on with the next argument at pc again, or after the last one at pc next.
NextArg(again, next) ==
    /\ main' = IF I < Argc THEN again ELSE next
    /\ idx' = [idx EXCEPT ![depth] = IF I < Argc THEN I + 1 ELSE 1]
    /\ UNCHANGED <<depth, args, mask>>

\* Mutant: the start semaphore is released twice.
ReleaseStartTwice ==
    /\ main = "start"
    /\ startSem' = [startSem EXCEPT ![I] = @ + 2]
    /\ NextArg("thread", "wait")
    /\ UNCHANGED <<peSlot, isEnd, worker, cur, killed, signalSem, handleVars>>

ReleaseStart ==
    /\ main = "start"
    /\ startSem' = [startSem EXCEPT ![I] = @ + 1]
    /\ NextArg("thread", "wait")
    /\ UNCHANGED <<peSlot, isEnd, worker, cur, killed, signalSem, handleVars>>

\* Mutant: the token is looked at, not taken.
WaitSignalPeek ==
    /\ main = "wait"
    /\ signalSem > 0
    /\ main' = "repost"
    /\ UNCHANGED <<slotVars, signalSem, handleVars, stackVars>>

\* Sleep until a worker has posted; give the token back, it is collected later.
WaitSignal ==
    /\ main = "wait"
    /\ signalSem > 0
    /\ signalSem' = signalSem - 1
    /\ main' = "repost"
    /\ UNCHANGED <<slotVars, handleVars, stackVars>>

RepostSignal ==
    /\ main = "repost"
    /\ signalSem' = signalSem + 1
    /\ main' = "check"
    /\ UNCHANGED <<slotVars, handleVars, stackVars>>
-----------------------------------------------------------------------------
(* processEvents: cancel the other waits.                                    *)

\* peSlot is read once; what is not NULL is the argument of this slot.
CheckSlot ==
    /\ main = "check"
    /\ IF peSlot[I] = NULL
       THEN NextArg("check", "collect")
       ELSE main' = "cancelWait" /\ UNCHANGED stackVars
    /\ UNCHANGED <<slotVars, signalSem, handleVars>>

\* TimeoutProcessEvent::cancelWait
CancelTimeout ==
    /\ main = "cancelWait"
    /\ Arg \in Timeouts
    /\ cancel' = [cancel EXCEPT ![Arg] = TRUE]
    /\ NextArg("check", "collect")
    /\ UNCHANGED <<slotVars, signalSem, canceled, hasEv, semCount, used,
                   happened>>

\* SemProcessEvent::cancelWait returns false: the thread has to be killed.
CancelSem ==
    /\ main = "cancelWait"
    /\ Arg \in SemEvents
    /\ main' = "killSlot"
    /\ UNCHANGED <<slotVars, signalSem, handleVars, stackVars>>

KillSlot ==
    /\ main = "killSlot"
    /\ peSlot' = [peSlot EXCEPT ![I] = NULL]
    /\ main' = "killSignal"
    /\ UNCHANGED <<isEnd, startSem, worker, cur, killed, signalSem, handleVars,
                   stackVars>>

\* Mutant: nobody signals for the killed thread.
KillSignalNot ==
    /\ main = "killSignal"
    /\ main' = "killThread"
    /\ UNCHANGED <<slotVars, signalSem, handleVars, stackVars>>

KillSignal ==
    /\ main = "killSignal"
    /\ signalSem' = signalSem + 1
    /\ main' = "killThread"
    /\ UNCHANGED <<slotVars, handleVars, stackVars>>

KillThread ==
    /\ main = "killThread"
    /\ killed' = [killed EXCEPT ![I] = TRUE]
    /\ main' = "killJoin"
    /\ UNCHANGED <<peSlot, isEnd, startSem, worker, cur, signalSem, handleVars,
                   stackVars>>

\* The thread is joined and forgotten; its start semaphore is kept.
KillJoin ==
    /\ main = "killJoin"
    /\ worker[I] = "dead"
    /\ worker' = [worker EXCEPT ![I] = "none"]
    /\ cur' = [cur EXCEPT ![I] = NULL]
    /\ killed' = [killed EXCEPT ![I] = FALSE]
    /\ NextArg("check", "collect")
    /\ UNCHANGED <<peSlot, isEnd, startSem, signalSem, handleVars>>

-----------------------------------------------------------------------------
(* processEvents: collect the tokens, end the waits, return.                 *)

\* Mutant: the semaphore is not waited for.
CollectAnyway ==
    /\ main = "collect"
    /\ signalSem' = signalSem - 1
    /\ NextArg("collect", "endWait")
    /\ UNCHANGED <<slotVars, handleVars>>

\* Mutant: only one token is collected.
CollectOne ==
    /\ main = "collect"
    /\ signalSem > 0
    /\ signalSem' = signalSem - 1
    /\ main' = "endWait"
    /\ UNCHANGED <<slotVars, handleVars, stackVars>>

Collect ==
    /\ main = "collect"
    /\ signalSem > 0
    /\ signalSem' = signalSem - 1
    /\ NextArg("collect", "endWait")
    /\ UNCHANGED <<slotVars, handleVars>>

\* What endWait() stores in *hasEvent.
HasEvent(h) == IF h \in Timeouts THEN ~canceled[h] ELSE hasEv[h]

\* After the last endWait() the call returns.
AfterEndWait == IF I < Argc THEN "endWait" ELSE "done"

\* Mutant: the callback runs whether or not there is an event.
EndWaitCallsBack ==
    /\ main = "endWait"
    /\ ~HasEvent(Arg)
    /\ main' \in {AfterEndWait, "script"}
    /\ idx' = [idx EXCEPT ![depth] = I + 1]
    /\ UNCHANGED <<slotVars, signalSem, handleVars, depth, args, mask>>

\* A wait that was cancelled: nothing is reset.
EndWaitNoEvent ==
    /\ main = "endWait"
    /\ ~HasEvent(Arg)
    /\ main' = AfterEndWait
    /\ idx' = [idx EXCEPT ![depth] = I + 1]
    /\ UNCHANGED <<slotVars, signalSem, handleVars, depth, args, mask>>

\* The event occurred: a timeout is reset for further use and the callback is
\* called, if there is one; it is script.
EndWaitEvent ==
    /\ main = "endWait"
    /\ HasEvent(Arg)
    /\ mask' = [mask EXCEPT ![depth] = @ \cup {I}]
    /\ cancel' = IF Arg \in Timeouts THEN [cancel EXCEPT ![Arg] = FALSE]
                                     ELSE cancel
    /\ canceled' = IF Arg \in Timeouts THEN [canceled EXCEPT ![Arg] = FALSE]
                                       ELSE canceled
    /\ main' \in {AfterEndWait, "script"}
    /\ idx' = [idx EXCEPT ![depth] = I + 1]
    /\ UNCHANGED <<slotVars, signalSem, hasEv, semCount, used, happened,
                   depth, args>>

\* The callback returns or throws: an error is reported after the last one.
CallbackReturns ==
    /\ main = "script"
    /\ depth > 0
    /\ main' = IF I <= Argc THEN "endWait" ELSE "done"
    /\ UNCHANGED <<slotVars, signalSem, handleVars, stackVars>>

\* processEvents returns mask[depth] to the script that called it.
Return ==
    /\ main = "done"
    /\ main' = "script"
    /\ PopFrame
    /\ UNCHANGED <<slotVars, signalSem, handleVars>>

-----------------------------------------------------------------------------
(* ReleaseModule: the runtime was destroyed, which finalizes every handle.   *)

Finalized == main \in {"release", "wakeWorker", "join", "released"}

BeginRelease ==
    /\ main = "script"
    /\ depth = 0
    /\ main' = "release"
    /\ UNCHANGED <<slotVars, signalSem, handleVars, stackVars>>

NextSlot ==
    /\ main' = IF I < MaxItem THEN "release" ELSE "released"
    /\ idx' = [idx EXCEPT ![depth] = I + 1]
    /\ UNCHANGED <<depth, args, mask>>

\* A slot without a thread has nothing to end.
SkipSlot ==
    /\ main = "release"
    /\ worker[I] = "none"
    /\ NextSlot
    /\ UNCHANGED <<slotVars, signalSem, handleVars>>

\* Mutant: the worker is not told to end.
SetEndNot ==
    /\ main = "release"
    /\ worker[I] # "none"
    /\ main' = "wakeWorker"
    /\ UNCHANGED <<slotVars, signalSem, handleVars, stackVars>>

SetEnd ==
    /\ main = "release"
    /\ worker[I] # "none"
    /\ isEnd' = [isEnd EXCEPT ![I] = TRUE]
    /\ main' = "wakeWorker"
    /\ UNCHANGED <<peSlot, startSem, worker, cur, killed, signalSem, handleVars,
                   stackVars>>

WakeWorker ==
    /\ main = "wakeWorker"
    /\ startSem' = [startSem EXCEPT ![I] = @ + 1]
    /\ main' = "join"
    /\ UNCHANGED <<peSlot, isEnd, worker, cur, killed, signalSem, handleVars,
                   stackVars>>

JoinWorker ==
    /\ main = "join"
    /\ worker[I] = "exited"
    /\ worker' = [worker EXCEPT ![I] = "none"]
    /\ NextSlot
    /\ UNCHANGED <<peSlot, isEnd, startSem, cur, killed, signalSem, handleVars>>

-----------------------------------------------------------------------------
(* ProcessEventThread.                                                       *)

WorkerGoes(i, pc) == worker' = [worker EXCEPT ![i] = pc]

AcquireStart(i) ==
    /\ worker[i] = "acquire"
    /\ startSem[i] > 0
    /\ startSem' = [startSem EXCEPT ![i] = @ - 1]
    /\ WorkerGoes(i, "woken")
    /\ UNCHANGED <<peSlot, isEnd, cur, killed, signalSem, handleVars, main,
                   stackVars>>

Exit(i) ==
    /\ worker[i] = "woken"
    /\ isEnd[i]
    /\ WorkerGoes(i, "exited")
    /\ UNCHANGED <<peSlot, isEnd, startSem, cur, killed, signalSem, handleVars,
                   main, stackVars>>

\* peSlot->startWait() is called; with a null peSlot the process crashes.
BeginWait(i) ==
    /\ worker[i] = "woken"
    /\ ~isEnd[i]
    /\ WorkerGoes(i, IF peSlot[i] = NULL THEN "crashed" ELSE "waiting")
    /\ cur' = [cur EXCEPT ![i] = peSlot[i]]
    /\ hasEv' = [h \in SemEvents |-> hasEv[h] /\ h # peSlot[i]]
    /\ UNCHANGED <<peSlot, isEnd, startSem, killed, signalSem, cancel, canceled,
                   semCount, used, happened, main, stackVars>>

\* TimeoutProcessEvent::startWait, the cancel event is set.
WaitCanceled(i) ==
    /\ worker[i] = "waiting" /\ ~Finalized
    /\ cur[i] \in Timeouts \ ZeroTimeouts
    /\ cancel[cur[i]]
    /\ canceled' = [canceled EXCEPT ![cur[i]] = TRUE]
    /\ WorkerGoes(i, "returned")
    /\ UNCHANGED <<peSlot, isEnd, startSem, cur, killed, signalSem, cancel,
                   hasEv, semCount, used, happened, main, stackVars>>

\* TimeoutProcessEvent::startWait, the time is over.
WaitTimedOut(i) ==
    /\ worker[i] = "waiting" /\ ~Finalized
    /\ cur[i] \in Timeouts
    /\ cur[i] \in ZeroTimeouts \/ ~cancel[cur[i]]
    /\ canceled' = [canceled EXCEPT ![cur[i]] =
                      cur[i] \notin ZeroTimeouts /\ ~TimedWaitReportsTimeout]
    /\ happened' = [happened EXCEPT ![cur[i]] = TRUE]
    /\ WorkerGoes(i, "returned")
    /\ UNCHANGED <<peSlot, isEnd, startSem, cur, killed, signalSem, cancel,
                   hasEv, semCount, used, main, stackVars>>

\* SemProcessEvent::startWait: PR_WaitSemaphore takes a token ...
TakeSem(i) ==
    /\ worker[i] = "waiting" /\ ~Finalized
    /\ cur[i] \in SemEvents
    /\ semCount[cur[i]] > 0
    /\ semCount' = [semCount EXCEPT ![cur[i]] = @ - 1]
    /\ happened' = [happened EXCEPT ![cur[i]] = TRUE]
    /\ WorkerGoes(i, "taken")
    /\ UNCHANGED <<peSlot, isEnd, startSem, cur, killed, signalSem, cancel,
                   canceled, hasEv, used, main, stackVars>>

\* Mutant: _hasEvent is not set.
SetHasEventNot(i) ==
    /\ worker[i] = "taken" /\ ~Finalized
    /\ WorkerGoes(i, "returned")
    /\ UNCHANGED <<peSlot, isEnd, startSem, cur, killed, signalSem, handleVars,
                   main, stackVars>>

\* ... and then _hasEvent is set.
SetHasEvent(i) ==
    /\ worker[i] = "taken" /\ ~Finalized
    /\ hasEv' = [hasEv EXCEPT ![cur[i]] = TRUE]
    /\ WorkerGoes(i, "returned")
    /\ UNCHANGED <<peSlot, isEnd, startSem, cur, killed, signalSem, cancel,
                   canceled, semCount, used, happened, main, stackVars>>

\* startWait() of a handle that is finalized: it waits for an event that was
\* freed, and reads and writes freed memory.  It may return, never return or
\* crash the process.
UseFinalized(i) ==
    /\ worker[i] \in {"waiting", "taken"} /\ Finalized
    /\ \E pc \in {"returned", "hung", "crashed"} : WorkerGoes(i, pc)
    /\ UNCHANGED <<peSlot, isEnd, startSem, cur, killed, signalSem, handleVars,
                   main, stackVars>>

\* Mutant: the slot is not cleared.
ClearSlotNot(i) ==
    /\ worker[i] = "returned"
    /\ cur' = [cur EXCEPT ![i] = NULL]
    /\ WorkerGoes(i, "cleared")
    /\ UNCHANGED <<peSlot, isEnd, startSem, killed, signalSem, handleVars, main,
                   stackVars>>

ClearSlot(i) ==
    /\ worker[i] = "returned"
    /\ peSlot' = [peSlot EXCEPT ![i] = NULL]
    /\ cur' = [cur EXCEPT ![i] = NULL]
    /\ WorkerGoes(i, "cleared")
    /\ UNCHANGED <<isEnd, startSem, killed, signalSem, handleVars, main,
                   stackVars>>

Signal(i) ==
    /\ worker[i] = "cleared"
    /\ signalSem' = signalSem + 1
    /\ WorkerGoes(i, "acquire")
    /\ UNCHANGED <<peSlot, isEnd, startSem, cur, killed, handleVars, main,
                   stackVars>>

\* JLThreadCancel takes effect: at once with TerminateThread, at the next
\* cancellation point with pthread_cancel.
Die(i) ==
    /\ killed[i]
    /\ worker[i] \notin {"none", "dead", "crashed"}
    /\ WorkerGoes(i, "dead")
    /\ UNCHANGED <<peSlot, isEnd, startSem, cur, killed, signalSem, handleVars,
                   main, stackVars>>

-----------------------------------------------------------------------------

Script ==
    \/ \E a \in ArgLists : Call(a)
    \/ \E h \in Timeouts : NewTimeout(h)
    \/ \E h \in SemEvents : NewSemEvents(h)
    \/ CallbackReturns
    \/ BeginRelease

MainStep ==
    \/ StartThread \/ StartThreadFails \/ SetSlot \/ ReleaseStart
    \/ WaitSignal \/ RepostSignal
    \/ CheckSlot \/ CancelTimeout \/ CancelSem
    \/ KillSlot \/ KillSignal \/ KillThread \/ KillJoin
    \/ Collect \/ EndWaitNoEvent \/ EndWaitEvent \/ Return
    \/ SkipSlot \/ SetEnd \/ WakeWorker \/ JoinWorker

WorkerStep(i) ==
    \/ AcquireStart(i) \/ Exit(i) \/ BeginWait(i)
    \/ WaitCanceled(i) \/ WaitTimedOut(i) \/ TakeSem(i) \/ SetHasEvent(i)
    \/ UseFinalized(i) \/ ClearSlot(i) \/ Signal(i) \/ Die(i)

\* A crash of one thread ends the process.
Running == \A i \in Slots : worker[i] # "crashed"

\* The module's private data is gone.
Terminated == main = "released" /\ UNCHANGED vars

Next ==
    /\ Running
    /\ \/ Script
       \/ MainStep
       \/ \E i \in Slots : WorkerStep(i)
       \/ \E h \in SemEvents : Post(h)
       \/ Terminated

Spec == Init /\ [][Next]_vars

\* The operating system runs every runnable thread; time passes, so a timed
\* wait ends.  Nothing makes script return or anyone post a semaphore.
Fairness ==
    /\ WF_vars(Running /\ MainStep)
    /\ \A i \in Slots : WF_vars(Running /\ WorkerStep(i))

FairSpec == Spec /\ Fairness

-----------------------------------------------------------------------------
(* Properties.                                                               *)

\* A worker that is woken finds a handle to wait for: the assertion
\* peSlot != NULL of ProcessEventThread.
StartsWithHandle == Running

\* A call finds every slot it needs empty: the assertion peSlot == NULL of
\* processEvents before it gives the slot its handle.
SlotFreeWhenAssigned == main = "setSlot" => peSlot[I] = NULL

\* When a call is about to return no slot holds a handle and no token is left:
\* the DEBUG assertions at the end of processEvents ("else invalid state").
QuiescentAtReturn ==
    main = "done" => /\ \A i \in 1..Argc : peSlot[i] = NULL
                     /\ signalSem = 0

\* Script, endWait() and the callbacks run only while no worker is between
\* its wake-up and its post: a handle is never read, reset, collected or
\* passed to a nested call while another thread is inside its startWait().
ScriptRunsAlone ==
    main \in {"script", "endWait", "done"} =>
        /\ \A i \in Slots : worker[i] \in {"none", "acquire"}
        /\ \A i \in Slots : startSem[i] = 0

\* A handle a worker uses or will use is an argument of an active call, which
\* keeps it rooted.
WaitedHandlesAreRooted ==
    \A i \in Slots : \A h \in {peSlot[i], cur[i]} \ {NULL} :
        \E d \in 1..depth : \E j \in DOMAIN args[d] : args[d][j] = h

\* The result names exactly the handles whose event ended their wait ("the
\* bit field that represents the index of the triggered events").
ReportsExactlyEvents ==
    main = "done" => mask[depth] = {i \in 1..Argc : happened[args[depth][i]]}

\* A call returns only because of some event ("Passive event waiting").
WaitsForAnEvent == main = "done" => mask[depth] # {}

\* A call with a timeout among its handles gets to its endWait() phase, or back
\* to the script by throwing because a thread cannot be created, unless a thread
\* that is to be killed crashes the process.
TimedCall ==
    main = "thread" /\ \E i \in 1..Argc : args[depth][i] \in Timeouts
CallReturns == TimedCall ~> (main \in {"endWait", "script"} \/ ~Running)

\* The release of the module ends, every worker is joined, if no slot has its
\* handle any more when the runtime is destroyed: a call that threw may have
\* left waits, but these are over.
ReleaseEnds ==
    main = "release" /\ (\A i \in Slots : peSlot[i] = NULL) ~> main = "released"
=============================================================================
