-------------------------------- MODULE Task --------------------------------
(***************************************************************************)
(* A Task object (src/src/jstask/task.cpp): a thread with a JavaScript      *)
(* runtime of its own that answers the requests of the script, one at a     *)
(* time.  The two exchange serialized values through three queues under a   *)
(* mutex, count them with two semaphores and with counters, and a manual    *)
(* event wakes the waits that processEvents() runs for t.events() handles.  *)
(*                                                                          *)
(* A request is its number.  A section between the acquisition and the      *)
(* release of the mutex is one action; everything outside is an action per  *)
(* access.  processEvents() is reduced to what its waits and its callback   *)
(* see of it: start, cancel, end (ProcessEvents.tla is its model).          *)
(***************************************************************************)
EXTENDS Integers, Sequences, FiniteSets

CONSTANTS
    MaxRequest,     \* requests the script makes
    Handles,        \* handles that t.events() returned
    FreshHandles,   \* TRUE: a handle is passed to processEvents() once
    Failures        \* what may go wrong, see FailureKinds

FailureKinds == {
    "host",         \* the thread has no memory for its runtime
    "fatal",        \* taskFunc, a request or a response cannot be converted
    "double",       \* and neither can the error this raises
    "lost",         \* nor can that error be fetched
    "unserialize"}  \* the script cannot read a response

ASSUME MaxRequestAssumption == MaxRequest \in Nat \ {0}
ASSUME HandlesAssumption == IsFiniteSet(Handles)
ASSUME FreshAssumption == FreshHandles \in BOOLEAN
ASSUME FailuresAssumption == Failures \subseteq FailureKinds

VARIABLES
    \* struct TaskPrivate
    end, mutex,
    requestSem, requestList, pendingRequestCount, processingRequestCount,
    responseSem, responseList, pendingResponseCount, exceptionList,
    responseEvent,  \* TRUE when triggered
    \* the task's thread
    tpc, current,   \* the request it processes, 0 before the first
    outcome,        \* what came of each request
    \* the script
    mpc, sent,
    received,       \* answers the script got
    last,           \* what response() returned or threw
    \* the waits for a response
    wpc, canceled,
    waiting,        \* the handles processEvents() has not ended yet
    toCancel        \* those it has not canceled yet

requests == <<requestSem, requestList, pendingRequestCount>>
responses == <<responseSem, responseList, pendingResponseCount, exceptionList>>
thread == <<tpc, current, outcome>>
script == <<mpc, sent, received, last>>
waits == <<wpc, canceled, waiting, toCancel>>
queues == <<requests, processingRequestCount, responses>>
shared == <<end, mutex, queues, responseEvent>>
vars == <<shared, thread, script, waits>>

Requests == 1..MaxRequest
Exception == 0      \* the NULL of the response list: "signals an exception"
NoAnswer == [kind |-> "none", of |-> 0]

TypeOK ==
    /\ end \in BOOLEAN
    /\ mutex \in {"free", "script"}
    /\ requestSem \in Nat
    /\ requestList \in Seq(Requests)
    /\ pendingRequestCount \in Nat
    /\ processingRequestCount \in 0..1
    /\ responseSem \in Nat
    /\ responseList \in Seq(Requests \cup {Exception})
    /\ pendingResponseCount \in Nat
    /\ exceptionList \in Seq(Requests \cup {0})
    /\ responseEvent \in BOOLEAN
    /\ tpc \in {"start", "acquire", "take", "call", "store", "release",
                "trigger", "fatal", "fatalRelease", "lost", "drain",
                "exited"}
    /\ current \in Requests \cup {0}
    /\ outcome \in [Requests -> {"none", "value", "exception"}]
    /\ mpc \in {"run", "post", "acquire", "take", "events", "cancel",
                "trigger", "collect", "end", "close", "closePost", "join",
                "closed"}
    /\ sent \in 0..MaxRequest
    /\ received \in 0..MaxRequest
    /\ last \in [kind : {"none", "value", "exception", "fatal", "stop",
                         "undefined"},
                 of : Requests \cup {0}]
    /\ wpc \in [Handles -> {"idle", "count", "canceled", "wait", "reset",
                            "clear", "done"}]
    /\ canceled \in [Handles -> BOOLEAN]
    /\ waiting \subseteq Handles
    /\ toCancel \subseteq waiting

\* The object as its constructor leaves it.
Init ==
    /\ end = FALSE
    /\ mutex = "free"
    /\ requestSem = 0 /\ requestList = <<>> /\ pendingRequestCount = 0
    /\ processingRequestCount = 0
    /\ responseSem = 0 /\ responseList = <<>> /\ pendingResponseCount = 0
    /\ exceptionList = <<>>
    /\ responseEvent = FALSE
    /\ tpc = "start" /\ current = 0 /\ outcome = [r \in Requests |-> "none"]
    /\ mpc = "run" /\ sent = 0 /\ received = 0 /\ last = NoAnswer
    /\ wpc = [h \in Handles |-> "idle"]
    /\ canceled = [h \in Handles |-> FALSE]
    /\ waiting = {} /\ toCancel = {}

-----------------------------------------------------------------------------
(* The task's thread: TaskThreadProc() and TheTask().                       *)

Thread(from, to) == tpc = from /\ tpc' = to /\ UNCHANGED <<script, waits>>

\* The runtime is made and taskFunc is unserialized.
Start ==
    /\ \/ Thread("start", "acquire")
       \/ "host" \in Failures /\ Thread("start", "exited")
       \/ "fatal" \in Failures /\ Thread("start", "fatal")
    /\ UNCHANGED <<shared, current, outcome>>

AcquireRequest ==
    /\ Thread("acquire", "take")
    /\ requestSem > 0 /\ requestSem' = requestSem - 1
    /\ UNCHANGED <<end, mutex, requestList, pendingRequestCount,
                   processingRequestCount, responses, responseEvent, current,
                   outcome>>

\* Mutants: one of the two counts is forgotten.
NotTakenOff == /\ UNCHANGED pendingRequestCount
               /\ processingRequestCount' = processingRequestCount + 1
NotProcessed == /\ pendingRequestCount' = pendingRequestCount - 1
                /\ UNCHANGED processingRequestCount
CountTaken == /\ pendingRequestCount' = pendingRequestCount - 1
              /\ processingRequestCount' = processingRequestCount + 1

TakeRequest ==
    /\ Thread("take", "call")
    /\ mutex = "free" /\ ~end
    /\ current' = Head(requestList) /\ requestList' = Tail(requestList)
    /\ CountTaken
    /\ UNCHANGED <<end, mutex, requestSem, responses, responseEvent, outcome>>

SeeEnd ==
    /\ Thread("take", "drain")
    /\ mutex = "free" /\ end
    /\ UNCHANGED <<shared, current, outcome>>

\* taskFunc returns a value or throws; both are serialized.
CallTaskFunc ==
    /\ \/ /\ Thread("call", "store")
          /\ \E o \in {"value", "exception"} :
                 outcome' = [outcome EXCEPT ![current] = o]
       \/ "fatal" \in Failures /\ Thread("call", "fatal") /\ UNCHANGED outcome
    /\ UNCHANGED <<shared, current>>

\* Mutant: QueueUnshift() instead of QueuePush() for the exception.
UnshiftException(r) == exceptionList' = <<r>> \o exceptionList
PushException(r) == exceptionList' = Append(exceptionList, r)

\* Mutant: an exception leaves the request counted as being processed.
ValueAnswered ==
    processingRequestCount' =
        processingRequestCount - (IF outcome[current] = "value" THEN 1 ELSE 0)
CountAnswered == processingRequestCount' = processingRequestCount - 1

StoreResponse ==
    /\ Thread("store", "release")
    /\ mutex = "free"
    /\ IF outcome[current] = "value"
         THEN /\ responseList' = Append(responseList, current)
              /\ UNCHANGED exceptionList
         ELSE /\ responseList' = Append(responseList, Exception)
              /\ PushException(current)
    /\ pendingResponseCount' = pendingResponseCount + 1
    /\ CountAnswered
    /\ UNCHANGED <<end, mutex, requests, responseSem, responseEvent, current,
                   outcome>>

\* Mutant: responseSem is not released.
ReleaseNothing == UNCHANGED responseSem
ReleaseResponseSem == responseSem' = responseSem + 1

ReleaseResponse ==
    /\ Thread("release", "trigger")
    /\ ReleaseResponseSem
    /\ UNCHANGED <<end, mutex, requests, processingRequestCount, responseList,
                   pendingResponseCount, exceptionList, responseEvent,
                   current, outcome>>

\* Mutant: the event is not triggered for an exception.
TriggerValues == responseEvent' = (responseEvent \/ outcome[current] = "value")
TriggerEvent == responseEvent' = TRUE

TriggerResponse ==
    /\ Thread("trigger", "acquire")
    /\ TriggerEvent
    /\ UNCHANGED <<end, mutex, queues, current, outcome>>

\* The error that ends the thread is stored, or cannot be.
Fatal ==
    /\ Thread("fatal", "fatalRelease")
    /\ mutex = "free" /\ end' = TRUE
    /\ PushException(current)
    /\ UNCHANGED <<mutex, requests, processingRequestCount, responseSem,
                   responseList, pendingResponseCount, responseEvent, current,
                   outcome>>

FatalNotStored ==
    /\ "double" \in Failures
    /\ Thread("fatal", "fatalRelease")
    /\ UNCHANGED <<shared, current, outcome>>

\* The thread gives up before it releases responseSem.
FatalLost ==
    /\ "lost" \in Failures
    /\ Thread("fatal", "lost")
    /\ UNCHANGED <<shared, current, outcome>>

ReleaseFatal ==
    /\ Thread("fatalRelease", "drain")
    /\ ReleaseResponseSem
    /\ UNCHANGED <<end, mutex, requests, processingRequestCount, responseList,
                   pendingResponseCount, exceptionList, responseEvent,
                   current, outcome>>

\* Responses and exceptions must not outlive the runtime that made them.
Drain ==
    /\ \E from \in {"drain", "lost"} : Thread(from, "exited")
    /\ mutex = "free"
    /\ exceptionList' = <<>> /\ responseList' = <<>>
    /\ UNCHANGED <<end, mutex, requests, processingRequestCount, responseSem,
                   pendingResponseCount, responseEvent, current, outcome>>

-----------------------------------------------------------------------------
(* request()                                                                *)

Script(from, to) == mpc = from /\ mpc' = to /\ UNCHANGED thread
answers == <<received, last>>

Request ==
    /\ Script("run", "post")
    /\ mutex = "free"
    /\ sent < MaxRequest /\ sent' = sent + 1
    /\ requestList' = Append(requestList, sent + 1)
    /\ pendingRequestCount' = pendingRequestCount + 1
    /\ UNCHANGED <<end, mutex, requestSem, processingRequestCount, responses,
                   responseEvent, answers, waits>>

PostRequest ==
    /\ Script("post", "run")
    /\ requestSem' = requestSem + 1
    /\ UNCHANGED <<end, mutex, requestList, pendingRequestCount,
                   processingRequestCount, responses, responseEvent, sent,
                   answers, waits>>

-----------------------------------------------------------------------------
(* response()                                                               *)

\* response() ends; answer is what it returns or throws.
Answer(kind, of) ==
    /\ last' = [kind |-> kind, of |-> of]
    /\ received' = IF kind \in {"value", "exception"} THEN received + 1
                                                      ELSE received

FatalIsStored == responseList = <<>> /\ exceptionList # <<>>

\* A fatal error is thrown once the responses are read, then the end.
ResponseThrows ==
    /\ Script("run", "run")
    /\ mutex = "free"
    /\ \/ /\ FatalIsStored
          /\ Answer("fatal", Head(exceptionList))
          /\ exceptionList' = Tail(exceptionList)
       \/ /\ ~FatalIsStored /\ end
          /\ Answer("stop", 0)
          /\ UNCHANGED exceptionList
    /\ UNCHANGED <<end, mutex, requests, processingRequestCount, responseSem,
                   responseList, pendingResponseCount, responseEvent, sent,
                   waits>>

ResponseWaits ==
    /\ Script("run", "acquire")
    /\ mutex = "free" /\ ~FatalIsStored /\ ~end
    /\ UNCHANGED <<shared, sent, answers, waits>>

AcquireResponse ==
    /\ Script("acquire", "take")
    /\ responseSem > 0 /\ responseSem' = responseSem - 1
    /\ UNCHANGED <<end, mutex, requests, processingRequestCount, responseList,
                   pendingResponseCount, exceptionList, responseEvent, sent,
                   answers, waits>>

TakeNothing ==
    /\ Script("take", "run")
    /\ mutex = "free" /\ responseList = <<>>
    /\ Answer("undefined", 0)
    /\ UNCHANGED <<shared, sent, waits>>

ShiftResponse ==
    /\ Script("take", "run")
    /\ mutex = "free" /\ responseList # <<>>
    /\ responseList' = Tail(responseList)
    /\ pendingResponseCount' = pendingResponseCount - 1
    /\ UNCHANGED <<end, requests, processingRequestCount, responseSem,
                   responseEvent, sent, waits>>

\* A value that cannot be unserialized leaves the mutex locked.
TakeValue ==
    /\ ShiftResponse /\ Head(responseList) # Exception
    /\ Answer("value", Head(responseList))
    /\ mutex' = "free" \/ ("unserialize" \in Failures /\ mutex' = "script")
    /\ UNCHANGED exceptionList

TakeException ==
    /\ ShiftResponse /\ Head(responseList) = Exception
    /\ Answer("exception", Head(exceptionList))
    /\ exceptionList' = Tail(exceptionList)
    /\ UNCHANGED mutex

-----------------------------------------------------------------------------
(* close() and the finalizer: CloseTask().  onResponse does not close the   *)
(* task.                                                                    *)

Close ==
    /\ Script("run", "close") /\ waiting = {}
    /\ UNCHANGED <<shared, sent, answers, waits>>

SetEnd ==
    /\ Script("close", "closePost")
    /\ mutex = "free" /\ end' = TRUE
    /\ UNCHANGED <<mutex, queues, responseEvent, sent, answers, waits>>

\* Mutant: close() does not release requestSem.
PostNothing == UNCHANGED requestSem
PostEnd == requestSem' = requestSem + 1

PostClose ==
    /\ Script("closePost", "join")
    /\ PostEnd
    /\ UNCHANGED <<end, mutex, requestList, pendingRequestCount,
                   processingRequestCount, responses, responseEvent, sent,
                   answers, waits>>

Join ==
    /\ Script("join", "closed") /\ tpc = "exited"
    /\ requestList' = <<>>
    /\ UNCHANGED <<end, mutex, requestSem, pendingRequestCount,
                   processingRequestCount, responses, responseEvent, sent,
                   answers, waits>>

-----------------------------------------------------------------------------
(* processEvents() with some handles of the task: struct TaskEvent.  Other  *)
(* events of the call, a timeout say, may end it at any time.               *)

CallEvents(hs) ==
    /\ Script("run", "events")
    /\ waiting = {} /\ hs # {} /\ waiting' = hs
    /\ wpc' = [h \in Handles |-> IF h \in hs THEN "count" ELSE wpc[h]]
    /\ canceled' = [h \in Handles |-> canceled[h] /\ ~FreshHandles]
    /\ UNCHANGED <<shared, sent, answers, toCancel>>

Wait(h, from, to) ==
    /\ wpc[h] = from /\ wpc' = [wpc EXCEPT ![h] = to]
    /\ UNCHANGED <<end, mutex, queues, thread, script, canceled, waiting,
                   toCancel>>

\* TaskStartWait() on a thread of its own: while ( no response && !canceled ).
TestCount(h) ==
    /\ Wait(h, "count", IF pendingResponseCount = 0 THEN "canceled" ELSE "reset")
    /\ UNCHANGED responseEvent

TestCanceled(h) ==
    /\ Wait(h, "canceled", IF canceled[h] THEN "reset" ELSE "wait")
    /\ UNCHANGED responseEvent

WaitEvent(h) ==
    /\ responseEvent /\ Wait(h, "wait", "count")
    /\ UNCHANGED responseEvent

ResetEvent(h) ==
    /\ Wait(h, "reset", "clear")
    /\ responseEvent' = FALSE

\* The wait has returned: it signals the call.
ClearSlot(h) == Wait(h, "clear", "done") /\ UNCHANGED responseEvent

BeginCancel ==
    /\ Script("events", "cancel")
    /\ toCancel' = waiting
    /\ UNCHANGED <<shared, sent, answers, wpc, canceled, waiting>>

WaitSignaled == (\E h \in waiting : wpc[h] = "done") /\ BeginCancel

OtherEvent == BeginCancel

\* TaskCancelWait(), unless the wait has returned.
Cancel(h) ==
    /\ h \in toCancel /\ toCancel' = toCancel \ {h}
    /\ IF wpc[h] = "done"
         THEN Script("cancel", "cancel") /\ UNCHANGED canceled
         ELSE /\ Script("cancel", "trigger")
              /\ canceled' = [canceled EXCEPT ![h] = TRUE]
    /\ UNCHANGED <<shared, sent, answers, wpc, waiting>>

TriggerCancel ==
    /\ Script("trigger", "cancel")
    /\ responseEvent' = TRUE
    /\ UNCHANGED <<end, mutex, queues, sent, answers, waits>>

AllCanceled ==
    /\ Script("cancel", "collect") /\ toCancel = {}
    /\ UNCHANGED <<shared, sent, answers, waits>>

Collect ==
    /\ Script("collect", "end") /\ \A h \in waiting : wpc[h] = "done"
    /\ UNCHANGED <<shared, sent, answers, waits>>

\* TaskEndWait(): with a response, onResponse runs, which is the script.
EndWait(h) ==
    /\ h \in waiting /\ waiting' = waiting \ {h}
    /\ Script("end",
              IF pendingResponseCount > 0 \/ waiting' = {} THEN "run" ELSE "end")
    /\ wpc' = [wpc EXCEPT ![h] = "idle"]
    /\ UNCHANGED <<shared, sent, answers, canceled, toCancel>>

CallbackReturns ==
    /\ Script("run", "end") /\ waiting # {}
    /\ UNCHANGED <<shared, sent, answers, waits>>

-----------------------------------------------------------------------------

ThreadStep ==
    \/ Start \/ AcquireRequest \/ TakeRequest \/ SeeEnd \/ CallTaskFunc
    \/ StoreResponse \/ ReleaseResponse \/ TriggerResponse
    \/ Fatal \/ FatalNotStored \/ FatalLost \/ ReleaseFatal \/ Drain

WaitStep(h) ==
    \/ TestCount(h) \/ TestCanceled(h) \/ WaitEvent(h) \/ ResetEvent(h)
    \/ ClearSlot(h)

\* What the script calls.
ScriptCalls ==
    \/ Request \/ ResponseThrows \/ ResponseWaits \/ Close
    \/ \E hs \in SUBSET Handles : CallEvents(hs)

\* What a call then does by itself.
CallStep ==
    \/ PostRequest \/ AcquireResponse \/ TakeNothing \/ TakeValue
    \/ TakeException \/ SetEnd \/ PostClose \/ Join
    \/ WaitSignaled \/ \E h \in Handles : Cancel(h) \/ EndWait(h)
    \/ TriggerCancel \/ AllCanceled \/ Collect \/ CallbackReturns

Next ==
    \/ ScriptCalls \/ CallStep \/ OtherEvent \/ ThreadStep
    \/ \E h \in Handles : WaitStep(h)

Spec == Init /\ [][Next]_vars

\* Threads run, taskFunc and onResponse return.  The script need not call
\* anything, and no other event need come.
Fairness == /\ WF_vars(ThreadStep)
            /\ WF_vars(CallStep)
            /\ \A h \in Handles : WF_vars(WaitStep(h))

FairSpec == Spec /\ Fairness

-----------------------------------------------------------------------------
(* Properties.                                                              *)

\* The answers come in the order of the requests, each with what became of
\* its request: the NULL of a response always meets its own exception.
AnswersInOrder ==
    last.kind \in {"value", "exception"} =>
        /\ last.of = received
        /\ outcome[last.of] = last.kind

One(b) == IF b THEN 1 ELSE 0

\* The semaphores and the counters agree with the queues: whoever acquires a
\* token finds an entry in the queue, and the script reads true counts.
QueuesAreCounted ==
    /\ ~end => Len(requestList)
                 = requestSem + One(mpc = "post") + One(tpc = "take")
    /\ tpc \notin {"drain", "exited"} => Len(responseList)
                 = responseSem + One(tpc = "release") + One(mpc = "take")
    /\ mpc # "closed" => pendingRequestCount = Len(requestList)
    /\ tpc # "exited" => pendingResponseCount = Len(responseList)

\* A script that loops until nothing is counted (the counts of `idle`, without
\* its `end`) has an answer to every request, whatever failed, and leaves
\* nothing in the queues but the error that ended the thread.
NothingCounted ==
    pendingRequestCount + processingRequestCount + pendingResponseCount = 0
IdleIsDone ==
    NothingCounted /\ mpc # "closed" =>
        /\ received = sent
        /\ requestList = <<>> /\ responseList = <<>>
        /\ end \/ exceptionList = <<>>

\* "true if there is no request being processed, if request and response queues
\* are empty and if there is no pending error" (task.cpp:682), when the script
\* reads `idle`.
Idle == NothingCounted \/ end
IdleMeansEmpty ==
    Idle /\ mpc = "run" =>
        /\ processingRequestCount = 0
        /\ requestList = <<>> /\ responseList = <<>>
        /\ exceptionList = <<>>

\* startWait() returns for a response or because the call cancels it.
WakesForAResponse ==
    \A h \in Handles :
        wpc[h] = "done" /\ mpc = "events" => pendingResponseCount > 0

\* A script that waits for the answer to a request gets on, if the thread still
\* is to take requests or to answer one, and unless it loses the error that ends
\* it.
ResponseReturns ==
    (/\ mpc = "acquire" /\ received < sent
     /\ mutex = "free"
     /\ tpc \notin {"start", "drain", "exited"})
        ~> (mpc = "run" \/ tpc = "lost")

\* "When a new response is available, the onResponse function of the Task
\* object is called": a script that waits for the event of a response gets on.
\* It need not when a fatal error ends the thread, or when response() failed and
\* left the mutex locked.
AwaitsEvent == mpc = "events" /\ received < sent /\ mutex = "free"
EventsReturn == AwaitsEvent ~> (~AwaitsEvent \/ tpc = "exited")
EventsReturnAfterError == AwaitsEvent ~> ~AwaitsEvent

\* When processEvents() cancels the waits, they end.
CancelEnds == mpc = "cancel" ~> mpc = "end"

\* "Close a task to release system resources": it ends, unless response() left
\* the mutex locked.
CloseEnds == (mpc = "close" /\ mutex = "free") ~> mpc = "closed"

=============================================================================
