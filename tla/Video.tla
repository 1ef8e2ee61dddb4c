-------------------------------- MODULE Video --------------------------------
(***************************************************************************)
(* The video window of jssdl (src/src/jssdl/main.cpp).  One thread owns the *)
(* window: it pumps the system's events and sets the video mode when the    *)
(* script queues an order.  Another swaps the buffers when the script does  *)
(* not want to wait for it.  The flag surfaceReady, under a mutex and with a*)
(* condition, tells the script that neither is busy with the surface;       *)
(* surfaceReadyEvents() and sdlEvents() (src/src/jssdl/static.cpp) are      *)
(* handles that wait for it and for SDL's events in processEvents().        *)
(*                                                                          *)
(* A surface is the number of its video mode, 0 for none.  A section under  *)
(* surfaceReadyLock, sdlEventsLock or the queue's mutex is one action.  The *)
(* condition wakes its sleepers and no one else: JLCond on WIN is the       *)
(* subject of EndSignal.tla.                                                *)
(***************************************************************************)
EXTENDS Integers, Sequences, FiniteSets

CONSTANTS
    MaxMode,    \* the video modes are 1..MaxMode
    MaxSet,     \* calls of setVideoMode()
    Retries     \* TRUE: the script sets a mode after one that failed

ASSUME BoundsAssumption == MaxMode \in Nat \ {0} /\ MaxSet \in Nat
ASSUME RetriesAssumption == Retries \in BOOLEAN

VARIABLES
    surface, hdc, error,    \* _surface; _hdc and _error are not NULL
    surfaceReady,
    surfaceLock,            \* its owner, or "free"
    queue, internalEventSem,\* internalEventQueue: modes, End
    swapBuffersSem, swapBufferEndThread,
    vpc, order,             \* the video thread and what it took off the queue
    tpc,                    \* the swap thread
    spc, request,           \* the script and the mode it asks for
    sets, failed,           \* modes it asked for; one has failed
    sdlEvents,              \* SDL's queue is not empty
    wpc, cancel,            \* the waits of the two handles
    waiting, callback       \* the handles of the call that are not ended yet,
                            \* and the one whose callback runs

window == <<surface, hdc, error>>
orders == <<queue, internalEventSem>>
swaps == <<swapBuffersSem, swapBufferEndThread>>
script == <<spc, request, sets, failed>>
waits == <<wpc, cancel, waiting, callback>>
vars == <<window, surfaceReady, surfaceLock, orders, swaps, vpc, order, tpc,
          script, sdlEvents, waits>>

Modes == 1..MaxMode
End == 0
Kinds == {"surface", "events"}  \* surfaceReadyEvents(), sdlEvents()

TypeOK ==
    /\ surface \in Modes \cup {0} /\ hdc \in BOOLEAN /\ error \in BOOLEAN
    /\ surfaceReady \in BOOLEAN
    /\ surfaceLock \in {"free", "video", "swap", "script"}
    /\ queue \in Seq(Modes \cup {End}) /\ internalEventSem \in 0..1
    /\ swapBuffersSem \in 0..2 /\ swapBufferEndThread \in BOOLEAN
    /\ vpc \in {"pump", "broadcast", "acquire", "take", "set", "setting",
                "report", "ready", "exited"}
    /\ order \in Modes \cup {End}
    /\ tpc \in {"acquire", "test", "swap", "swapping", "throttle", "repost",
                "ready", "exited"}
    /\ spc \in {"run", "await", "invalidate", "push", "mode", "surface",
                "swap", "busy", "post", "lock", "swapping", "swapped", "wait",
                "collect", "end", "joinSwap", "joinVideo", "ended"}
    /\ request \in Modes \cup {0}
    /\ sets \in 0..MaxSet /\ failed \in BOOLEAN
    /\ sdlEvents \in BOOLEAN
    /\ wpc \in [Kinds -> {"idle", "enter", "sleep", "done"}]
    /\ cancel \in [Kinds -> BOOLEAN]
    /\ callback \subseteq waiting /\ waiting \subseteq Kinds

\* StartVideo() has returned.
Init ==
    /\ surface = 0 /\ hdc = FALSE /\ error = FALSE
    /\ surfaceReady = FALSE /\ surfaceLock = "free"
    /\ queue = <<>> /\ internalEventSem = 0
    /\ swapBuffersSem = 0 /\ swapBufferEndThread = FALSE
    /\ vpc = "pump" /\ order = End /\ tpc = "acquire"
    /\ spc = "run" /\ request = 0 /\ sets = 0 /\ failed = FALSE
    /\ sdlEvents = FALSE
    /\ wpc = [k \in Kinds |-> "idle"] /\ cancel = [k \in Kinds |-> FALSE]
    /\ waiting = {} /\ callback = {}

\* JLCondBroadcast() on the condition of a kind of handle.
Woken(k) == IF wpc[k] = "sleep" THEN [wpc EXCEPT ![k] = "enter"] ELSE wpc
Broadcast(k) == wpc' = Woken(k) /\ UNCHANGED <<cancel, waiting, callback>>

SurfaceReady == surfaceReady' = TRUE /\ Broadcast("surface")
InvalidateSurface == surfaceReady' = FALSE /\ Broadcast("surface")

-----------------------------------------------------------------------------
(* VideoThread()                                                            *)

Video(from, to) ==
    /\ vpc = from /\ vpc' = to
    /\ UNCHANGED <<swaps, tpc, script>>

PumpEvents ==
    /\ Video("pump", "broadcast")
    /\ sdlEvents' \in {sdlEvents, TRUE}
    /\ UNCHANGED <<window, surfaceReady, surfaceLock, orders, order, waits>>

WakeForEvents == IF sdlEvents THEN Broadcast("events") ELSE UNCHANGED waits

BroadcastEvents ==
    /\ Video("broadcast", "acquire")
    /\ WakeForEvents
    /\ UNCHANGED <<window, surfaceReady, surfaceLock, orders, order, sdlEvents>>

NoInternalEvent ==
    /\ Video("acquire", "pump")
    /\ internalEventSem = 0
    /\ UNCHANGED <<window, surfaceReady, surfaceLock, orders, order, sdlEvents,
                   waits>>

TakeInternalEvent ==
    /\ internalEventSem > 0 /\ internalEventSem' = internalEventSem - 1
    /\ order' = Head(queue) /\ queue' = Tail(queue)
    /\ Video("acquire", IF order' = End THEN "exited" ELSE "set")
    /\ UNCHANGED <<window, surfaceReady, surfaceLock, sdlEvents, waits>>

BeginSetVideoMode ==
    /\ Video("set", "setting")
    /\ surfaceLock = "free" /\ surfaceLock' = "video"
    /\ UNCHANGED <<window, surfaceReady, orders, order, sdlEvents, waits>>

\* The system may refuse the mode.
EndSetVideoMode ==
    /\ Video("setting", "report")
    /\ surface' \in {order, 0}
    /\ surfaceLock' = "free"
    /\ UNCHANGED <<hdc, error, surfaceReady, orders, order, sdlEvents, waits>>

ReportSetVideoMode ==
    /\ Video("report", "ready")
    /\ IF surface = 0 THEN error' = TRUE /\ UNCHANGED hdc
                      ELSE hdc' = TRUE /\ UNCHANGED error
    /\ UNCHANGED <<surface, surfaceReady, surfaceLock, orders, order,
                   sdlEvents, waits>>

\* Mutant: a mode that failed does not make the surface ready.
ReadyIfSet == IF surface # 0 THEN SurfaceReady ELSE UNCHANGED <<surfaceReady, waits>>
ReadyAlways == SurfaceReady

VideoReady ==
    /\ Video("ready", "pump")
    /\ ReadyAlways
    /\ UNCHANGED <<window, surfaceLock, orders, order, sdlEvents>>

-----------------------------------------------------------------------------
(* SwapBuffersThread()                                                      *)

Swap(from, to) ==
    /\ tpc = from /\ tpc' = to
    /\ UNCHANGED <<window, orders, swapBufferEndThread, vpc, order, script,
                   sdlEvents>>

AcquireSwap ==
    /\ Swap("acquire", "test")
    /\ swapBuffersSem > 0 /\ swapBuffersSem' = swapBuffersSem - 1
    /\ UNCHANGED <<surfaceReady, surfaceLock, waits>>

TestSwapEnd ==
    /\ Swap("test", IF swapBufferEndThread THEN "exited" ELSE "swap")
    /\ UNCHANGED <<surfaceReady, surfaceLock, swapBuffersSem, waits>>

BeginSwap ==
    /\ Swap("swap", "swapping")
    /\ surfaceLock = "free" /\ surfaceLock' = "swap"
    /\ UNCHANGED <<surfaceReady, swapBuffersSem, waits>>

\* With a limit of the frame rate it waits, but for a token at most.
EndSwap ==
    /\ \E to \in {"throttle", "ready"} : Swap("swapping", to)
    /\ surfaceLock' = "free"
    /\ UNCHANGED <<surfaceReady, swapBuffersSem, waits>>

ThrottleEnds ==
    /\ Swap("throttle", "ready")
    /\ UNCHANGED <<surfaceReady, surfaceLock, swapBuffersSem, waits>>

ThrottleBreaks ==
    /\ Swap("throttle", "repost")
    /\ swapBuffersSem > 0 /\ swapBuffersSem' = swapBuffersSem - 1
    /\ UNCHANGED <<surfaceReady, surfaceLock, waits>>

\* Mutant: the token that broke the wait is not given back.
KeepToken == UNCHANGED swapBuffersSem
ReturnToken == swapBuffersSem' = swapBuffersSem + 1

RepostSwap ==
    /\ Swap("repost", "ready")
    /\ ReturnToken
    /\ UNCHANGED <<surfaceReady, surfaceLock, waits>>

SwapReady ==
    /\ Swap("ready", "acquire")
    /\ SurfaceReady
    /\ UNCHANGED <<surfaceLock, swapBuffersSem>>

-----------------------------------------------------------------------------
(* JLSetVideoMode()                                                         *)

Script(from, to) ==
    /\ spc = from /\ spc' = to
    /\ UNCHANGED <<vpc, order, tpc>>
OutsideWindow == <<surfaceLock, swapBufferEndThread, sdlEvents>>

\* Mutant: a mode that replaces one is set without waiting for the surface.
PushAtOnce == "push"
FirstStep == IF surface # 0 THEN "await" ELSE "push"

SetVideoMode ==
    /\ Script("run", FirstStep)
    /\ sets < MaxSet /\ sets' = sets + 1
    /\ failed => Retries
    /\ request' \in Modes
    /\ UNCHANGED <<window, surfaceReady, orders, swaps, failed, waits,
                   surfaceLock, sdlEvents>>

WaitSurfaceReady(from, to) ==
    /\ Script(from, to)
    /\ surfaceReady
    /\ UNCHANGED <<window, surfaceReady, orders, swaps, request, sets, failed,
                   waits, surfaceLock, sdlEvents>>

AwaitSurface == WaitSurfaceReady("await", "invalidate")

Invalidate ==
    /\ Script("invalidate", "push")
    /\ InvalidateSurface
    /\ UNCHANGED <<window, orders, swaps, request, sets, failed, surfaceLock,
                   sdlEvents>>

Push(item) ==
    /\ queue' = Append(queue, item)
    /\ internalEventSem' = internalEventSem + 1

PushMode ==
    /\ Script("push", "mode")
    /\ Push(request)
    /\ UNCHANGED <<window, surfaceReady, swaps, request, sets, failed, waits,
                   surfaceLock, sdlEvents>>

ModeFails ==
    /\ Script("mode", "run")
    /\ surfaceReady /\ surface = 0 /\ error
    /\ error' = FALSE
    /\ request' = 0 /\ failed' = TRUE
    /\ UNCHANGED <<surface, hdc, surfaceReady, orders, swaps, sets, waits,
                   surfaceLock, sdlEvents>>

\* The context is made for _hdc, or is there since an earlier mode.
ModeIsSet ==
    /\ Script("mode", "surface")
    /\ surfaceReady /\ (surface # 0 \/ ~error)
    /\ UNCHANGED <<window, surfaceReady, orders, swaps, request, sets, failed,
                   waits, surfaceLock, sdlEvents>>

ModeReturns ==
    /\ Script("surface", "run")
    /\ request' = 0
    /\ UNCHANGED <<window, surfaceReady, orders, swaps, sets, failed, waits,
                   surfaceLock, sdlEvents>>

-----------------------------------------------------------------------------
(* JLSwapBuffers()                                                          *)

SwapBuffers ==
    /\ surface # 0 /\ Script("run", "swap")
    /\ UNCHANGED <<window, surfaceReady, orders, swaps, request, sets, failed,
                   waits, surfaceLock, sdlEvents>>

AwaitSwap == WaitSurfaceReady("swap", "busy")

\* Mutant: the surface stays ready.
StayReady == UNCHANGED <<surfaceReady, waits>>
BecomeBusy == InvalidateSurface

\* The argument async of swapBuffers() says who swaps.
InvalidateSwap ==
    /\ \E to \in {"post", "lock"} : Script("busy", to)
    /\ BecomeBusy
    /\ UNCHANGED <<window, orders, swaps, request, sets, failed, surfaceLock,
                   sdlEvents>>

SwapAsync ==
    /\ Script("post", "run")
    /\ swapBuffersSem' = swapBuffersSem + 1
    /\ UNCHANGED <<window, surfaceReady, orders, request, sets, failed, waits,
                   OutsideWindow>>

SwapSync ==
    /\ Script("lock", "swapping")
    /\ surfaceLock = "free" /\ surfaceLock' = "script"
    /\ UNCHANGED <<window, surfaceReady, orders, swaps, request, sets, failed,
                   waits, sdlEvents>>

EndSwapSync ==
    /\ Script("swapping", "swapped")
    /\ surfaceLock' = "free"
    /\ UNCHANGED <<window, surfaceReady, orders, swaps, request, sets, failed,
                   sdlEvents, waits>>

SwapSyncReady ==
    /\ Script("swapped", "run")
    /\ SurfaceReady
    /\ UNCHANGED <<window, orders, swaps, request, sets, failed, surfaceLock,
                   sdlEvents>>

-----------------------------------------------------------------------------
(* processEvents() with the handles of surfaceReadyEvents() and sdlEvents().*)

OutsideCall == <<window, surfaceReady, surfaceLock, orders, swaps, request,
                 sets, failed>>

ProcessEvents ==
    /\ Script("run", "wait")
    /\ waiting = {} /\ waiting' \in SUBSET Kinds \ {{}}
    /\ cancel' = [k \in Kinds |-> FALSE]
    /\ wpc' = [k \in Kinds |-> IF k \in waiting' THEN "enter" ELSE "idle"]
    /\ UNCHANGED <<OutsideCall, callback, sdlEvents>>

WaitIsOver(k) ==
    cancel[k] \/ IF k = "surface" THEN surfaceReady ELSE sdlEvents

\* startWait(): tests under the mutex, and sleeps.
StartWait(k) ==
    /\ wpc[k] = "enter"
    /\ wpc' = [wpc EXCEPT ![k] = IF WaitIsOver(k) THEN "done" ELSE "sleep"]
    /\ UNCHANGED <<OutsideCall, spc, vpc, order, tpc, sdlEvents, cancel,
                   waiting, callback>>

\* One wait returns, or a handle of another kind ends the call.
BeginCancel ==
    /\ Script("wait", "collect")
    /\ cancel' = [k \in Kinds |-> wpc[k] \in {"enter", "sleep"}]
    /\ wpc' = [k \in Kinds |-> IF wpc[k] = "sleep" THEN "enter" ELSE wpc[k]]
    /\ UNCHANGED <<OutsideCall, waiting, callback, sdlEvents>>

WaitSignals == (\E k \in waiting : wpc[k] = "done") /\ BeginCancel
OtherEvent == BeginCancel

Collect ==
    /\ Script("collect", "end")
    /\ \A k \in waiting : wpc[k] = "done"
    /\ UNCHANGED <<OutsideCall, waits, sdlEvents>>

\* endWait(): the listeners run, which are the script.
EndWait(k) ==
    /\ spc = "end" /\ k \in waiting
    /\ IF (IF k = "surface" THEN surfaceReady ELSE sdlEvents)
         THEN spc' = "run" /\ callback' = {k} /\ UNCHANGED waiting
         ELSE /\ waiting' = waiting \ {k}
              /\ spc' = IF waiting' = {} THEN "run" ELSE "end"
              /\ UNCHANGED callback
    /\ sdlEvents' = (sdlEvents /\ k = "surface")
    /\ wpc' = [wpc EXCEPT ![k] = "idle"]
    /\ UNCHANGED <<OutsideCall, vpc, order, tpc, cancel>>

CallbackReturns ==
    /\ callback # {} /\ callback' = {}
    /\ waiting' = waiting \ callback
    /\ Script("run", IF waiting' = {} THEN "run" ELSE "end")
    /\ UNCHANGED <<OutsideCall, wpc, cancel, sdlEvents>>

-----------------------------------------------------------------------------
(* EndVideo()                                                               *)

EndVideo ==
    /\ waiting = {} /\ Script("run", "joinSwap")
    /\ swapBufferEndThread' = TRUE
    /\ swapBuffersSem' = swapBuffersSem + 1
    /\ UNCHANGED <<window, surfaceReady, surfaceLock, orders, request, sets,
                   failed, sdlEvents, waits>>

JoinSwap ==
    /\ Script("joinSwap", "joinVideo") /\ tpc = "exited"
    /\ Push(End)
    /\ UNCHANGED <<window, surfaceReady, surfaceLock, swaps, request, sets,
                   failed, sdlEvents, waits>>

JoinVideo ==
    /\ Script("joinVideo", "ended") /\ vpc = "exited"
    /\ UNCHANGED <<OutsideCall, sdlEvents, waits>>

-----------------------------------------------------------------------------

VideoStep ==
    \/ PumpEvents \/ BroadcastEvents \/ NoInternalEvent \/ TakeInternalEvent
    \/ BeginSetVideoMode \/ EndSetVideoMode \/ ReportSetVideoMode \/ VideoReady

SwapStep ==
    \/ AcquireSwap \/ TestSwapEnd \/ BeginSwap \/ EndSwap \/ ThrottleEnds
    \/ ThrottleBreaks \/ RepostSwap \/ SwapReady

\* What a call does by itself.
CallStep ==
    \/ AwaitSurface \/ Invalidate \/ PushMode \/ ModeFails \/ ModeIsSet
    \/ ModeReturns \/ AwaitSwap \/ InvalidateSwap \/ SwapAsync \/ SwapSync
    \/ EndSwapSync \/ SwapSyncReady
    \/ WaitSignals \/ Collect \/ CallbackReturns \/ \E k \in Kinds : EndWait(k)
    \/ JoinSwap \/ JoinVideo

Next ==
    \/ VideoStep \/ SwapStep \/ \E k \in Kinds : StartWait(k)
    \/ CallStep \/ OtherEvent
    \/ SetVideoMode \/ SwapBuffers \/ ProcessEvents \/ EndVideo

Spec == Init /\ [][Next]_vars

\* Threads run, SDL's functions and callbacks return.  The script need not call
\* anything, and no event need come.
Fairness == /\ WF_vars(VideoStep) /\ WF_vars(SwapStep) /\ WF_vars(CallStep)
            /\ \A k \in Kinds : WF_vars(StartWait(k))

FairSpec == Spec /\ Fairness

-----------------------------------------------------------------------------
(* Properties.                                                              *)

SwapPending ==
    swapBuffersSem > 0 \/ tpc \notin {"acquire", "exited"}
ModePending == queue # <<>> \/ vpc \in {"set", "setting", "report", "ready"}

\* While the surface is ready the script draws alone: no swap and no change of
\* the mode is on its way.
DrawsAlone ==
    surfaceReady /\ spc \notin {"mode", "joinSwap", "joinVideo", "ended"}
        => ~SwapPending /\ ~ModePending

\* The swap thread swaps a surface that is there: ASSERT( _hdc ).
SwapsASurface == tpc \in {"swap", "swapping"} => surface # 0 /\ hdc

\* setVideoMode() succeeds when the mode it asked for is set.
SucceedsWithItsMode == spc = "surface" => surface = request /\ hdc

\* `ASSERT( _hdc != NULL );`: setVideoMode() finds the window that it makes a
\* context for.
FindsAWindow == spc = "surface" => hdc

\* "Call processEvents( SurfaceReadyEvents() ); to ensur the surface is ready
\* to use": a call that the wait for the surface ended finds it ready.
ReadySurfaceIsReported ==
    wpc["surface"] = "done" /\ ~cancel["surface"]
        /\ spc \in {"wait", "collect"} => surfaceReady

\* The script gets on from setVideoMode() and swapBuffers().
SurfaceCallsReturn ==
    spc \in {"await", "invalidate", "push", "mode", "swap", "busy", "post",
             "lock", "swapping"} ~> spc = "run"

\* An SDL event gets the call that waits for it on.
SdlEventEndsCall ==
    (spc = "wait" /\ "events" \in waiting /\ sdlEvents) ~> spc # "wait"

\* EndVideo() ends, whatever the threads are doing.
EndVideoEnds == spc = "joinSwap" ~> spc = "ended"
=============================================================================
