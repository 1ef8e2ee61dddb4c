----------------------------- MODULE Video_proofs -----------------------------
(***************************************************************************)
(* The safety of the video window, for any number of modes and calls, when  *)
(* no mode is set after one that failed (VI_Retry shows what happens then). *)
(***************************************************************************)
EXTENDS Video, TLAPS

VideoIdle == vpc \in {"pump", "broadcast", "acquire"}
VideoSets == vpc \in {"set", "setting", "report", "ready"}

\* What a mode that was set, or refused, leaves.
ModeDone ==
    (surface = request /\ hdc = TRUE) \/ (surface = 0 /\ error = TRUE)

\* An order is on its way only while the script waits for the mode, and the
\* last one is the end.
OrderInv ==
    /\ spc \notin {"mode", "joinVideo", "ended"} =>
         queue = <<>> /\ internalEventSem = 0 /\ VideoIdle
    /\ spc = "mode" =>
         /\ request \in Modes
         /\ \/ /\ queue = <<request>> /\ internalEventSem = 1
               /\ VideoIdle /\ surfaceReady = FALSE
            \/ /\ queue = <<>> /\ internalEventSem = 0
               /\ VideoSets /\ order = request /\ surfaceReady = FALSE
               /\ vpc = "report" => surface \in {request, 0}
               /\ vpc = "ready" => ModeDone
            \/ /\ queue = <<>> /\ internalEventSem = 0
               /\ VideoIdle /\ surfaceReady = TRUE /\ ModeDone
    /\ spc = "joinVideo" =>
         \/ queue = <<End>> /\ internalEventSem = 1 /\ VideoIdle
         \/ queue = <<>> /\ internalEventSem = 0 /\ vpc = "exited"
    /\ spc = "ended" => queue = <<>> /\ internalEventSem = 0 /\ vpc = "exited"

\* What the script draws on.
SurfaceInv ==
    /\ surface # 0 => hdc = TRUE \/ vpc = "report"
    /\ spc \in {"await", "invalidate", "swap", "busy", "post", "lock",
                "swapping", "swapped"} => surface # 0
    /\ spc = "surface" => surface = request /\ hdc = TRUE
    /\ spc = "push" => request \in Modes
    /\ spc \in {"await", "invalidate"} => request \in Modes
    /\ spc \in {"invalidate", "busy"} => surfaceReady = TRUE
    /\ spc \in {"push", "post", "lock", "swapping", "swapped"} =>
         surfaceReady = FALSE
    /\ surface = 0 /\ surfaceReady = TRUE /\ spc # "mode" => failed = TRUE
    /\ spc \in {"wait", "collect", "end"} => callback = {}

\* A swap is on its way only while the surface is not ready and the script does
\* nothing to it; with the end there is one token more.
SwapInv ==
    /\ swapBufferEndThread = TRUE <=> spc \in {"joinSwap", "joinVideo", "ended"}
    /\ tpc \in {"swap", "swapping", "throttle", "repost", "ready"} =>
         surface # 0
    /\ spc \in {"joinVideo", "ended"} => tpc = "exited"
    /\ swapBufferEndThread = FALSE =>
         /\ swapBuffersSem = 0 \/ (swapBuffersSem = 1 /\ tpc = "acquire")
         /\ tpc \notin {"repost", "exited"}
         /\ SwapPending => /\ surfaceReady = FALSE /\ surface # 0
                           /\ spc \notin {"push", "mode", "post", "lock",
                                         "swapping", "swapped"}
    /\ swapBufferEndThread = TRUE =>
         /\ tpc \notin {"acquire", "exited"} => swapBuffersSem <= 1
         /\ tpc = "repost" => swapBuffersSem = 0

IInv == TypeOK /\ OrderInv /\ SurfaceInv /\ SwapInv

\* A broadcast wakes a wait that sleeps, or changes nothing.
LEMMA WokenHasType ==
    ASSUME TypeOK, NEW k \in Kinds
    PROVE  Woken(k) \in [Kinds -> {"idle", "enter", "sleep", "done"}]
BY DEF TypeOK, Woken

-----------------------------------------------------------------------------
(* The thread of the window.                                                *)

\* SDL has events for the script, or not.
LEMMA PumpEventsKeeps ==
    ASSUME IInv, PumpEvents PROVE IInv'
<1> USE DEF PumpEvents, Video, window, orders, swaps, script, waits
<1>1. TypeOK'
  <2>1. sdlEvents' \in BOOLEAN
        BY Zenon DEF IInv, TypeOK
  <2> QED BY <2>1 DEF IInv, TypeOK
<1>2. OrderInv'
      BY DEF IInv, TypeOK, OrderInv, SurfaceInv, SwapInv, Modes, End, VideoIdle,
         VideoSets, ModeDone
<1>3. SurfaceInv'
      BY DEF IInv, TypeOK, OrderInv, SurfaceInv, SwapInv, Modes, VideoIdle,
         VideoSets, ModeDone
<1>4. SwapInv'
      BY DEF IInv, TypeOK, OrderInv, SurfaceInv, SwapInv, SwapPending, Modes,
         VideoIdle, VideoSets
<1> QED BY <1>1, <1>2, <1>3, <1>4 DEF IInv

\* The waits for them wake.
LEMMA BroadcastEventsKeeps ==
    ASSUME IInv, BroadcastEvents PROVE IInv'
<1> USE DEF BroadcastEvents, Video, WakeForEvents, Broadcast, window, orders,
        swaps, script, waits
<1>1. TypeOK'
  <2>1. UNCHANGED <<cancel, waiting, callback>>
        OBVIOUS
  <2>2. wpc' = wpc \/ wpc' = Woken("events")
        OBVIOUS
  <2> QED BY <2>1, <2>2, WokenHasType DEF IInv, TypeOK, Kinds
<1>2. OrderInv'
      BY DEF IInv, TypeOK, OrderInv, SurfaceInv, SwapInv, Modes, End, VideoIdle,
         VideoSets, ModeDone
<1>3. SurfaceInv'
      BY DEF IInv, TypeOK, OrderInv, SurfaceInv, SwapInv, Modes, VideoIdle,
         VideoSets, ModeDone
<1>4. SwapInv'
      BY DEF IInv, TypeOK, OrderInv, SurfaceInv, SwapInv, SwapPending, Modes,
         VideoIdle, VideoSets
<1> QED BY <1>1, <1>2, <1>3, <1>4 DEF IInv

\* Without an order the thread pumps on.
LEMMA NoInternalEventKeeps ==
    ASSUME IInv, NoInternalEvent PROVE IInv'
<1> USE DEF NoInternalEvent, Video, window, orders, swaps, script, waits
<1>1. TypeOK'
      BY BoundsAssumption DEF IInv, TypeOK, OrderInv, SurfaceInv, SwapInv,
         Modes, End, Kinds, SwapPending
<1>2. OrderInv'
      BY DEF IInv, TypeOK, OrderInv, SurfaceInv, SwapInv, Modes, End, VideoIdle,
         VideoSets, ModeDone
<1>3. SurfaceInv'
      BY DEF IInv, TypeOK, OrderInv, SurfaceInv, SwapInv, Modes, VideoIdle,
         VideoSets, ModeDone
<1>4. SwapInv'
      BY DEF IInv, TypeOK, OrderInv, SurfaceInv, SwapInv, SwapPending, Modes,
         VideoIdle, VideoSets
<1> QED BY <1>1, <1>2, <1>3, <1>4 DEF IInv

\* The order taken is the mode asked for, or the end.
LEMMA TakeInternalEventKeeps ==
    ASSUME IInv, TakeInternalEvent PROVE IInv'
<1> USE DEF TakeInternalEvent, Video, window, orders, swaps, script, waits
<1>1. TypeOK'
      BY BoundsAssumption DEF IInv, TypeOK, OrderInv, SurfaceInv, SwapInv,
         Modes, End, Kinds, SwapPending
<1>2. OrderInv'
      BY DEF IInv, TypeOK, OrderInv, SurfaceInv, SwapInv, Modes, End, VideoIdle,
         VideoSets, ModeDone
<1>3. SurfaceInv'
      BY DEF IInv, TypeOK, OrderInv, SurfaceInv, SwapInv, Modes, VideoIdle,
         VideoSets, ModeDone
<1>4. SwapInv'
      BY DEF IInv, TypeOK, OrderInv, SurfaceInv, SwapInv, SwapPending, Modes,
         VideoIdle, VideoSets
<1> QED BY <1>1, <1>2, <1>3, <1>4 DEF IInv

\* Nobody swaps: the surface is not ready.
LEMMA BeginSetVideoModeKeeps ==
    ASSUME IInv, BeginSetVideoMode PROVE IInv'
<1> USE DEF BeginSetVideoMode, Video, window, orders, swaps, script, waits
<1>1. TypeOK'
      BY BoundsAssumption DEF IInv, TypeOK, OrderInv, SurfaceInv, SwapInv,
         Modes, End, Kinds, SwapPending
<1>2. OrderInv'
      BY DEF IInv, TypeOK, OrderInv, SurfaceInv, SwapInv, Modes, End, VideoIdle,
         VideoSets, ModeDone
<1>3. SurfaceInv'
      BY DEF IInv, TypeOK, OrderInv, SurfaceInv, SwapInv, Modes, VideoIdle,
         VideoSets, ModeDone
<1>4. SwapInv'
      BY DEF IInv, TypeOK, OrderInv, SurfaceInv, SwapInv, SwapPending, Modes,
         VideoIdle, VideoSets
<1> QED BY <1>1, <1>2, <1>3, <1>4 DEF IInv

\* The system sets the mode or refuses it.
LEMMA EndSetVideoModeKeeps ==
    ASSUME IInv, EndSetVideoMode PROVE IInv'
<1> USE DEF EndSetVideoMode, Video, window, orders, swaps, script, waits
<1>1. TypeOK'
      BY BoundsAssumption DEF IInv, TypeOK, OrderInv, SurfaceInv, SwapInv,
         Modes, End, Kinds, SwapPending
<1>2. OrderInv'
      BY DEF IInv, TypeOK, OrderInv, SurfaceInv, SwapInv, Modes, End, VideoIdle,
         VideoSets, ModeDone
<1>3. SurfaceInv'
      BY DEF IInv, TypeOK, OrderInv, SurfaceInv, SwapInv, Modes, VideoIdle,
         VideoSets, ModeDone
<1>4. SwapInv'
      BY DEF IInv, TypeOK, OrderInv, SurfaceInv, SwapInv, SwapPending, Modes,
         VideoIdle, VideoSets
<1> QED BY <1>1, <1>2, <1>3, <1>4 DEF IInv

\* Either the window is there or the error.
LEMMA ReportSetVideoModeKeeps ==
    ASSUME IInv, ReportSetVideoMode PROVE IInv'
<1> USE DEF ReportSetVideoMode, Video, window, orders, swaps, script, waits
<1>1. TypeOK'
  <2>1. hdc' \in BOOLEAN /\ error' \in BOOLEAN
        BY Zenon DEF IInv, TypeOK
  <2> QED BY <2>1 DEF IInv, TypeOK
<1>2. OrderInv'
      BY DEF IInv, TypeOK, OrderInv, SurfaceInv, SwapInv, Modes, End, VideoIdle,
         VideoSets, ModeDone
<1>3. SurfaceInv'
      BY DEF IInv, TypeOK, OrderInv, SurfaceInv, SwapInv, Modes, VideoIdle,
         VideoSets, ModeDone
<1>4. SwapInv'
      BY DEF IInv, TypeOK, OrderInv, SurfaceInv, SwapInv, SwapPending, Modes,
         VideoIdle, VideoSets
<1> QED BY <1>1, <1>2, <1>3, <1>4 DEF IInv

\* The surface is ready when the order is done.
LEMMA VideoReadyKeeps ==
    ASSUME IInv, VideoReady PROVE IInv'
<1> USE DEF VideoReady, Video, ReadyAlways, SurfaceReady, Broadcast, Woken,
        window, orders, swaps, script, waits
<1>1. TypeOK'
      BY BoundsAssumption DEF IInv, TypeOK, OrderInv, SurfaceInv, SwapInv,
         Modes, End, Kinds, SwapPending
<1>2. OrderInv'
      BY DEF IInv, TypeOK, OrderInv, SurfaceInv, SwapInv, Modes, End, VideoIdle,
         VideoSets, ModeDone
<1>3. SurfaceInv'
      BY DEF IInv, TypeOK, OrderInv, SurfaceInv, SwapInv, Modes, VideoIdle,
         VideoSets, ModeDone
<1>4. SwapInv'
      BY DEF IInv, TypeOK, OrderInv, SurfaceInv, SwapInv, SwapPending, Modes,
         VideoIdle, VideoSets
<1> QED BY <1>1, <1>2, <1>3, <1>4 DEF IInv

-----------------------------------------------------------------------------
(* The thread of the swaps.                                                 *)

\* The swap asked for, or the end.
LEMMA AcquireSwapKeeps ==
    ASSUME IInv, AcquireSwap PROVE IInv'
<1> USE DEF AcquireSwap, Swap, window, orders, swaps, script, waits
<1>1. TypeOK'
      BY BoundsAssumption DEF IInv, TypeOK, OrderInv, SurfaceInv, SwapInv,
         Modes, End, Kinds, SwapPending
<1>2. OrderInv'
      BY DEF IInv, TypeOK, OrderInv, SurfaceInv, SwapInv, Modes, End, VideoIdle,
         VideoSets, ModeDone
<1>3. SurfaceInv'
      BY DEF IInv, TypeOK, OrderInv, SurfaceInv, SwapInv, Modes, VideoIdle,
         VideoSets, ModeDone
<1>4. SwapInv'
      BY DEF IInv, TypeOK, OrderInv, SurfaceInv, SwapInv, SwapPending, Modes,
         VideoIdle, VideoSets
<1> QED BY <1>1, <1>2, <1>3, <1>4 DEF IInv

\* It swaps only what was asked for before the end.
LEMMA TestSwapEndKeeps ==
    ASSUME IInv, TestSwapEnd PROVE IInv'
<1> USE DEF TestSwapEnd, Swap, window, orders, swaps, script, waits
<1>1. TypeOK'
      BY BoundsAssumption DEF IInv, TypeOK, OrderInv, SurfaceInv, SwapInv,
         Modes, End, Kinds, SwapPending
<1>2. OrderInv'
      BY DEF IInv, TypeOK, OrderInv, SurfaceInv, SwapInv, Modes, End, VideoIdle,
         VideoSets, ModeDone
<1>3. SurfaceInv'
      BY DEF IInv, TypeOK, OrderInv, SurfaceInv, SwapInv, Modes, VideoIdle,
         VideoSets, ModeDone
<1>4. SwapInv'
      BY DEF IInv, TypeOK, OrderInv, SurfaceInv, SwapInv, SwapPending, Modes,
         VideoIdle, VideoSets
<1> QED BY <1>1, <1>2, <1>3, <1>4 DEF IInv

\* The surface that is swapped stays.
LEMMA BeginSwapKeeps ==
    ASSUME IInv, BeginSwap PROVE IInv'
<1> USE DEF BeginSwap, Swap, window, orders, swaps, script, waits
<1>1. TypeOK'
      BY BoundsAssumption DEF IInv, TypeOK, OrderInv, SurfaceInv, SwapInv,
         Modes, End, Kinds, SwapPending
<1>2. OrderInv'
      BY DEF IInv, TypeOK, OrderInv, SurfaceInv, SwapInv, Modes, End, VideoIdle,
         VideoSets, ModeDone
<1>3. SurfaceInv'
      BY DEF IInv, TypeOK, OrderInv, SurfaceInv, SwapInv, Modes, VideoIdle,
         VideoSets, ModeDone
<1>4. SwapInv'
      BY DEF IInv, TypeOK, OrderInv, SurfaceInv, SwapInv, SwapPending, Modes,
         VideoIdle, VideoSets
<1> QED BY <1>1, <1>2, <1>3, <1>4 DEF IInv

\* The swap is still on its way.
LEMMA EndSwapKeeps ==
    ASSUME IInv, EndSwap PROVE IInv'
<1> USE DEF EndSwap, Swap, window, orders, swaps, script, waits
<1>1. TypeOK'
      BY BoundsAssumption DEF IInv, TypeOK, OrderInv, SurfaceInv, SwapInv,
         Modes, End, Kinds, SwapPending
<1>2. OrderInv'
      BY DEF IInv, TypeOK, OrderInv, SurfaceInv, SwapInv, Modes, End, VideoIdle,
         VideoSets, ModeDone
<1>3. SurfaceInv'
      BY DEF IInv, TypeOK, OrderInv, SurfaceInv, SwapInv, Modes, VideoIdle,
         VideoSets, ModeDone
<1>4. SwapInv'
      BY DEF IInv, TypeOK, OrderInv, SurfaceInv, SwapInv, SwapPending, Modes,
         VideoIdle, VideoSets
<1> QED BY <1>1, <1>2, <1>3, <1>4 DEF IInv

\* The swap is still on its way.
LEMMA ThrottleEndsKeeps ==
    ASSUME IInv, ThrottleEnds PROVE IInv'
<1> USE DEF ThrottleEnds, Swap, window, orders, swaps, script, waits
<1>1. TypeOK'
      BY BoundsAssumption DEF IInv, TypeOK, OrderInv, SurfaceInv, SwapInv,
         Modes, End, Kinds, SwapPending
<1>2. OrderInv'
      BY DEF IInv, TypeOK, OrderInv, SurfaceInv, SwapInv, Modes, End, VideoIdle,
         VideoSets, ModeDone
<1>3. SurfaceInv'
      BY DEF IInv, TypeOK, OrderInv, SurfaceInv, SwapInv, Modes, VideoIdle,
         VideoSets, ModeDone
<1>4. SwapInv'
      BY DEF IInv, TypeOK, OrderInv, SurfaceInv, SwapInv, SwapPending, Modes,
         VideoIdle, VideoSets
<1> QED BY <1>1, <1>2, <1>3, <1>4 DEF IInv

\* Only the end breaks the sleep.
LEMMA ThrottleBreaksKeeps ==
    ASSUME IInv, ThrottleBreaks PROVE IInv'
<1> USE DEF ThrottleBreaks, Swap, window, orders, swaps, script, waits
<1>1. TypeOK'
      BY BoundsAssumption DEF IInv, TypeOK, OrderInv, SurfaceInv, SwapInv,
         Modes, End, Kinds, SwapPending
<1>2. OrderInv'
      BY DEF IInv, TypeOK, OrderInv, SurfaceInv, SwapInv, Modes, End, VideoIdle,
         VideoSets, ModeDone
<1>3. SurfaceInv'
      BY DEF IInv, TypeOK, OrderInv, SurfaceInv, SwapInv, Modes, VideoIdle,
         VideoSets, ModeDone
<1>4. SwapInv'
      BY DEF IInv, TypeOK, OrderInv, SurfaceInv, SwapInv, SwapPending, Modes,
         VideoIdle, VideoSets
<1> QED BY <1>1, <1>2, <1>3, <1>4 DEF IInv

\* The token of the end is given back.
LEMMA RepostSwapKeeps ==
    ASSUME IInv, RepostSwap PROVE IInv'
<1> USE DEF RepostSwap, Swap, ReturnToken, window, orders, swaps, script, waits
<1>1. TypeOK'
      BY BoundsAssumption DEF IInv, TypeOK, OrderInv, SurfaceInv, SwapInv,
         Modes, End, Kinds, SwapPending
<1>2. OrderInv'
      BY DEF IInv, TypeOK, OrderInv, SurfaceInv, SwapInv, Modes, End, VideoIdle,
         VideoSets, ModeDone
<1>3. SurfaceInv'
      BY DEF IInv, TypeOK, OrderInv, SurfaceInv, SwapInv, Modes, VideoIdle,
         VideoSets, ModeDone
<1>4. SwapInv'
      BY DEF IInv, TypeOK, OrderInv, SurfaceInv, SwapInv, SwapPending, Modes,
         VideoIdle, VideoSets
<1> QED BY <1>1, <1>2, <1>3, <1>4 DEF IInv

\* The surface is ready when the swap is done.
LEMMA SwapReadyKeeps ==
    ASSUME IInv, SwapReady PROVE IInv'
<1> USE DEF SwapReady, Swap, SurfaceReady, Broadcast, Woken, window, orders,
        swaps, script, waits
<1>1. TypeOK'
      BY BoundsAssumption DEF IInv, TypeOK, OrderInv, SurfaceInv, SwapInv,
         Modes, End, Kinds, SwapPending
<1>2. OrderInv'
      BY DEF IInv, TypeOK, OrderInv, SurfaceInv, SwapInv, SwapPending, Modes,
         End, VideoIdle, VideoSets, ModeDone
<1>3. SurfaceInv'
      BY DEF IInv, TypeOK, OrderInv, SurfaceInv, SwapInv, SwapPending, Modes,
         VideoIdle, VideoSets, ModeDone
<1>4. SwapInv'
      BY DEF IInv, TypeOK, OrderInv, SurfaceInv, SwapInv, SwapPending, Modes,
         VideoIdle, VideoSets
<1> QED BY <1>1, <1>2, <1>3, <1>4 DEF IInv

-----------------------------------------------------------------------------
(* The script.                                                              *)

\* Without a surface that is set none has become ready: no mode has failed.
LEMMA SetVideoModeKeeps ==
    ASSUME ~Retries, IInv, SetVideoMode PROVE IInv'
<1> USE DEF SetVideoMode, Script, FirstStep, window, orders, swaps, script,
        waits
<1>1. TypeOK'
      BY BoundsAssumption DEF IInv, TypeOK, OrderInv, SurfaceInv, SwapInv,
         Modes, End, Kinds, SwapPending
<1>2. OrderInv'
      BY DEF IInv, TypeOK, OrderInv, SurfaceInv, SwapInv, Modes, End, VideoIdle,
         VideoSets, ModeDone
<1>3. SurfaceInv'
      BY DEF IInv, TypeOK, OrderInv, SurfaceInv, SwapInv, Modes, VideoIdle,
         VideoSets, ModeDone
<1>4. SwapInv'
      BY DEF IInv, TypeOK, OrderInv, SurfaceInv, SwapInv, SwapPending, Modes,
         VideoIdle, VideoSets
<1> QED BY <1>1, <1>2, <1>3, <1>4 DEF IInv

\* The surface is ready, so that nothing is on its way.
LEMMA AwaitSurfaceKeeps ==
    ASSUME IInv, AwaitSurface PROVE IInv'
<1> USE DEF AwaitSurface, WaitSurfaceReady, Script, window, orders, swaps, script,
        waits
<1>1. TypeOK'
      BY DEF IInv, TypeOK, Modes, End, Kinds
<1>2. OrderInv'
      BY DEF IInv, TypeOK, OrderInv, SurfaceInv, SwapInv, Modes, End, VideoIdle,
         VideoSets, ModeDone
<1>3. SurfaceInv'
      BY DEF IInv, TypeOK, OrderInv, SurfaceInv, SwapInv, Modes, VideoIdle,
         VideoSets, ModeDone
<1>4. SwapInv'
      BY DEF IInv, TypeOK, OrderInv, SurfaceInv, SwapInv, SwapPending, Modes,
         VideoIdle, VideoSets
<1> QED BY <1>1, <1>2, <1>3, <1>4 DEF IInv

\* Nothing is on its way, and nothing can come.
LEMMA InvalidateKeeps ==
    ASSUME IInv, Invalidate PROVE IInv'
<1> USE DEF Invalidate, Script, InvalidateSurface, Broadcast, window, orders,
        swaps, script, waits
<1>1. TypeOK'
  <2>1. surfaceReady' \in BOOLEAN
        BY Zenon
  <2> QED BY <2>1, WokenHasType DEF IInv, TypeOK, Kinds
<1>2. OrderInv'
      BY DEF IInv, TypeOK, OrderInv, SurfaceInv, SwapInv, Modes, End, VideoIdle,
         VideoSets, ModeDone
<1>3. SurfaceInv'
      BY DEF IInv, TypeOK, OrderInv, SurfaceInv, SwapInv, Modes, VideoIdle,
         VideoSets, ModeDone
<1>4. SwapInv'
      BY DEF IInv, TypeOK, OrderInv, SurfaceInv, SwapInv, SwapPending, Modes,
         VideoIdle, VideoSets
<1> QED BY <1>1, <1>2, <1>3, <1>4 DEF IInv

\* The only order.
LEMMA PushModeKeeps ==
    ASSUME IInv, PushMode PROVE IInv'
<1> USE DEF PushMode, Script, Push, window, orders, swaps, script, waits
<1>1. TypeOK'
      BY BoundsAssumption DEF IInv, TypeOK, OrderInv, SurfaceInv, SwapInv,
         Modes, End, Kinds, SwapPending
<1>2. OrderInv'
      BY DEF IInv, TypeOK, OrderInv, SurfaceInv, SwapInv, Modes, End, VideoIdle,
         VideoSets, ModeDone
<1>3. SurfaceInv'
      BY DEF IInv, TypeOK, OrderInv, SurfaceInv, SwapInv, Modes, VideoIdle,
         VideoSets, ModeDone
<1>4. SwapInv'
      BY DEF IInv, TypeOK, OrderInv, SurfaceInv, SwapInv, SwapPending, Modes,
         VideoIdle, VideoSets
<1> QED BY <1>1, <1>2, <1>3, <1>4 DEF IInv

\* From here no mode is set.
LEMMA ModeFailsKeeps ==
    ASSUME IInv, ModeFails PROVE IInv'
<1> USE DEF ModeFails, Script, window, orders, swaps, script, waits
<1>1. TypeOK'
      BY BoundsAssumption DEF IInv, TypeOK, OrderInv, SurfaceInv, SwapInv,
         Modes, End, Kinds, SwapPending
<1>2. OrderInv'
      BY DEF IInv, TypeOK, OrderInv, SurfaceInv, SwapInv, Modes, End, VideoIdle,
         VideoSets, ModeDone
<1>3. SurfaceInv'
      BY DEF IInv, TypeOK, OrderInv, SurfaceInv, SwapInv, Modes, VideoIdle,
         VideoSets, ModeDone
<1>4. SwapInv'
      BY DEF IInv, TypeOK, OrderInv, SurfaceInv, SwapInv, SwapPending, Modes,
         VideoIdle, VideoSets
<1> QED BY <1>1, <1>2, <1>3, <1>4 DEF IInv

\* The mode that is set is the one asked for.
LEMMA ModeIsSetKeeps ==
    ASSUME IInv, ModeIsSet PROVE IInv'
<1> USE DEF ModeIsSet, Script, window, orders, swaps, script, waits
<1>1. TypeOK'
      BY BoundsAssumption DEF IInv, TypeOK, OrderInv, SurfaceInv, SwapInv,
         Modes, End, Kinds, SwapPending
<1>2. OrderInv'
      BY DEF IInv, TypeOK, OrderInv, SurfaceInv, SwapInv, Modes, End, VideoIdle,
         VideoSets, ModeDone
<1>3. SurfaceInv'
      BY DEF IInv, TypeOK, OrderInv, SurfaceInv, SwapInv, Modes, VideoIdle,
         VideoSets, ModeDone
<1>4. SwapInv'
      BY DEF IInv, TypeOK, OrderInv, SurfaceInv, SwapInv, SwapPending, Modes,
         VideoIdle, VideoSets
<1> QED BY <1>1, <1>2, <1>3, <1>4 DEF IInv

\* The script goes on with the surface ready.
LEMMA ModeReturnsKeeps ==
    ASSUME IInv, ModeReturns PROVE IInv'
<1> USE DEF ModeReturns, Script, window, orders, swaps, script, waits
<1>1. TypeOK'
      BY BoundsAssumption DEF IInv, TypeOK, OrderInv, SurfaceInv, SwapInv,
         Modes, End, Kinds, SwapPending
<1>2. OrderInv'
      BY DEF IInv, TypeOK, OrderInv, SurfaceInv, SwapInv, Modes, End, VideoIdle,
         VideoSets, ModeDone
<1>3. SurfaceInv'
      BY DEF IInv, TypeOK, OrderInv, SurfaceInv, SwapInv, Modes, VideoIdle,
         VideoSets, ModeDone
<1>4. SwapInv'
      BY DEF IInv, TypeOK, OrderInv, SurfaceInv, SwapInv, SwapPending, Modes,
         VideoIdle, VideoSets
<1> QED BY <1>1, <1>2, <1>3, <1>4 DEF IInv

\* There is a surface.
LEMMA SwapBuffersKeeps ==
    ASSUME IInv, SwapBuffers PROVE IInv'
<1> USE DEF SwapBuffers, Script, window, orders, swaps, script, waits
<1>1. TypeOK'
      BY BoundsAssumption DEF IInv, TypeOK, OrderInv, SurfaceInv, SwapInv,
         Modes, End, Kinds, SwapPending
<1>2. OrderInv'
      BY DEF IInv, TypeOK, OrderInv, SurfaceInv, SwapInv, Modes, End, VideoIdle,
         VideoSets, ModeDone
<1>3. SurfaceInv'
      BY DEF IInv, TypeOK, OrderInv, SurfaceInv, SwapInv, Modes, VideoIdle,
         VideoSets, ModeDone
<1>4. SwapInv'
      BY DEF IInv, TypeOK, OrderInv, SurfaceInv, SwapInv, SwapPending, Modes,
         VideoIdle, VideoSets
<1> QED BY <1>1, <1>2, <1>3, <1>4 DEF IInv

\* Nothing is on its way.
LEMMA AwaitSwapKeeps ==
    ASSUME IInv, AwaitSwap PROVE IInv'
<1> USE DEF AwaitSwap, WaitSurfaceReady, Script, window, orders, swaps, script,
        waits
<1>1. TypeOK'
      BY DEF IInv, TypeOK, Modes, End, Kinds
<1>2. OrderInv'
      BY DEF IInv, TypeOK, OrderInv, SurfaceInv, SwapInv, Modes, End, VideoIdle,
         VideoSets, ModeDone
<1>3. SurfaceInv'
      BY DEF IInv, TypeOK, OrderInv, SurfaceInv, SwapInv, Modes, VideoIdle,
         VideoSets, ModeDone
<1>4. SwapInv'
      BY DEF IInv, TypeOK, OrderInv, SurfaceInv, SwapInv, SwapPending, Modes,
         VideoIdle, VideoSets
<1> QED BY <1>1, <1>2, <1>3, <1>4 DEF IInv

\* Nothing can come.
LEMMA InvalidateSwapKeeps ==
    ASSUME IInv, InvalidateSwap PROVE IInv'
<1> USE DEF InvalidateSwap, Script, BecomeBusy, InvalidateSurface, Broadcast,
        window, orders, swaps, script, waits
<1>1. TypeOK'
  <2>1. surfaceReady' \in BOOLEAN
        BY Zenon
  <2> QED BY <2>1, WokenHasType DEF IInv, TypeOK, Kinds
<1>2. OrderInv'
      BY DEF IInv, TypeOK, OrderInv, SurfaceInv, SwapInv, Modes, End, VideoIdle,
         VideoSets, ModeDone
<1>3. SurfaceInv'
      BY DEF IInv, TypeOK, OrderInv, SurfaceInv, SwapInv, Modes, VideoIdle,
         VideoSets, ModeDone
<1>4. SwapInv'
      BY DEF IInv, TypeOK, OrderInv, SurfaceInv, SwapInv, SwapPending, Modes,
         VideoIdle, VideoSets
<1> QED BY <1>1, <1>2, <1>3, <1>4 DEF IInv

\* The only swap.
LEMMA SwapAsyncKeeps ==
    ASSUME IInv, SwapAsync PROVE IInv'
<1> USE DEF SwapAsync, Script, OutsideWindow, window, orders, swaps, script,
        waits
<1>1. TypeOK'
  <2>1. swapBuffersSem' \in 0..2
    <3>1. swapBufferEndThread = FALSE
          BY DEF IInv, TypeOK, SwapInv
    <3> QED BY <3>1 DEF IInv, TypeOK, SwapInv
  <2> QED BY <2>1 DEF IInv, TypeOK, Kinds
<1>2. OrderInv'
      BY DEF IInv, TypeOK, OrderInv, SurfaceInv, SwapInv, Modes, End, VideoIdle,
         VideoSets, ModeDone
<1>3. SurfaceInv'
      BY DEF IInv, TypeOK, OrderInv, SurfaceInv, SwapInv, Modes, VideoIdle,
         VideoSets, ModeDone
<1>4. SwapInv'
      BY DEF IInv, TypeOK, OrderInv, SurfaceInv, SwapInv, SwapPending, Modes,
         VideoIdle, VideoSets
<1> QED BY <1>1, <1>2, <1>3, <1>4 DEF IInv

\* No swap is on its way.
LEMMA SwapSyncKeeps ==
    ASSUME IInv, SwapSync PROVE IInv'
<1> USE DEF SwapSync, Script, window, orders, swaps, script, waits
<1>1. TypeOK'
      BY BoundsAssumption DEF IInv, TypeOK, OrderInv, SurfaceInv, SwapInv,
         Modes, End, Kinds, SwapPending
<1>2. OrderInv'
      BY DEF IInv, TypeOK, OrderInv, SurfaceInv, SwapInv, Modes, End, VideoIdle,
         VideoSets, ModeDone
<1>3. SurfaceInv'
      BY DEF IInv, TypeOK, OrderInv, SurfaceInv, SwapInv, Modes, VideoIdle,
         VideoSets, ModeDone
<1>4. SwapInv'
      BY DEF IInv, TypeOK, OrderInv, SurfaceInv, SwapInv, SwapPending, Modes,
         VideoIdle, VideoSets
<1> QED BY <1>1, <1>2, <1>3, <1>4 DEF IInv

\* The surface is not ready yet.
LEMMA EndSwapSyncKeeps ==
    ASSUME IInv, EndSwapSync PROVE IInv'
<1> USE DEF EndSwapSync, Script, window, orders, swaps, script, waits
<1>1. TypeOK'
      BY BoundsAssumption DEF IInv, TypeOK, OrderInv, SurfaceInv, SwapInv,
         Modes, End, Kinds, SwapPending
<1>2. OrderInv'
      BY DEF IInv, TypeOK, OrderInv, SurfaceInv, SwapInv, Modes, End, VideoIdle,
         VideoSets, ModeDone
<1>3. SurfaceInv'
      BY DEF IInv, TypeOK, OrderInv, SurfaceInv, SwapInv, Modes, VideoIdle,
         VideoSets, ModeDone
<1>4. SwapInv'
      BY DEF IInv, TypeOK, OrderInv, SurfaceInv, SwapInv, SwapPending, Modes,
         VideoIdle, VideoSets
<1> QED BY <1>1, <1>2, <1>3, <1>4 DEF IInv

\* The surface is ready again.
LEMMA SwapSyncReadyKeeps ==
    ASSUME IInv, SwapSyncReady PROVE IInv'
<1> USE DEF SwapSyncReady, Script, SurfaceReady, Broadcast, Woken, window,
        orders, swaps, script, waits
<1>1. TypeOK'
      BY BoundsAssumption DEF IInv, TypeOK, OrderInv, SurfaceInv, SwapInv,
         Modes, End, Kinds, SwapPending
<1>2. OrderInv'
      BY DEF IInv, TypeOK, OrderInv, SurfaceInv, SwapInv, Modes, End, VideoIdle,
         VideoSets, ModeDone
<1>3. SurfaceInv'
      BY DEF IInv, TypeOK, OrderInv, SurfaceInv, SwapInv, Modes, VideoIdle,
         VideoSets, ModeDone
<1>4. SwapInv'
      BY DEF IInv, TypeOK, OrderInv, SurfaceInv, SwapInv, SwapPending, Modes,
         VideoIdle, VideoSets
<1> QED BY <1>1, <1>2, <1>3, <1>4 DEF IInv

\* No callback runs.
LEMMA ProcessEventsKeeps ==
    ASSUME IInv, ProcessEvents PROVE IInv'
<1> USE DEF ProcessEvents, Script, OutsideCall, window, orders, swaps, script,
        waits
<1>1. TypeOK'
      BY BoundsAssumption DEF IInv, TypeOK, OrderInv, SurfaceInv, SwapInv,
         Modes, End, Kinds, SwapPending
<1>2. OrderInv'
      BY DEF IInv, TypeOK, OrderInv, SurfaceInv, SwapInv, Modes, End, VideoIdle,
         VideoSets, ModeDone
<1>3. SurfaceInv'
      BY DEF IInv, TypeOK, OrderInv, SurfaceInv, SwapInv, Modes, VideoIdle,
         VideoSets, ModeDone
<1>4. SwapInv'
      BY DEF IInv, TypeOK, OrderInv, SurfaceInv, SwapInv, SwapPending, Modes,
         VideoIdle, VideoSets
<1> QED BY <1>1, <1>2, <1>3, <1>4 DEF IInv

\* A wait tests what it waits for.
LEMMA StartWaitKeeps ==
    ASSUME IInv, NEW k \in Kinds, StartWait(k) PROVE IInv'
<1> USE DEF StartWait, OutsideCall, window, orders, swaps, script, waits
<1>1. TypeOK'
      BY BoundsAssumption DEF IInv, TypeOK, OrderInv, SurfaceInv, SwapInv,
         Modes, End, Kinds, SwapPending
<1>2. OrderInv'
      BY DEF IInv, TypeOK, OrderInv, SurfaceInv, SwapInv, Modes, End, VideoIdle,
         VideoSets, ModeDone
<1>3. SurfaceInv'
      BY DEF IInv, TypeOK, OrderInv, SurfaceInv, SwapInv, Modes, VideoIdle,
         VideoSets, ModeDone
<1>4. SwapInv'
      BY DEF IInv, TypeOK, OrderInv, SurfaceInv, SwapInv, SwapPending, Modes,
         VideoIdle, VideoSets
<1> QED BY <1>1, <1>2, <1>3, <1>4 DEF IInv

\* The waits that go on are canceled.
LEMMA BeginCancelKeeps ==
    ASSUME IInv, BeginCancel PROVE IInv'
<1> USE DEF BeginCancel, Script, OutsideCall, window, orders, swaps, script,
        waits
<1>1. TypeOK'
      BY BoundsAssumption DEF IInv, TypeOK, OrderInv, SurfaceInv, SwapInv,
         Modes, End, Kinds, SwapPending
<1>2. OrderInv'
      BY DEF IInv, TypeOK, OrderInv, SurfaceInv, SwapInv, Modes, End, VideoIdle,
         VideoSets, ModeDone
<1>3. SurfaceInv'
      BY DEF IInv, TypeOK, OrderInv, SurfaceInv, SwapInv, Modes, VideoIdle,
         VideoSets, ModeDone
<1>4. SwapInv'
      BY DEF IInv, TypeOK, OrderInv, SurfaceInv, SwapInv, SwapPending, Modes,
         VideoIdle, VideoSets
<1> QED BY <1>1, <1>2, <1>3, <1>4 DEF IInv

\* All waits have returned.
LEMMA CollectKeeps ==
    ASSUME IInv, Collect PROVE IInv'
<1> USE DEF Collect, Script, OutsideCall, window, orders, swaps, script, waits
<1>1. TypeOK'
      BY BoundsAssumption DEF IInv, TypeOK, OrderInv, SurfaceInv, SwapInv,
         Modes, End, Kinds, SwapPending
<1>2. OrderInv'
      BY DEF IInv, TypeOK, OrderInv, SurfaceInv, SwapInv, Modes, End, VideoIdle,
         VideoSets, ModeDone
<1>3. SurfaceInv'
      BY DEF IInv, TypeOK, OrderInv, SurfaceInv, SwapInv, Modes, VideoIdle,
         VideoSets, ModeDone
<1>4. SwapInv'
      BY DEF IInv, TypeOK, OrderInv, SurfaceInv, SwapInv, SwapPending, Modes,
         VideoIdle, VideoSets
<1> QED BY <1>1, <1>2, <1>3, <1>4 DEF IInv

\* The callback is the script.
LEMMA EndWaitKeeps ==
    ASSUME IInv, NEW k \in Kinds, EndWait(k) PROVE IInv'
<1> USE DEF EndWait, OutsideCall, window, orders, swaps, script, waits
<1>1. TypeOK'
  <2>1. sdlEvents' \in BOOLEAN
        BY Zenon DEF IInv, TypeOK
  <2>2. wpc' \in [Kinds -> {"idle", "enter", "sleep", "done"}]
        BY DEF IInv, TypeOK
  <2>3. callback' \subseteq waiting' /\ waiting' \subseteq Kinds
        BY DEF IInv, TypeOK, SurfaceInv
  <2> QED BY <2>1, <2>2, <2>3 DEF IInv, TypeOK
<1>2. OrderInv'
      BY DEF IInv, TypeOK, OrderInv, SurfaceInv, SwapInv, Modes, End, VideoIdle,
         VideoSets, ModeDone
<1>3. SurfaceInv'
      BY DEF IInv, TypeOK, OrderInv, SurfaceInv, SwapInv, Modes, VideoIdle,
         VideoSets, ModeDone
<1>4. SwapInv'
      BY DEF IInv, TypeOK, OrderInv, SurfaceInv, SwapInv, SwapPending, Modes,
         VideoIdle, VideoSets
<1> QED BY <1>1, <1>2, <1>3, <1>4 DEF IInv

\* The next handle is ended.
LEMMA CallbackReturnsKeeps ==
    ASSUME IInv, CallbackReturns PROVE IInv'
<1> USE DEF CallbackReturns, Script, OutsideCall, window, orders, swaps, script,
        waits
<1>1. TypeOK'
      BY BoundsAssumption DEF IInv, TypeOK, OrderInv, SurfaceInv, SwapInv,
         Modes, End, Kinds, SwapPending
<1>2. OrderInv'
      BY DEF IInv, TypeOK, OrderInv, SurfaceInv, SwapInv, Modes, End, VideoIdle,
         VideoSets, ModeDone
<1>3. SurfaceInv'
      BY DEF IInv, TypeOK, OrderInv, SurfaceInv, SwapInv, Modes, VideoIdle,
         VideoSets, ModeDone
<1>4. SwapInv'
      BY DEF IInv, TypeOK, OrderInv, SurfaceInv, SwapInv, SwapPending, Modes,
         VideoIdle, VideoSets
<1> QED BY <1>1, <1>2, <1>3, <1>4 DEF IInv

\* One token more than there are swaps.
LEMMA EndVideoKeeps ==
    ASSUME IInv, EndVideo PROVE IInv'
<1> USE DEF EndVideo, Script, window, orders, swaps, script, waits
<1>1. TypeOK'
      BY BoundsAssumption DEF IInv, TypeOK, OrderInv, SurfaceInv, SwapInv,
         Modes, End, Kinds, SwapPending
<1>2. OrderInv'
      BY DEF IInv, TypeOK, OrderInv, SurfaceInv, SwapInv, Modes, End, VideoIdle,
         VideoSets, ModeDone
<1>3. SurfaceInv'
      BY DEF IInv, TypeOK, OrderInv, SurfaceInv, SwapInv, Modes, VideoIdle,
         VideoSets, ModeDone
<1>4. SwapInv'
      BY DEF IInv, TypeOK, OrderInv, SurfaceInv, SwapInv, SwapPending, Modes,
         VideoIdle, VideoSets
<1> QED BY <1>1, <1>2, <1>3, <1>4 DEF IInv

\* The only order.
LEMMA JoinSwapKeeps ==
    ASSUME IInv, JoinSwap PROVE IInv'
<1> USE DEF JoinSwap, Script, Push, window, orders, swaps, script, waits
<1>1. TypeOK'
      BY BoundsAssumption DEF IInv, TypeOK, OrderInv, SurfaceInv, SwapInv,
         Modes, End, Kinds, SwapPending
<1>2. OrderInv'
      BY DEF IInv, TypeOK, OrderInv, SurfaceInv, SwapInv, Modes, End, VideoIdle,
         VideoSets, ModeDone
<1>3. SurfaceInv'
      BY DEF IInv, TypeOK, OrderInv, SurfaceInv, SwapInv, Modes, VideoIdle,
         VideoSets, ModeDone
<1>4. SwapInv'
      BY DEF IInv, TypeOK, OrderInv, SurfaceInv, SwapInv, SwapPending, Modes,
         VideoIdle, VideoSets
<1> QED BY <1>1, <1>2, <1>3, <1>4 DEF IInv

\* Both threads have ended.
LEMMA JoinVideoKeeps ==
    ASSUME IInv, JoinVideo PROVE IInv'
<1> USE DEF JoinVideo, Script, OutsideCall, window, orders, swaps, script, waits
<1>1. TypeOK'
      BY BoundsAssumption DEF IInv, TypeOK, OrderInv, SurfaceInv, SwapInv,
         Modes, End, Kinds, SwapPending
<1>2. OrderInv'
      BY DEF IInv, TypeOK, OrderInv, SurfaceInv, SwapInv, Modes, End, VideoIdle,
         VideoSets, ModeDone
<1>3. SurfaceInv'
      BY DEF IInv, TypeOK, OrderInv, SurfaceInv, SwapInv, Modes, VideoIdle,
         VideoSets, ModeDone
<1>4. SwapInv'
      BY DEF IInv, TypeOK, OrderInv, SurfaceInv, SwapInv, SwapPending, Modes,
         VideoIdle, VideoSets
<1> QED BY <1>1, <1>2, <1>3, <1>4 DEF IInv

-----------------------------------------------------------------------------

\* StartVideo() leaves no surface and nothing on its way.
LEMMA Initially == Init => IInv
<1> SUFFICES ASSUME Init PROVE IInv
    OBVIOUS
<1>1. /\ hdc \in BOOLEAN /\ error \in BOOLEAN /\ surfaceReady \in BOOLEAN
      /\ swapBufferEndThread \in BOOLEAN /\ failed \in BOOLEAN
      /\ sdlEvents \in BOOLEAN /\ cancel \in [Kinds -> BOOLEAN]
      BY DEF Init
<1>2. TypeOK
      BY <1>1, BoundsAssumption DEF Init, TypeOK, Kinds
<1>3. OrderInv /\ SurfaceInv /\ SwapInv
      BY DEF Init, OrderInv, SurfaceInv, SwapInv, SwapPending, VideoIdle
<1> QED BY <1>2, <1>3 DEF IInv

\* The steps of the window's thread.
LEMMA VideoKeeps == IInv /\ VideoStep => IInv'
BY PumpEventsKeeps, BroadcastEventsKeeps, NoInternalEventKeeps,
   TakeInternalEventKeeps, BeginSetVideoModeKeeps, EndSetVideoModeKeeps,
   ReportSetVideoModeKeeps, VideoReadyKeeps DEF VideoStep

\* The steps of the swap thread.
LEMMA SwapKeeps == IInv /\ SwapStep => IInv'
BY AcquireSwapKeeps, TestSwapEndKeeps, BeginSwapKeeps, EndSwapKeeps,
   ThrottleEndsKeeps, ThrottleBreaksKeeps, RepostSwapKeeps, SwapReadyKeeps
   DEF SwapStep

\* What a call does by itself.
LEMMA CallKeeps == IInv /\ CallStep => IInv'
BY AwaitSurfaceKeeps, InvalidateKeeps, PushModeKeeps, ModeFailsKeeps,
   ModeIsSetKeeps, ModeReturnsKeeps, AwaitSwapKeeps, InvalidateSwapKeeps,
   SwapAsyncKeeps, SwapSyncKeeps, EndSwapSyncKeeps,
   SwapSyncReadyKeeps, BeginCancelKeeps, CollectKeeps, CallbackReturnsKeeps,
   EndWaitKeeps, JoinSwapKeeps, JoinVideoKeeps DEF CallStep, WaitSignals

\* Steps of nobody.
LEMMA StutterKeeps == IInv /\ UNCHANGED vars => IInv'
BY DEF vars, window, orders, swaps, script, waits, IInv, TypeOK, OrderInv,
       SurfaceInv, SwapInv, SwapPending, VideoIdle, VideoSets, ModeDone

\* The surface is ready only while nothing is on its way to it.
THEOREM VideoInductive == ASSUME ~Retries PROVE Spec => []IInv
<1>1. IInv /\ [Next]_vars => IInv'
  <2> SUFFICES ASSUME IInv, [Next]_vars PROVE IInv'
      OBVIOUS
  <2>1. CASE VideoStep \/ SwapStep \/ CallStep
        BY <2>1, VideoKeeps, SwapKeeps, CallKeeps
  <2>2. CASE OtherEvent \/ \E k \in Kinds : StartWait(k)
        BY <2>2, BeginCancelKeeps, StartWaitKeeps DEF OtherEvent
  <2>3. CASE SetVideoMode \/ SwapBuffers \/ ProcessEvents \/ EndVideo
        BY <2>3, SetVideoModeKeeps, SwapBuffersKeeps, ProcessEventsKeeps,
           EndVideoKeeps
  <2>4. CASE UNCHANGED vars
        BY <2>4, StutterKeeps
  <2> QED BY <2>1, <2>2, <2>3, <2>4 DEF Next
<1> QED BY <1>1, Initially, PTL DEF Spec

\* While the surface is ready no swap and no change of the mode is on its way
\* (main.cpp:126, 177).
THEOREM TheScriptDrawsAlone == ASSUME ~Retries PROVE Spec => []DrawsAlone
<1>1. IInv => DrawsAlone
      BY DEF IInv, TypeOK, OrderInv, SwapInv, DrawsAlone, ModePending, VideoIdle
<1> QED BY <1>1, VideoInductive, PTL

\* setVideoMode() that succeeds has set its mode (main.cpp:146, 160).
THEOREM TheModeIsSet ==
    ASSUME ~Retries PROVE Spec => [](SucceedsWithItsMode /\ FindsAWindow)
<1>1. IInv => SucceedsWithItsMode /\ FindsAWindow
      BY DEF IInv, SurfaceInv, SucceedsWithItsMode, FindsAWindow
<1> QED BY <1>1, VideoInductive, PTL

\* The swap thread finds the surface it was asked to swap (main.cpp:226).
THEOREM TheSurfaceIsThere == ASSUME ~Retries PROVE Spec => []SwapsASurface
<1>1. IInv => SwapsASurface
  <2> SUFFICES ASSUME IInv, tpc \in {"swap", "swapping"}
               PROVE  surface # 0 /\ hdc
      BY DEF SwapsASurface
  <2>1. surface # 0
        BY DEF IInv, SwapInv
  <2>2. vpc # "report"
        BY DEF IInv, TypeOK, OrderInv, SwapInv, SwapPending, VideoIdle
  <2> QED BY <2>1, <2>2 DEF IInv, SurfaceInv
<1> QED BY <1>1, VideoInductive, PTL

-----------------------------------------------------------------------------
(* The wait for the surface.                                                *)

WaitTypes == /\ wpc \in [Kinds -> {"idle", "enter", "sleep", "done"}]
             /\ cancel \in [Kinds -> BOOLEAN]

WaitInv ==
    /\ WaitTypes
    /\ surfaceReady \in BOOLEAN
    /\ spc = "wait" => cancel["surface"] = FALSE
    /\ wpc["surface"] = "done" /\ cancel["surface"] = FALSE
         /\ spc \in {"wait", "collect"} => surfaceReady = TRUE

\* The threads make the surface ready, and only the script, who is in the
\* call, takes it away.
LEMMA ThreadsKeepWaits == WaitInv /\ (VideoStep \/ SwapStep) => WaitInv'
<1> SUFFICES ASSUME WaitInv, VideoStep \/ SwapStep PROVE WaitInv'
    OBVIOUS
<1>1. /\ UNCHANGED <<spc, cancel>>
      /\ surfaceReady' \in {surfaceReady, TRUE}
      /\ wpc' = wpc \/ \E k \in Kinds : wpc' = Woken(k)
      BY DEF VideoStep, PumpEvents, BroadcastEvents, NoInternalEvent,
         TakeInternalEvent, BeginSetVideoMode, EndSetVideoMode,
         ReportSetVideoMode, VideoReady, Video, SwapStep, AcquireSwap,
         TestSwapEnd, BeginSwap, EndSwap, ThrottleEnds, ThrottleBreaks,
         RepostSwap, SwapReady, Swap, ReadyAlways, SurfaceReady,
         WakeForEvents, Broadcast, script, waits, Kinds
<1>2. WaitTypes' /\ (wpc'["surface"] = "done" => wpc["surface"] = "done")
      BY <1>1 DEF WaitInv, WaitTypes, Woken, Kinds
<1> QED BY <1>1, <1>2 DEF WaitInv

\* A call of processEvents() that the wait for the surface ended finds it ready
\* (static.cpp, SurfaceReadyStartWait), whatever else the script calls.
THEOREM TheReadySurfaceIsReported == Spec => []ReadySurfaceIsReported
<1>1. Init => WaitInv
      BY DEF Init, WaitInv, WaitTypes, Kinds
<1>2. WaitInv /\ [Next]_vars => WaitInv'
  <2> SUFFICES ASSUME WaitInv, [Next]_vars PROVE WaitInv'
      OBVIOUS
  <2> USE DEF WaitInv, WaitTypes, Kinds
  <2>1. CASE VideoStep \/ SwapStep
        BY <2>1, ThreadsKeepWaits
  <2>2. CASE \E k \in Kinds : StartWait(k)
    <3> PICK k \in Kinds : StartWait(k)
        BY <2>2
    <3>1. /\ wpc' = [wpc EXCEPT ![k] = IF WaitIsOver(k) THEN "done"
                                                        ELSE "sleep"]
          /\ UNCHANGED <<spc, cancel, surfaceReady>>
          BY DEF StartWait, OutsideCall
    <3> QED BY <3>1 DEF WaitIsOver
  <2>3. CASE OtherEvent \/ WaitSignals
    <3>1. /\ cancel' = [k \in Kinds |-> wpc[k] \in {"enter", "sleep"}]
          /\ wpc' = [k \in Kinds |->
                       IF wpc[k] = "sleep" THEN "enter" ELSE wpc[k]]
          /\ spc = "wait" /\ spc' = "collect"
          /\ surfaceReady' = surfaceReady
          BY <2>3 DEF OtherEvent, WaitSignals, BeginCancel, Script, OutsideCall
    <3>2. /\ wpc'["surface"] = "done" => wpc["surface"] = "done"
          /\ WaitTypes'
      <4>1. \A k \in Kinds :
              wpc'[k] = IF wpc[k] = "sleep" THEN "enter" ELSE wpc[k]
            BY <3>1
      <4>2. wpc' \in [Kinds -> {"idle", "enter", "sleep", "done"}]
            BY <3>1
      <4>3. cancel' \in [Kinds -> BOOLEAN]
            BY <3>1
      <4> QED BY <4>1, <4>2, <4>3
    <3>3. wpc["surface"] = "done" => surfaceReady = TRUE
          BY <3>1
    <3> QED BY <3>1, <3>2, <3>3
  <2>4. CASE ProcessEvents
        BY <2>4 DEF ProcessEvents, Script, OutsideCall
  <2>5. CASE CallStep /\ ~WaitSignals
    <3>1. spc' \notin {"wait", "collect"}
          BY <2>5 DEF CallStep, AwaitSurface, WaitSurfaceReady, Invalidate,
             PushMode, ModeFails, ModeIsSet, ModeReturns, AwaitSwap,
             InvalidateSwap, SwapAsync, SwapSync, EndSwapSync, SwapSyncReady,
             Collect, CallbackReturns, EndWait, JoinSwap, JoinVideo, Script
    <3>2. /\ cancel' = cancel
          /\ surfaceReady' \in {surfaceReady, FALSE, TRUE}
          /\ \/ wpc' = wpc \/ wpc' = Woken("surface")
             \/ \E k \in Kinds : wpc' = [wpc EXCEPT ![k] = "idle"]
          BY <2>5 DEF CallStep, AwaitSurface, WaitSurfaceReady, Invalidate,
             PushMode, ModeFails, ModeIsSet, ModeReturns, AwaitSwap,
             InvalidateSwap, SwapAsync, SwapSync, EndSwapSync, SwapSyncReady,
             Collect, CallbackReturns, EndWait, JoinSwap, JoinVideo, BecomeBusy,
             InvalidateSurface, SurfaceReady, Broadcast, OutsideCall, waits
    <3>3. WaitTypes' /\ surfaceReady' \in BOOLEAN
          BY <3>2 DEF Woken
    <3> QED BY <3>1, <3>3
  <2>6. CASE SetVideoMode \/ SwapBuffers \/ EndVideo
        BY <2>6 DEF SetVideoMode, FirstStep, SwapBuffers, EndVideo, Script,
           waits
  <2>7. CASE UNCHANGED vars
        BY <2>7 DEF vars, script, waits
  <2> QED BY <2>1, <2>2, <2>3, <2>4, <2>5, <2>6, <2>7 DEF Next
<1>3. WaitInv => ReadySurfaceIsReported
      BY DEF WaitInv, WaitTypes, ReadySurfaceIsReported, Kinds
<1> QED BY <1>1, <1>2, <1>3, PTL DEF Spec

=============================================================================
