---------------------------- MODULE WatchDog_proofs ----------------------------
(***************************************************************************)
(* The safety of the watchdog, for every bound on intervals and nesting,    *)
(* when onInterrupt does not stop the watchdog it was called by.            *)
(***************************************************************************)
EXTENDS WatchDog, TLAPS

\* The thread of a runtime is there from start() to the join in stop().
ThreadInv ==
    /\ spc \in {"run", "ending"} => (interval # 0 <=> tpc # "none")
    /\ spc = "start" => interval # 0 /\ tpc = "none"
    /\ spc = "stop" => interval = 0 /\ tpc # "none"
    /\ spc \in {"join", "killed"} => interval = 0 /\ tpc # "none"
    /\ spc = "destroyed" => interval = 0 /\ tpc = "none"

\* The callback is disabled while onInterrupt runs, and only then.
CallbackInv ==
    /\ spc = "run" /\ interval # 0 /\ depth = 0 => callback = TRUE
    /\ spc = "run" /\ (interval = 0 \/ depth # 0) => callback = FALSE
    /\ spc = "start" => callback = FALSE
    /\ spc # "run" => depth = 0
    /\ depth > 0 => interval # 0
    /\ depth <= 1

\* The semaphore holds a token from the release in stop() to the end of the
\* thread.
TokenInv ==
    /\ spc \in {"run", "stop"} /\ tpc # "none" => semEnd = 0
    /\ spc = "ending" /\ interval # 0 => semEnd = 0
    /\ tpc = "exited" => semEnd = 0 /\ spc \in {"join", "killed"}

IInv == TypeOK /\ ThreadInv /\ CallbackInv /\ TokenInv

-----------------------------------------------------------------------------

\* A new runtime has no watchdog.
LEMMA Initially == Init => IInv
<1> SUFFICES ASSUME Init PROVE IInv
    OBVIOUS
<1>0. callback \in BOOLEAN /\ requested \in BOOLEAN
      BY Zenon DEF Init
<1>1. TypeOK
      BY <1>0, BoundsAssumption DEF Init, TypeOK
<1>2. ThreadInv /\ CallbackInv /\ TokenInv
      BY DEF Init, ThreadInv, CallbackInv, TokenInv
<1> QED BY <1>1, <1>2 DEF IInv

\* The steps of the watchdog's thread.
LEMMA ThreadKeeps == IInv /\ ThreadStep => IInv'
<1> SUFFICES ASSUME IInv, ThreadStep PROVE IInv'
    OBVIOUS
<1> USE DEF IInv, TypeOK, ThreadInv, CallbackInv, TokenInv, Thread
<1>1. CASE IntervalElapses BY <1>1 DEF IntervalElapses
<1>2. CASE SeeEnd BY <1>2 DEF SeeEnd
<1>3. CASE TestCallback BY <1>3 DEF TestCallback
<1>4. CASE RequestInterrupt BY <1>4 DEF RequestInterrupt
<1> QED BY <1>1, <1>2, <1>3, <1>4 DEF ThreadStep

\* start(), stop() and the destruction of the runtime.
LEMMA ChangeKeeps == IInv /\ ChangeStep => IInv'
<1> SUFFICES ASSUME IInv, ChangeStep PROVE IInv'
    OBVIOUS
<1> USE BoundsAssumption
        DEF IInv, TypeOK, ThreadInv, CallbackInv, TokenInv
<1>1. CASE Start BY <1>1 DEF Start
<1>2. CASE StopThread
  <2>1. semEnd = 0 /\ tpc \notin {"none", "exited"}
        BY <1>2 DEF StopThread
  <2>2. semEnd' = 1 /\ interval' = 0 /\ depth' = depth /\ tpc' = tpc
        BY <1>2, <2>1 DEF StopThread, PostEnd
  <2>3. callback' \in BOOLEAN /\ requested' \in BOOLEAN
        BY <1>2, Zenon DEF StopThread
  <2>4. CASE spc = "stop"
        BY <1>2, <2>1, <2>2, <2>3, <2>4 DEF StopThread
  <2>5. CASE spc = "ending"
        BY <1>2, <2>1, <2>2, <2>3, <2>5 DEF StopThread
  <2> QED BY <1>2, <2>4, <2>5 DEF StopThread
<1>3. CASE JoinThread BY <1>3 DEF JoinThread, RemoveCallback
<1>4. CASE DestroyRuntime BY <1>4 DEF DestroyRuntime
<1> QED BY <1>1, <1>2, <1>3, <1>4 DEF ChangeStep

\* The interrupt: onInterrupt is called and returns, or fails.
LEMMA InterruptKeeps == IInv /\ (Interrupt \/ CallbackEnds) => IInv'
<1> SUFFICES ASSUME IInv, Interrupt \/ CallbackEnds PROVE IInv'
    OBVIOUS
<1> USE BoundsAssumption
        DEF IInv, TypeOK, ThreadInv, CallbackInv, TokenInv
<1>1. CASE Interrupt
  <2>1. CASE callback
    <3>1. spc = "run" /\ depth = 0 /\ interval # 0
          BY <1>1, <2>1 DEF Interrupt
    <3>2. requested' \in BOOLEAN /\ callback' = FALSE /\ callback' \in BOOLEAN
          BY <1>1, <2>1, Zenon DEF Interrupt
    <3> QED BY <1>1, <2>1, <3>1, <3>2 DEF Interrupt
  <2>2. CASE ~callback BY <1>1, <2>2 DEF Interrupt
  <2> QED BY <2>1, <2>2
<1>2. CASE CallbackReturns
  <2>1. depth = 1
        BY <1>2 DEF CallbackReturns
  <2> QED BY <1>2, <2>1 DEF CallbackReturns, EnableCallback
<1>3. CASE CallbackFails BY <1>3 DEF CallbackFails
<1> QED BY <1>1, <1>2, <1>3 DEF CallbackEnds

\* The script sets the interval or ends.
LEMMA ScriptKeeps ==
    ASSUME ~StopInCallback, IInv, SetInterruptInterval \/ ScriptEnds
    PROVE  IInv'
<1> USE BoundsAssumption
        DEF IInv, TypeOK, ThreadInv, CallbackInv, TokenInv
<1>1. CASE SetInterruptInterval
  <2>1. PICK n \in 0..MaxInterval :
            /\ n = 0 => depth = 0
            /\ interval' = n
            /\ spc' = IF NeedsStart(n) THEN "start"
                      ELSE IF NeedsStop(n) THEN "stop" ELSE "run"
        BY <1>1 DEF SetInterruptInterval
  <2>2. spc = "run" /\ UNCHANGED <<semEnd, tpc, callback, requested, depth>>
        BY <1>1 DEF SetInterruptInterval
  <2> QED BY <2>1, <2>2 DEF NeedsStart, NeedsStop
<1>2. CASE ScriptEnds BY <1>2 DEF ScriptEnds
<1> QED BY <1>1, <1>2

-----------------------------------------------------------------------------

\* The invariant of the watchdog: thread, callback and semaphore agree with the
\* interval at every step of start(), stop() and of an interrupt.
THEOREM WatchDogInductive ==
    ASSUME ~StopInCallback PROVE Spec => []IInv
<1>1. IInv /\ [Next]_vars => IInv'
  <2> SUFFICES ASSUME IInv, [Next]_vars PROVE IInv'
      OBVIOUS
  <2>1. CASE UNCHANGED vars
        BY <2>1 DEF vars, IInv, TypeOK, ThreadInv, CallbackInv, TokenInv
  <2> QED BY <2>1, ThreadKeeps, ChangeKeeps, InterruptKeeps, ScriptKeeps
          DEF Next
<1> QED BY Initially, <1>1, PTL DEF Spec

\* While the script runs, the thread and the callback are there exactly when the
\* interval asks for them: the callback finds no callback when it enables itself
\* again (host2.cpp:354).
THEOREM WatchesCorrectly ==
    ASSUME ~StopInCallback PROVE Spec => []WatchesWhenSet
<1>1. IInv => WatchesWhenSet
      BY DEF IInv, ThreadInv, CallbackInv, WatchesWhenSet
<1> QED BY WatchDogInductive, <1>1, PTL

\* start() finds neither a thread nor a callback (host2.cpp:395, 398).
THEOREM StartsCorrectly ==
    ASSUME ~StopInCallback PROVE Spec => []StartsFromNothing
<1>1. IInv => StartsFromNothing
      BY DEF IInv, ThreadInv, CallbackInv, StartsFromNothing
<1> QED BY WatchDogInductive, <1>1, PTL

\* The thread does not outlive the runtime (host2.cpp:410).
THEOREM ThreadEndsFirst ==
    ASSUME ~StopInCallback PROVE Spec => []NoThreadWithoutRuntime
<1>1. IInv => NoThreadWithoutRuntime
      BY DEF IInv, ThreadInv, NoThreadWithoutRuntime
<1> QED BY WatchDogInductive, <1>1, PTL
=============================================================================
