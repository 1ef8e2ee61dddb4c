------------------------ MODULE ProcessEvents_proofs ------------------------
(***************************************************************************)
(* What holds of processEvents() for every number of slots, every nesting   *)
(* depth and every set of timeout handles.  In this order:                  *)
(*   - the type invariant, whatever is killed or fails;                     *)
(*   - when no thread has to be killed (no semaphore handles) and no thread *)
(*     creation fails, the assertions of the code, the exclusion between    *)
(*     script and workers, and that a thread uses arguments only;           *)
(*   - when handles are not reused and a timed wait reports the timeout,    *)
(*     too, that a call waits for an event and reports exactly those that   *)
(*     occurred, and that it implements WaitAny.                            *)
(***************************************************************************)
EXTENDS MCProcessEvents, FiniteSetTheorems, TLAPS

Starting == {"thread", "setSlot", "start"}
Waiting == {"wait", "repost", "check", "cancelWait", "collect"}
Killing == {"killSlot", "killSignal", "killThread", "killJoin"}
Releasing == {"release", "wakeWorker", "join", "released"}

\* The calls on the stack: the frames below depth have arguments and are
\* inside a callback, those above it are unused.
FrameInv ==
    /\ \A d \in 1..depth : args[d] \in ArgLists
    /\ \A d \in 0..MaxDepth : idx[d] \in Nat \ {0}
    /\ \A d \in depth+1 .. MaxDepth : idx[d] = 1
    /\ main \notin {"script"} \cup Releasing => depth >= 1
    /\ IF main \in Releasing THEN depth = 0 ELSE idx[0] = 1
    /\ main \in Starting \cup Waiting \cup Killing \cup {"endWait"} => I <= Argc
    /\ main \in {"release", "wakeWorker", "join"} => I <= MaxItem

IdleSlot(i) == /\ peSlot[i] = NULL
               /\ startSem[i] = 0
               /\ worker[i] \in {"none", "acquire"}

\* The slot has its handle, the worker is not yet told.
AssignedSlot(i) == /\ peSlot[i] # NULL
                   /\ startSem[i] = 0
                   /\ worker[i] = "acquire"

\* The worker was told and has not posted the signal semaphore yet.
WorkingSlot(i) == \/ /\ startSem[i] = 1
                     /\ worker[i] = "acquire"
                     /\ peSlot[i] # NULL
                  \/ /\ startSem[i] = 0
                     /\ worker[i] \in {"woken", "waiting", "returned"}
                     /\ peSlot[i] # NULL
                  \/ /\ startSem[i] = 0
                     /\ worker[i] = "cleared"
                     /\ peSlot[i] = NULL

\* The slot whose worker is told to end.
EndingSlot(i) == /\ peSlot[i] = NULL
                 /\ isEnd[i]
                 /\ \/ startSem[i] = 0 /\ worker[i] \in {"woken", "exited"}
                    \/ startSem[i] = 1 /\ worker[i] = "acquire"

Working == {i \in Slots : WorkingSlot(i)}

\* What a slot may be at each step of the script thread.
SlotInv ==
    \A i \in Slots :
        /\ ~killed[i] /\ main \notin Killing
        /\ main \notin Releasing => ~isEnd[i]
        /\ main \in {"script", "endWait", "done", "release", "released"}
             => IdleSlot(i)
        /\ main = "thread" => IdleSlot(i) \/ (i < I /\ WorkingSlot(i))
        /\ main = "setSlot"
             => \/ IdleSlot(i) /\ (i = I => worker[i] = "acquire")
                \/ i < I /\ WorkingSlot(i)
        /\ main = "start" /\ i = I => AssignedSlot(i)
        /\ main = "start" /\ i # I
             => IdleSlot(i) \/ (i < I /\ WorkingSlot(i))
        /\ main \in Waiting => IdleSlot(i) \/ WorkingSlot(i)
        /\ main = "wakeWorker"
             => IdleSlot(i) /\ (i = I => isEnd[i] /\ worker[i] = "acquire")
        /\ main = "join" => IF i = I THEN EndingSlot(i) ELSE IdleSlot(i)

\* Every worker that was told posts one token, which the call collects.
Started == IF main \in Starting THEN I - 1
           ELSE IF main \in Waiting THEN Argc ELSE 0
Collected == IF main = "collect" THEN I - 1
             ELSE IF main = "repost" THEN 1 ELSE 0

TokenInv == signalSem + Cardinality(Working) + Collected = Started

IInv == TypeOK /\ FrameInv /\ SlotInv /\ TokenInv

-----------------------------------------------------------------------------
(* Types and frames.                                                        *)

\* The arguments of a call are a nonempty sequence of at most MaxItem handles.
LEMMA ArgListFacts ==
    ASSUME NEW a \in ArgLists
    PROVE  /\ a \in Seq(Handles)
           /\ Len(a) \in Slots
           /\ DOMAIN a = 1..Len(a)
           /\ \A i \in 1..Len(a) : a[i] \in Handles
<1>1. PICK n \in Slots : a \in [1..n -> Handles]
  BY DEF ArgLists
<1>2. n \in Nat
  BY <1>1, MaxItemAssumption DEF Slots
<1>3. a \in Seq(Handles)
  BY <1>1, <1>2
<1>4. Len(a) = n
  BY <1>1, <1>2, <1>3
<1> QED
  BY <1>1, <1>2, <1>3, <1>4

\* While a call handles its arguments, the current one is a handle of a slot.
LEMMA CurrentArg ==
    ASSUME TypeOK, FrameInv,
           main \in Starting \cup Waiting \cup Killing \cup {"endWait"}
    PROVE  depth \in 1..MaxDepth /\ I \in Slots /\ I <= Argc /\ Argc \in Slots
           /\ Arg \in Handles
<1>1. depth \in 1..MaxDepth /\ I <= Argc
  BY MaxDepthAssumption
     DEF TypeOK, FrameInv, Starting, Waiting, Killing, Releasing
<1>2. args[depth] \in ArgLists /\ I \in Nat \ {0}
  BY <1>1, MaxDepthAssumption DEF TypeOK, FrameInv, I
<1>3. Argc \in Slots
  BY <1>2, ArgListFacts DEF Argc
<1>4. I \in Slots
  BY <1>1, <1>2, <1>3, MaxItemAssumption DEF Slots
<1>5. Arg \in Handles
  BY <1>1, <1>2, <1>3, ArgListFacts, MaxItemAssumption DEF Arg, Argc, Slots
<1> QED
  BY <1>1, <1>3, <1>4, <1>5

\* The types and the shape of the call stack hold for both kinds of handles,
\* with failures too.
LEMMA TypeFrameInit == Init => TypeOK /\ FrameInv
BY MaxDepthAssumption, MaxItemAssumption
   DEF Init, TypeOK, FrameInv, WorkerPC, MainPC, Starting, Waiting, Killing,
       Releasing, I, Argc, Handles

\* Going on with the next argument, or with the first one in the next phase.
LEMMA NextArgStep ==
    ASSUME TypeOK, FrameInv, main \in Starting \cup Waiting \cup Killing,
           NEW again \in Starting \cup Waiting,
           NEW next \in Waiting \cup {"endWait"},
           NextArg(again, next)
    PROVE  /\ main' = (IF I < Argc THEN again ELSE next)
           /\ I' = (IF I < Argc THEN I + 1 ELSE 1)
           /\ idx' \in [0..MaxDepth -> Nat]
           /\ FrameInv'
<1> USE MaxDepthAssumption, MaxItemAssumption
<1>1. /\ depth \in 1..MaxDepth /\ I \in Slots /\ I <= Argc /\ Argc \in Slots
  BY CurrentArg
<1>2. /\ idx \in [0..MaxDepth -> Nat]
      /\ I \in Nat /\ Argc \in Nat /\ 1 <= Argc /\ depth \in 0..MaxDepth
  BY <1>1 DEF TypeOK, Slots
<1>3. /\ main' = (IF I < Argc THEN again ELSE next)
      /\ idx' = [idx EXCEPT ![depth] = IF I < Argc THEN I + 1 ELSE 1]
      /\ depth' = depth /\ args' = args
  BY DEF NextArg
<1>4. idx' \in [0..MaxDepth -> Nat]
  BY <1>2, <1>3
<1>5. /\ I' = (IF I < Argc THEN I + 1 ELSE 1)
      /\ \A d \in 0..MaxDepth : d # depth => idx'[d] = idx[d]
  BY <1>2, <1>3 DEF I
<1>6. Argc' = Argc
  BY <1>3 DEF Argc
<1>7. \A d \in 0..MaxDepth : idx'[d] \in Nat \ {0}
  BY <1>2, <1>5, <1>3 DEF FrameInv, I
<1>8. \A d \in depth+1 .. MaxDepth : idx'[d] = 1
  BY <1>2, <1>5 DEF FrameInv
<1>9. I' <= Argc'
  BY <1>2, <1>5, <1>6
<1>10. main' \in Starting \cup Waiting \cup {"endWait"}
  BY <1>3
<1>11. \A d \in 1..depth' : args'[d] \in ArgLists
  BY <1>3 DEF FrameInv
<1> QED
  BY <1>1, <1>3, <1>4, <1>5, <1>7, <1>8, <1>9, <1>10, <1>11
     DEF FrameInv, Starting, Waiting, Releasing, Killing

(* A step of the thread inside ProcessEvents (_host_processEvents: starting,  *)
(* waiting, cancelling, collecting) keeps the types and the shape of the stack. *)
LEMMA TypeFrameMain ==
    ASSUME TypeOK, FrameInv, MainStep
    PROVE  TypeOK' /\ FrameInv'
<1> USE MaxDepthAssumption, MaxItemAssumption
        DEF TypeOK, FrameInv, slotVars, handleVars, stackVars, MainPC, WorkerPC,
            Starting, Waiting, Killing, Releasing
<1>0. main \in Starting \cup Waiting \cup Killing \cup {"endWait"}
        => depth \in 1..MaxDepth /\ I \in Slots /\ I <= Argc /\ Argc \in Slots
           /\ Arg \in Handles
  BY CurrentArg
<1>1. CASE StartThread
  BY <1>1, <1>0 DEF StartThread, I, Argc, Slots
<1>2. CASE StartThreadFails
  <2>1. TypeOK'
    BY <1>2, <1>0 DEF StartThreadFails, I, PopFrame
  <2>2. FrameInv'
    BY <1>2, <1>0, <2>1 DEF StartThreadFails, I, Argc, Slots, PopFrame
  <2> QED
    BY <2>1, <2>2
<1>3. CASE SetSlot
  BY <1>3, <1>0 DEF SetSlot, I, Argc, Slots
<1>4. CASE ReleaseStart
  <2>1. NextArg("thread", "wait")
    BY <1>4 DEF ReleaseStart
  <2>2. FrameInv' /\ idx' \in [0..MaxDepth -> Nat]
    BY <1>4, <2>1, NextArgStep DEF ReleaseStart
  <2>3. TypeOK'
    BY <1>4, <1>0, <2>1, <2>2 DEF ReleaseStart, NextArg
  <2> QED
    BY <2>2, <2>3
<1>5. CASE WaitSignal
  BY <1>5, <1>0 DEF WaitSignal, I, Argc, Slots
<1>6. CASE RepostSignal
  BY <1>6, <1>0 DEF RepostSignal, I, Argc, Slots
<1>7. CASE CheckSlot
  <2>1. CASE peSlot[I] = NULL
    <3>1. NextArg("check", "collect")
      BY <1>7, <2>1 DEF CheckSlot
    <3>2. FrameInv' /\ idx' \in [0..MaxDepth -> Nat]
      BY <1>7, <3>1, NextArgStep DEF CheckSlot
    <3>3. TypeOK'
      BY <1>7, <1>0, <3>1, <3>2 DEF CheckSlot, NextArg
    <3> QED
      BY <3>2, <3>3
  <2>2. CASE peSlot[I] # NULL
    BY <1>7, <2>2, <1>0 DEF CheckSlot, I, Argc
  <2> QED
    BY <2>1, <2>2
<1>8. CASE CancelTimeout
  <2>1. NextArg("check", "collect")
    BY <1>8 DEF CancelTimeout
  <2>2. FrameInv' /\ idx' \in [0..MaxDepth -> Nat]
    BY <1>8, <2>1, NextArgStep DEF CancelTimeout
  <2>3. TypeOK'
    BY <1>8, <1>0, <2>1, <2>2 DEF CancelTimeout, NextArg
  <2> QED
    BY <2>2, <2>3
<1>9. CASE CancelSem
  BY <1>9, <1>0 DEF CancelSem, I, Argc, Slots
<1>10. CASE KillSlot
  BY <1>10, <1>0 DEF KillSlot, I, Argc, Slots
<1>11. CASE KillSignal
  BY <1>11, <1>0 DEF KillSignal, I, Argc, Slots
<1>12. CASE KillThread
  BY <1>12, <1>0 DEF KillThread, I, Argc, Slots
<1>13. CASE KillJoin
  <2>1. NextArg("check", "collect")
    BY <1>13 DEF KillJoin
  <2>2. FrameInv' /\ idx' \in [0..MaxDepth -> Nat]
    BY <1>13, <2>1, NextArgStep DEF KillJoin
  <2>3. TypeOK'
    BY <1>13, <1>0, <2>1, <2>2 DEF KillJoin, NextArg
  <2> QED
    BY <2>2, <2>3
<1>14. CASE Collect
  <2>1. NextArg("collect", "endWait")
    BY <1>14 DEF Collect
  <2>2. FrameInv' /\ idx' \in [0..MaxDepth -> Nat]
    BY <1>14, <2>1, NextArgStep DEF Collect
  <2>3. TypeOK'
    BY <1>14, <1>0, <2>1, <2>2 DEF Collect, NextArg
  <2> QED
    BY <2>2, <2>3
<1>15. CASE EndWaitNoEvent
  <2>1. TypeOK'
    BY <1>15, <1>0 DEF EndWaitNoEvent, I, AfterEndWait
  <2>2. FrameInv'
    BY <1>15, <1>0, <2>1 DEF EndWaitNoEvent, I, Argc, Slots, AfterEndWait
  <2> QED
    BY <2>1, <2>2
<1>16. CASE EndWaitEvent
  <2>1. TypeOK'
    BY <1>16, <1>0 DEF EndWaitEvent, I, AfterEndWait
  <2>2. FrameInv'
    BY <1>16, <1>0 DEF EndWaitEvent, I, Argc, Slots, AfterEndWait
  <2> QED
    BY <2>1, <2>2
<1>17. CASE Return
  BY <1>17, <1>0 DEF Return, I, Argc, Slots, PopFrame
<1>18. CASE SkipSlot
  BY <1>18, <1>0 DEF SkipSlot, I, Argc, Slots, NextSlot
<1>19. CASE SetEnd
  BY <1>19, <1>0 DEF SetEnd, I, Argc, Slots
<1>20. CASE WakeWorker
  BY <1>20, <1>0 DEF WakeWorker, I, Argc, Slots
<1>21. CASE JoinWorker
  BY <1>21, <1>0 DEF JoinWorker, I, Argc, Slots, NextSlot
<1> QED
  BY <1>1, <1>2, <1>3, <1>4, <1>5, <1>6, <1>7, <1>8, <1>9, <1>10, <1>11, <1>12, <1>13, <1>14, <1>15, <1>16, <1>17, <1>18, <1>19, <1>20, <1>21
     DEF MainStep

(* So does a step of the script between two calls of the stack: a call, a new *)
(* handle, a renewed one, the return of a callback, the release of the pool.  *)
LEMMA TypeFrameScript ==
    ASSUME TypeOK, FrameInv, Script
    PROVE  TypeOK' /\ FrameInv'
<1> USE MaxDepthAssumption, MaxItemAssumption
        DEF TypeOK, FrameInv, slotVars, handleVars, stackVars, MainPC, WorkerPC,
            Starting, Waiting, Killing, Releasing
<1>1. ASSUME NEW a \in ArgLists, Call(a)
      PROVE  TypeOK' /\ FrameInv'
  <2>1. /\ depth' = depth + 1 /\ depth' \in 1..MaxDepth
        /\ args' = [args EXCEPT ![depth + 1] = a]
        /\ idx' = idx /\ mask' = mask /\ main' = "thread"
    BY <1>1 DEF Call
  <2>2. Len(a) \in Slots
    BY ArgListFacts
  <2>3. I' = 1 /\ Argc' = Len(a)
    BY <2>1 DEF I, Argc
  <2>4. FrameInv'
    <3>1. /\ \A d \in 1..depth' : args'[d] \in ArgLists
          /\ \A d \in depth'+1 .. MaxDepth : idx'[d] = 1
      BY <2>1
    <3>2. IF main' \in Releasing THEN depth' = 0 ELSE idx'[0] = 1
      BY <1>1, <2>1 DEF Call
    <3> QED
      BY <2>1, <2>2, <2>3, <3>1, <3>2 DEF Slots
  <2>5. TypeOK'
    BY <1>1, <2>1 DEF Call
  <2> QED
    BY <2>4, <2>5
<1>2. ASSUME NEW h \in Timeouts, NewTimeout(h)
      PROVE  TypeOK' /\ FrameInv'
  BY <1>2 DEF NewTimeout, Renew, I, Argc, Handles
<1>3. ASSUME NEW h \in SemEvents, NewSemEvents(h)
      PROVE  TypeOK' /\ FrameInv'
  BY <1>3 DEF NewSemEvents, Renew, I, Argc, Handles
<1>4. CASE CallbackReturns
  BY <1>4 DEF CallbackReturns, I, Argc
<1>5. CASE BeginRelease
  BY <1>5 DEF BeginRelease, I, Argc
<1> QED
  BY <1>1, <1>2, <1>3, <1>4, <1>5 DEF Script

(* So does a step of the worker thread of one slot (the thread procedure of   *)
(* the pool): it touches its slot and the handle it waits for, never the stack. *)
LEMMA TypeFrameWorker ==
    ASSUME TypeOK, FrameInv, NEW i \in Slots, WorkerStep(i)
    PROVE  TypeOK' /\ FrameInv'
<1> USE DEF TypeOK, slotVars, handleVars, stackVars, WorkerPC, WorkerGoes,
            Handles
<1>0. main' = main /\ stackVars' = stackVars
  BY DEF WorkerStep, AcquireStart, Exit, BeginWait, WaitCanceled, WaitTimedOut,
         TakeSem, SetHasEvent, ClearSlot, Signal, Die, UseFinalized
<1>f. FrameInv'
  BY <1>0 DEF FrameInv, I, Argc
<1>1. CASE AcquireStart(i)
  BY <1>1, <1>f DEF AcquireStart
<1>2. CASE Exit(i)
  BY <1>2, <1>f DEF Exit
<1>3. CASE BeginWait(i)
  BY <1>3, <1>f DEF BeginWait
<1>4. CASE WaitCanceled(i)
  BY <1>4, <1>f DEF WaitCanceled
<1>5. CASE WaitTimedOut(i)
  BY <1>5, <1>f DEF WaitTimedOut
<1>6. CASE TakeSem(i)
  BY <1>6, <1>f DEF TakeSem
<1>7. CASE SetHasEvent(i)
  BY <1>7, <1>f DEF SetHasEvent
<1>8. CASE ClearSlot(i)
  BY <1>8, <1>f DEF ClearSlot
<1>9. CASE Signal(i)
  BY <1>9, <1>f DEF Signal
<1>10. CASE Die(i)
  BY <1>10, <1>f DEF Die
<1>11. CASE UseFinalized(i)
  BY <1>11, <1>f DEF UseFinalized
<1> QED
  BY <1>1, <1>2, <1>3, <1>4, <1>5, <1>6, <1>7, <1>8, <1>9, <1>10, <1>11
     DEF WorkerStep

(* Hence every step of the system keeps the types and the shape of the stack. *)
LEMMA TypeFrameStep == TypeOK /\ FrameInv /\ [Next]_vars => TypeOK' /\ FrameInv'
<1> SUFFICES ASSUME TypeOK, FrameInv, [Next]_vars
             PROVE  TypeOK' /\ FrameInv'
  OBVIOUS
<1>1. CASE Script
  BY <1>1, TypeFrameScript
<1>2. CASE MainStep
  BY <1>2, TypeFrameMain
<1>3. CASE \E i \in Slots : WorkerStep(i)
  BY <1>3, TypeFrameWorker
<1>4. CASE \E h \in SemEvents : Post(h)
  BY <1>4 DEF Post, TypeOK, FrameInv, slotVars, stackVars, I, Argc
<1>5. CASE UNCHANGED vars
  BY <1>5 DEF vars, TypeOK, FrameInv, slotVars, handleVars, stackVars, I, Argc
<1> QED
  BY <1>1, <1>2, <1>3, <1>4, <1>5 DEF Next, Terminated

\* Every variable keeps its type, whatever the handles, with killed threads
\* and failing thread creation.
THEOREM TypeCorrect == Spec => []TypeOK
<1>1. Init => TypeOK /\ FrameInv
  BY TypeFrameInit
<1>2. TypeOK /\ FrameInv /\ [Next]_vars => TypeOK' /\ FrameInv'
  BY TypeFrameStep
<1> QED
  BY <1>1, <1>2, PTL DEF Spec

-----------------------------------------------------------------------------
(* Slots and tokens, when every wait can be cancelled and every thread       *)
(* creation succeeds.                                                       *)

(* The set of slots at work is finite, and a count of zero means that no slot *)
(* is at work: what lets the token count of processEventSignalSem speak of it. *)
LEMMA WorkingFacts ==
    /\ IsFiniteSet(Working)
    /\ Cardinality(Working) \in Nat
    /\ Cardinality(Working) = 0 => Working = {}
<1>1. IsFiniteSet(Slots)
  BY FS_Interval, MaxItemAssumption DEF Slots
<1>2. Working \subseteq Slots
  BY DEF Working
<1>3. IsFiniteSet(Working)
  BY <1>1, <1>2, FS_Subset
<1> QED
  BY <1>3, FS_CardinalityType, FS_EmptySet

\* A step that does not touch the slots keeps the set of working ones.
LEMMA SameWorking ==
    ASSUME peSlot' = peSlot, startSem' = startSem, worker' = worker
    PROVE  Working' = Working
BY DEF Working, WorkingSlot

\* A worker that runs or can run was told by a call, or is told to end.
LEMMA ActiveSlot ==
    ASSUME TypeOK, SlotInv, NEW i \in Slots,
           startSem[i] > 0 \/ worker[i] \notin {"none", "acquire"}
    PROVE  \/ /\ WorkingSlot(i)
              /\ main \in Starting \cup Waiting
              /\ main \in Starting => i < I
           \/ EndingSlot(i) /\ main = "join" /\ i = I
<1>1. ~IdleSlot(i) /\ ~AssignedSlot(i)
  BY DEF IdleSlot, AssignedSlot
<1> QED
  BY <1>1 DEF TypeOK, SlotInv, MainPC, Starting, Waiting, Killing

\* A step of one worker changes nothing but its own slot.
LEMMA OneSlotChanges ==
    ASSUME TypeOK, SlotInv, NEW i \in Slots,
           main' = main, stackVars' = stackVars, isEnd' = isEnd,
           killed' = killed,
           \A j \in Slots \ {i} : /\ peSlot'[j] = peSlot[j]
                                  /\ startSem'[j] = startSem[j]
                                  /\ worker'[j] = worker[j],
           \/ /\ main \in Starting \cup Waiting
              /\ main \in Starting => i < I
              /\ WorkingSlot(i)' \/ (IdleSlot(i)' /\ worker'[i] = "acquire")
           \/ EndingSlot(i)' /\ main = "join" /\ i = I
    PROVE  SlotInv'
<1>1. I' = I /\ I \in Int
  BY DEF stackVars, I, TypeOK
<1>2. \A j \in Slots \ {i} : /\ IdleSlot(j)' <=> IdleSlot(j)
                             /\ AssignedSlot(j)' <=> AssignedSlot(j)
                             /\ WorkingSlot(j)' <=> WorkingSlot(j)
                             /\ EndingSlot(j)' <=> EndingSlot(j)
  BY DEF IdleSlot, AssignedSlot, WorkingSlot, EndingSlot
<1>3. Slots \subseteq Int
  BY MaxItemAssumption DEF Slots
<1>4. SUFFICES ASSUME NEW j \in Slots
               PROVE  SlotInv!(j)'
  BY DEF SlotInv
<1>5. CASE j # i
  BY <1>1, <1>2, <1>3, <1>5 DEF SlotInv, TypeOK, MainPC
<1>6. CASE j = i
  BY <1>1, <1>3, <1>6 DEF SlotInv, Starting, Waiting, Releasing
<1> QED
  BY <1>5, <1>6

(* No slot is at work and no token is posted when the host starts.            *)
LEMMA SafeInit == Init => SlotInv /\ TokenInv
<1> SUFFICES ASSUME Init PROVE SlotInv /\ TokenInv
  OBVIOUS
<1>1. Working = {}
  BY DEF Init, Working, WorkingSlot
<1>2. Cardinality(Working) = 0
  BY <1>1, FS_EmptySet
<1> QED
  BY <1>2 DEF Init, SlotInv, IdleSlot, TokenInv, Started, Collected, Starting,
              Waiting, Killing, Releasing

\* When the runtime is destroyed no thread is inside a wait.
LEMMA NoneFinalized ==
    ASSUME SlotInv, NEW i \in Slots PROVE ~UseFinalized(i)
BY DEF SlotInv, IdleSlot, EndingSlot, UseFinalized, Finalized

(* A step of a worker keeps slots and tokens in agreement: a worker that leaves *)
(* the slots at work posts exactly one token.                                 *)
LEMMA SafeWorker ==
    ASSUME SemEvents = {}, TypeOK, FrameInv, SlotInv, TokenInv,
           NEW i \in Slots, WorkerStep(i)
    PROVE  SlotInv' /\ TokenInv'
<1> USE DEF WorkerGoes
<1>1. main' = main /\ stackVars' = stackVars /\ isEnd' = isEnd /\ killed' = killed
  BY DEF WorkerStep, AcquireStart, Exit, BeginWait, WaitCanceled, WaitTimedOut,
         TakeSem, SetHasEvent, ClearSlot, Signal, Die, UseFinalized, stackVars
<1>2. Started' = Started /\ Collected' = Collected
  BY <1>1 DEF Started, Collected, stackVars, I, Argc
<1>3. \A j \in Slots \ {i} : /\ peSlot'[j] = peSlot[j]
                             /\ startSem'[j] = startSem[j]
                             /\ worker'[j] = worker[j]
  BY DEF WorkerStep, AcquireStart, Exit, BeginWait, WaitCanceled, WaitTimedOut,
         TakeSem, SetHasEvent, ClearSlot, Signal, Die, UseFinalized, TypeOK
<1>4. \A j \in Slots \ {i} : WorkingSlot(j)' <=> WorkingSlot(j)
  BY <1>3 DEF WorkingSlot
<1>5. startSem[i] > 0 \/ worker[i] \notin {"none", "acquire"}
  BY DEF WorkerStep, AcquireStart, Exit, BeginWait, WaitCanceled, WaitTimedOut,
         TakeSem, SetHasEvent, ClearSlot, Signal, Die, UseFinalized, SlotInv
<1>6. \/ /\ WorkingSlot(i)
         /\ main \in Starting \cup Waiting
         /\ main \in Starting => i < I
      \/ EndingSlot(i) /\ main = "join" /\ i = I
  BY <1>5, ActiveSlot
<1>7. CASE /\ WorkingSlot(i)
           /\ main \in Starting \cup Waiting
           /\ main \in Starting => i < I
  <2>1. ~isEnd[i] /\ ~killed[i]
    BY <1>7 DEF SlotInv, Starting, Waiting, Releasing
  <2>2. CASE Signal(i)
    <3>1. IdleSlot(i)' /\ worker'[i] = "acquire"
      BY <2>2, <1>7 DEF Signal, TypeOK, WorkingSlot, IdleSlot
    <3>2. SlotInv'
      BY <1>1, <1>3, <1>7, <3>1, OneSlotChanges
    <3>3. Working' = Working \ {i} /\ i \in Working
      BY <1>4, <1>7, <3>1 DEF Working, WorkingSlot, IdleSlot
    <3>4. Cardinality(Working') = Cardinality(Working) - 1
      BY <3>3, WorkingFacts, FS_RemoveElement
    <3>5. signalSem' = signalSem + 1
      BY <2>2 DEF Signal
    <3> QED
      BY <1>2, <3>2, <3>4, <3>5, WorkingFacts DEF TokenInv, TypeOK
  <2>3. CASE ~Signal(i)
    <3>1. WorkingSlot(i)' /\ signalSem' = signalSem
      <4>1. CASE AcquireStart(i)
        BY <4>1, <1>7 DEF AcquireStart, TypeOK, WorkingSlot
      <4>2. CASE BeginWait(i)
        BY <4>2, <1>7 DEF BeginWait, TypeOK, WorkingSlot
      <4>3. CASE WaitCanceled(i) \/ WaitTimedOut(i)
        BY <4>3, <1>7 DEF WaitCanceled, WaitTimedOut, TypeOK, WorkingSlot
      <4>4. CASE ClearSlot(i)
        BY <4>4, <1>7 DEF ClearSlot, TypeOK, WorkingSlot
      <4>5. CASE Exit(i) \/ TakeSem(i) \/ SetHasEvent(i) \/ Die(i)
        BY <4>5, <1>7, <2>1 DEF Exit, TakeSem, SetHasEvent, Die, WorkingSlot
      <4> QED
        BY <2>3, <4>1, <4>2, <4>3, <4>4, <4>5, NoneFinalized DEF WorkerStep
    <3>2. SlotInv'
      BY <1>1, <1>3, <1>7, <3>1, OneSlotChanges
    <3>3. Working' = Working
      BY <1>4, <1>7, <3>1 DEF Working
    <3> QED
      BY <1>2, <3>1, <3>2, <3>3 DEF TokenInv
  <2> QED
    BY <2>2, <2>3
<1>8. CASE EndingSlot(i) /\ main = "join" /\ i = I
  <2>1. EndingSlot(i)' /\ signalSem' = signalSem
    <3>1. CASE AcquireStart(i)
      BY <3>1, <1>8 DEF AcquireStart, TypeOK, EndingSlot
    <3>2. CASE Exit(i)
      BY <3>2, <1>8 DEF Exit, TypeOK, EndingSlot
    <3>3. CASE ~AcquireStart(i) /\ ~Exit(i)
      BY <3>3, <1>8 DEF WorkerStep, BeginWait, WaitCanceled, WaitTimedOut,
                        TakeSem, SetHasEvent, ClearSlot, Signal, Die,
                        UseFinalized,
                        EndingSlot, SlotInv
    <3> QED
      BY <3>1, <3>2, <3>3
  <2>2. SlotInv'
    BY <1>1, <1>3, <1>8, <2>1, OneSlotChanges
  <2>3. Working' = Working
    BY <1>4, <1>8, <2>1 DEF Working, WorkingSlot, EndingSlot
  <2> QED
    BY <1>2, <2>1, <2>2, <2>3 DEF TokenInv
<1> QED
  BY <1>6, <1>7, <1>8

(* A step of the script keeps them too: no slot is at work between two calls. *)
LEMMA SafeScript ==
    ASSUME TypeOK, FrameInv, SlotInv, TokenInv, Script
    PROVE  SlotInv' /\ TokenInv'
<1>1. /\ peSlot' = peSlot /\ startSem' = startSem /\ worker' = worker
      /\ isEnd' = isEnd /\ killed' = killed /\ signalSem' = signalSem
      /\ main = "script"
  BY DEF Script, Call, NewTimeout, NewSemEvents, Renew, CallbackReturns,
         BeginRelease, slotVars
<1>2. Working' = Working
  BY <1>1, SameWorking
<1>3. \A i \in Slots : ~killed[i] /\ ~isEnd[i] /\ IdleSlot(i)
  BY <1>1 DEF SlotInv, Releasing
<1>4. \A i \in Slots : IdleSlot(i)'
  BY <1>1, <1>3 DEF IdleSlot
<1>5. signalSem = 0 /\ Cardinality(Working) = 0
  BY <1>1, WorkingFacts DEF TokenInv, Started, Collected, Starting, Waiting,
                            TypeOK
<1>6. \/ main' \in {"script", "endWait", "done", "release"}
      \/ main' = "thread" /\ I' = 1
  <2>1. CASE \E a \in ArgLists : Call(a)
    <3>1. /\ main' = "thread" /\ depth' = depth + 1 /\ idx' = idx
          /\ depth < MaxDepth
      BY <2>1 DEF Call
    <3>2. depth + 1 \in depth+1 .. MaxDepth
      BY <3>1, MaxDepthAssumption DEF TypeOK
    <3> QED
      BY <3>1, <3>2 DEF FrameInv, I
  <2>2. CASE ~ \E a \in ArgLists : Call(a)
    <3>1. CASE \E h \in Handles : Renew(h)
      BY <1>1, <3>1 DEF Renew
    <3>2. CASE CallbackReturns \/ BeginRelease
      BY <3>2 DEF CallbackReturns, BeginRelease
    <3> QED
      BY <2>2, <3>1, <3>2 DEF Script, NewTimeout, NewSemEvents, Handles
  <2> QED
    BY <2>1, <2>2
<1>7. SlotInv'
  BY <1>1, <1>3, <1>4, <1>6 DEF SlotInv, Waiting, Killing, Releasing
<1>8. Started' = 0 /\ Collected' = 0
  BY <1>6 DEF Started, Collected, Starting, Waiting
<1> QED
  BY <1>1, <1>2, <1>5, <1>7, <1>8 DEF TokenInv

(* A step of ProcessEvents keeps them: each slot started is one token owed, and *)
(* each token taken is one slot less to wait for.                             *)
LEMMA SafeMain ==
    ASSUME SemEvents = {}, ThreadsMayFail = FALSE,
           TypeOK, FrameInv, SlotInv, TokenInv, MainStep
    PROVE  SlotInv' /\ TokenInv'
<1> USE DEF Starting, Waiting, Killing, Releasing
<1>a. main \in Starting \cup Waiting \cup Killing \cup {"endWait"}
        => depth \in 1..MaxDepth /\ I \in Slots /\ I <= Argc /\ Argc \in Slots
           /\ Arg \in Handles
  BY CurrentArg
<1>b. Slots \subseteq Int /\ 1 \in Slots
  BY MaxItemAssumption DEF Slots
<1>c. main \notin Killing
  BY <1>b DEF SlotInv
<1>1. CASE StartThread
  <2>1. I' = I /\ I \in Slots
    BY <1>1, <1>a DEF StartThread, stackVars, I
  <2>2. \A i \in Slots : /\ IdleSlot(i) => IdleSlot(i)'
                         /\ i < I /\ WorkingSlot(i) => WorkingSlot(i)'
                         /\ i = I => IdleSlot(i)' /\ worker'[i] = "acquire"
    BY <1>1, <1>b, <2>1 DEF StartThread, SlotInv, IdleSlot, WorkingSlot, TypeOK
  <2>3. \A i \in Slots : ~killed'[i] /\ ~isEnd'[i]
    BY <1>1 DEF StartThread, SlotInv, TypeOK
  <2>4. SlotInv'
    BY <1>1, <2>1, <2>2, <2>3 DEF StartThread, SlotInv
  <2>5. \A i \in Slots : WorkingSlot(i)' <=> WorkingSlot(i)
    BY <1>1, <2>1, <2>2 DEF StartThread, SlotInv, IdleSlot, WorkingSlot, TypeOK
  <2>6. Working' = Working
    BY <2>5 DEF Working
  <2> QED
    BY <1>1, <2>1, <2>4, <2>6 DEF StartThread, TokenInv, Started, Collected
<1>2. CASE SetSlot
  <2>1. I' = I /\ I \in Slots /\ Arg \in Handles
    BY <1>2, <1>a DEF SetSlot, stackVars, I
  <2>2. Arg # NULL
    BY <2>1, NullAssumption
  <2>3. \A i \in Slots : /\ i = I => AssignedSlot(i)'
                         /\ i # I /\ IdleSlot(i) => IdleSlot(i)'
                         /\ i # I /\ WorkingSlot(i) => WorkingSlot(i)'
    BY <1>2, <1>b, <2>1, <2>2
       DEF SetSlot, SlotInv, IdleSlot, WorkingSlot, AssignedSlot, TypeOK
  <2>4. SlotInv'
    BY <1>2, <1>b, <2>1, <2>3 DEF SetSlot, SlotInv
  <2>5. \A i \in Slots : WorkingSlot(i)' <=> WorkingSlot(i)
    BY <1>2, <1>b, <2>1, <2>2, <2>3
       DEF SetSlot, SlotInv, IdleSlot, WorkingSlot, AssignedSlot, TypeOK
  <2>6. Working' = Working
    BY <2>5 DEF Working
  <2> QED
    BY <1>2, <2>1, <2>4, <2>6 DEF SetSlot, TokenInv, Started, Collected
<1>3. CASE ReleaseStart
  <2>1. /\ I \in Slots /\ I <= Argc /\ Argc \in Slots /\ Argc' = Argc
        /\ main' = (IF I < Argc THEN "thread" ELSE "wait")
        /\ I' = (IF I < Argc THEN I + 1 ELSE 1)
    BY <1>3, <1>a, NextArgStep DEF ReleaseStart, NextArg, Argc
  <2>2. \A i \in Slots : /\ i = I => WorkingSlot(i)' /\ ~WorkingSlot(i)
                         /\ i # I => /\ IdleSlot(i)' <=> IdleSlot(i)
                                     /\ WorkingSlot(i)' <=> WorkingSlot(i)
    BY <1>3, <2>1 DEF ReleaseStart, SlotInv, IdleSlot, WorkingSlot,
                      AssignedSlot, TypeOK
  <2>3. SlotInv'
    BY <1>3, <1>b, <2>1, <2>2 DEF ReleaseStart, SlotInv
  <2>4. Working' = Working \cup {I} /\ I \notin Working
    BY <2>1, <2>2 DEF Working
  <2>5. Cardinality(Working') = Cardinality(Working) + 1
    BY <2>4, WorkingFacts, FS_AddElement
  <2> QED
    <3>1. signalSem + Cardinality(Working) = I - 1 /\ signalSem' = signalSem
      BY <1>3, WorkingFacts
         DEF ReleaseStart, TokenInv, Started, Collected, TypeOK
    <3>2. Started' = I /\ Collected' = 0
      BY <1>b, <2>1 DEF Started, Collected
    <3> QED
      BY <1>b, <2>1, <2>3, <2>5, <3>1, <3>2, WorkingFacts DEF TokenInv, TypeOK
<1>4. CASE WaitSignal \/ RepostSignal \/ CheckSlot \/ CancelTimeout
  <2>1. /\ peSlot' = peSlot /\ startSem' = startSem /\ worker' = worker
        /\ isEnd' = isEnd /\ killed' = killed
    BY <1>4 DEF WaitSignal, RepostSignal, CheckSlot, CancelTimeout, slotVars
  <2>2. Working' = Working
    BY <2>1, SameWorking
  <2>3. main \in Waiting /\ main' \in Waiting
    BY <1>4 DEF WaitSignal, RepostSignal, CheckSlot, CancelTimeout, NextArg
  <2>4. SlotInv'
    BY <2>1, <2>3 DEF SlotInv, IdleSlot, WorkingSlot
  <2>5. Argc' = Argc
    BY <1>4 DEF WaitSignal, RepostSignal, CheckSlot, CancelTimeout, NextArg,
                stackVars, Argc
  <2>6. Started' = Started
    BY <2>3, <2>5 DEF Started
  <2>7. signalSem' + Collected' = signalSem + Collected
    <3>1. CASE WaitSignal \/ RepostSignal
      BY <3>1 DEF WaitSignal, RepostSignal, Collected, TypeOK
    <3>2. CASE CheckSlot
      <4>1. main = "check" /\ signalSem' = signalSem
        BY <3>2 DEF CheckSlot
      <4>2. main' = "collect" => I' = 1
        <5>1. CASE peSlot[I] = NULL
          <6>1. NextArg("check", "collect")
            BY <3>2, <5>1 DEF CheckSlot
          <6> QED
            BY <4>1, <6>1, NextArgStep
        <5>2. CASE peSlot[I] # NULL
          BY <3>2, <5>2 DEF CheckSlot
        <5> QED
          BY <5>1, <5>2
      <4>3. main' # "repost"
        BY <2>3, <3>2 DEF CheckSlot, NextArg
      <4> QED
        BY <4>1, <4>2, <4>3 DEF Collected, TypeOK
    <3>3. CASE CancelTimeout
      <4>1. /\ main = "cancelWait" /\ signalSem' = signalSem
            /\ NextArg("check", "collect")
        BY <3>3 DEF CancelTimeout
      <4>2. main' \in {"check", "collect"} /\ (main' = "collect" => I' = 1)
        BY <4>1, NextArgStep
      <4> QED
        BY <4>1, <4>2 DEF Collected, TypeOK
    <3> QED
      BY <1>4, <3>1, <3>2, <3>3
  <2>8. Collected \in Int /\ Collected' \in Int
    <3>1. I \in Int
      <4>1. idx \in [0..MaxDepth -> Nat] /\ depth \in 0..MaxDepth
        BY DEF TypeOK
      <4> QED
        BY <4>1 DEF I
    <3>2. I' \in Int
      <4>1. TypeOK'
        BY TypeFrameMain
      <4> QED
        BY <4>1 DEF TypeOK, I
    <3> QED
      BY <3>1, <3>2 DEF Collected
  <2>9. /\ signalSem \in Int /\ signalSem' \in Int /\ Cardinality(Working) \in Int
    BY TypeFrameMain, WorkingFacts DEF TypeOK
  <2> QED
    <3>1. signalSem + Cardinality(Working) + Collected = Started
      BY DEF TokenInv
    <3>2. signalSem' + Cardinality(Working') + Collected' = Started'
      <4>1. Cardinality(Working') = Cardinality(Working)
        BY <2>2
      <4>2. signalSem' + Collected' + Cardinality(Working) = signalSem + Collected + Cardinality(Working)
        BY <2>7
      <4>3. signalSem' + Cardinality(Working) + Collected' = signalSem + Cardinality(Working) + Collected
        BY <2>8, <2>9, <4>2
      <4> QED
        BY <2>6, <3>1, <4>1, <4>3
    <3> QED
      BY <2>4, <3>2 DEF TokenInv
<1>5. CASE CancelSem
  BY <1>5 DEF CancelSem
<1>6. CASE KillSlot \/ KillSignal \/ KillThread \/ KillJoin
  BY <1>6, <1>c DEF KillSlot, KillSignal, KillThread, KillJoin
<1>7. CASE Collect
  <2>1. /\ I \in Slots /\ I <= Argc /\ Argc \in Slots /\ Argc' = Argc
        /\ main' = (IF I < Argc THEN "collect" ELSE "endWait")
        /\ I' = (IF I < Argc THEN I + 1 ELSE 1)
        /\ signalSem' = signalSem - 1 /\ signalSem > 0
    BY <1>7, <1>a, NextArgStep DEF Collect, NextArg, Argc
  <2>2. /\ peSlot' = peSlot /\ startSem' = startSem /\ worker' = worker
        /\ isEnd' = isEnd /\ killed' = killed
    BY <1>7 DEF Collect, slotVars
  <2>3. Working' = Working
    BY <2>2, SameWorking
  <2>4. signalSem + Cardinality(Working) + (I - 1) = Argc
    BY <1>7 DEF Collect, TokenInv, Started, Collected
  <2>5. CASE I < Argc
    <3>1. SlotInv'
      BY <1>7, <2>1, <2>2, <2>5 DEF Collect, SlotInv, IdleSlot, WorkingSlot
    <3> QED
      BY <1>b, <2>1, <2>3, <2>4, <2>5, <3>1, WorkingFacts
         DEF TokenInv, Started, Collected, TypeOK
  <2>6. CASE I = Argc
    <3>1. signalSem = 1 /\ Cardinality(Working) = 0
      BY <1>b, <2>1, <2>4, <2>6, WorkingFacts DEF TypeOK
    <3>2. \A i \in Slots : ~WorkingSlot(i)
      BY <3>1, WorkingFacts DEF Working
    <3>3. \A i \in Slots : IdleSlot(i)' /\ ~killed'[i] /\ ~isEnd'[i]
      BY <1>7, <2>2, <3>2 DEF Collect, SlotInv, IdleSlot
    <3>4. SlotInv'
      BY <2>1, <2>6, <3>3 DEF SlotInv
    <3> QED
      <4>1. signalSem' = 0 /\ Cardinality(Working') = 0
        BY <2>1, <2>3, <3>1
      <4>2. Started' = 0 /\ Collected' = 0
        BY <1>b, <2>1, <2>6 DEF Started, Collected
      <4> QED
        BY <3>4, <4>1, <4>2 DEF TokenInv
  <2> QED
    BY <1>b, <2>1, <2>5, <2>6
<1>8. CASE EndWaitNoEvent \/ EndWaitEvent \/ Return \/ SkipSlot
  <2>1. /\ peSlot' = peSlot /\ startSem' = startSem /\ worker' = worker
        /\ isEnd' = isEnd /\ killed' = killed /\ signalSem' = signalSem
    BY <1>8 DEF EndWaitNoEvent, EndWaitEvent, Return, SkipSlot, slotVars
  <2>2. Working' = Working
    BY <2>1, SameWorking
  <2>3. \/ /\ main \in {"endWait", "done"}
           /\ main' \in {"script", "endWait", "done"}
        \/ main = "release" /\ main' \in {"release", "released"}
    BY <1>8 DEF EndWaitNoEvent, EndWaitEvent, Return, SkipSlot, AfterEndWait,
                NextSlot
  <2>4. SlotInv'
    BY <2>1, <2>3 DEF SlotInv, IdleSlot
  <2> QED
    BY <2>1, <2>2, <2>3, <2>4 DEF TokenInv, Started, Collected
<1>9. CASE SetEnd \/ WakeWorker \/ JoinWorker
  <2>1. I \in Slots /\ signalSem' = signalSem
    BY <1>9, <1>b, MaxItemAssumption
       DEF SetEnd, WakeWorker, JoinWorker, FrameInv, TypeOK, Slots, I
  <2>2. CASE SetEnd
    <3>1. I' = I
      BY <2>2 DEF SetEnd, stackVars, I
    <3> QED
      BY <2>1, <2>2, <3>1, SameWorking
         DEF SetEnd, SlotInv, IdleSlot, TypeOK, TokenInv, Started, Collected
  <2>3. CASE WakeWorker
    <3>1. I' = I
      BY <2>3 DEF WakeWorker, stackVars, I
    <3>2. \A i \in Slots : IF i = I THEN EndingSlot(i)' ELSE IdleSlot(i)'
      BY <2>1, <2>3 DEF WakeWorker, SlotInv, IdleSlot, EndingSlot, TypeOK
    <3>3. SlotInv'
      BY <2>1, <2>3, <3>1, <3>2 DEF WakeWorker, SlotInv
    <3>4. \A i \in Slots : ~WorkingSlot(i) /\ ~WorkingSlot(i)'
      BY <2>1, <2>3, <3>2 DEF WakeWorker, SlotInv, WorkingSlot, IdleSlot,
                              EndingSlot
    <3> QED
      BY <2>1, <2>3, <3>3, <3>4
         DEF WakeWorker, Working, TokenInv, Started, Collected
  <2>4. CASE JoinWorker
    <3>1. \A i \in Slots : IdleSlot(i)'
      BY <2>1, <2>4 DEF JoinWorker, SlotInv, IdleSlot, EndingSlot, TypeOK
    <3>2. SlotInv'
      BY <2>1, <2>4, <3>1 DEF JoinWorker, NextSlot, SlotInv
    <3>3. \A i \in Slots : ~WorkingSlot(i) /\ ~WorkingSlot(i)'
      BY <2>1, <2>4, <3>1 DEF JoinWorker, SlotInv, WorkingSlot, IdleSlot,
                              EndingSlot
    <3> QED
      BY <2>1, <2>4, <3>2, <3>3
         DEF JoinWorker, NextSlot, Working, TokenInv, Started, Collected
  <2> QED
    BY <1>9, <2>2, <2>3, <2>4
<1>10. CASE StartThreadFails
  BY <1>10 DEF StartThreadFails
<1> QED
  BY <1>1, <1>2, <1>3, <1>4, <1>5, <1>6, <1>7, <1>8, <1>9, <1>10 DEF MainStep

(* Hence the inductive invariant is kept by every step of the system.         *)
LEMMA SafeStep ==
    ASSUME SemEvents = {}, ThreadsMayFail = FALSE
    PROVE  IInv /\ [Next]_vars => IInv'
<1> SUFFICES ASSUME IInv, [Next]_vars PROVE IInv'
  OBVIOUS
<1>1. TypeOK' /\ FrameInv'
  BY TypeFrameStep DEF IInv
<1>2. CASE Script
  BY <1>1, <1>2, SafeScript DEF IInv
<1>3. CASE MainStep
  BY <1>1, <1>3, SafeMain DEF IInv
<1>4. CASE \E i \in Slots : WorkerStep(i)
  BY <1>1, <1>4, SafeWorker DEF IInv
<1>5. CASE \E h \in SemEvents : Post(h)
  BY <1>5
<1>6. CASE UNCHANGED vars
  <2>1. SlotInv'
    BY <1>6 DEF vars, slotVars, stackVars, IInv, SlotInv, IdleSlot, AssignedSlot,
                WorkingSlot, EndingSlot, I
  <2>2. TokenInv'
    BY <1>6, SameWorking DEF vars, slotVars, stackVars, IInv, TokenInv, Started,
                             Collected, I, Argc
  <2> QED
    BY <1>1, <2>1, <2>2 DEF IInv
<1> QED
  BY <1>2, <1>3, <1>4, <1>5, <1>6 DEF Next, Terminated

\* With handles whose waits can be cancelled and threads that can be created,
\* the invariant that relates the slots, the workers and the tokens holds.
THEOREM Inductive ==
    ASSUME SemEvents = {}, ThreadsMayFail = FALSE
    PROVE  Spec => []IInv
<1>1. Init => IInv
  BY TypeFrameInit, SafeInit DEF IInv
<1>2. IInv /\ [Next]_vars => IInv'
  BY SafeStep
<1> QED
  BY <1>1, <1>2, PTL DEF Spec

\* Then no worker wakes up without a handle (the assertion peSlot != NULL of
\* ProcessEventThread): no thread dereferences a null peSlot.
THEOREM WorkersStartWithHandle ==
    ASSUME SemEvents = {}, ThreadsMayFail = FALSE
    PROVE  Spec => []StartsWithHandle
<1>1. IInv => StartsWithHandle
  <2> SUFFICES ASSUME IInv, NEW i \in Slots, worker[i] = "crashed" PROVE FALSE
    BY DEF StartsWithHandle, Running
  <2>1. WorkingSlot(i) \/ EndingSlot(i)
    BY ActiveSlot DEF IInv
  <2> QED
    BY <2>1 DEF WorkingSlot, EndingSlot
<1> QED
  BY <1>1, Inductive, PTL

\* Then a slot that gets a handle is empty (the assertion peSlot == NULL of
\* processEvents), for nested calls too.
THEOREM SlotsAreFree ==
    ASSUME SemEvents = {}, ThreadsMayFail = FALSE
    PROVE  Spec => []SlotFreeWhenAssigned
<1>1. IInv => SlotFreeWhenAssigned
  <2> SUFFICES ASSUME IInv, main = "setSlot" PROVE peSlot[I] = NULL
    BY DEF SlotFreeWhenAssigned
  <2>1. I \in Slots /\ I \in Int
    BY CurrentArg, MaxItemAssumption DEF IInv, Starting, Slots
  <2> QED
    BY <2>1 DEF IInv, SlotInv, IdleSlot
<1> QED
  BY <1>1, Inductive, PTL

\* Then endWait(), callbacks and script never run while a worker is inside
\* startWait(), and no worker can start one meanwhile.
THEOREM Exclusion ==
    ASSUME SemEvents = {}, ThreadsMayFail = FALSE
    PROVE  Spec => []ScriptRunsAlone
<1>1. IInv => ScriptRunsAlone
  BY DEF IInv, SlotInv, IdleSlot, ScriptRunsAlone
<1> QED
  BY <1>1, Inductive, PTL

\* Then a call leaves no handle in its slots and no token in the signal
\* semaphore (the DEBUG assertions at the end of processEvents).
THEOREM Quiescence ==
    ASSUME SemEvents = {}, ThreadsMayFail = FALSE
    PROVE  Spec => []QuiescentAtReturn
<1>1. IInv => QuiescentAtReturn
  <2> SUFFICES ASSUME IInv, main = "done"
               PROVE  /\ \A i \in 1..Argc : peSlot[i] = NULL
                      /\ signalSem = 0
    BY DEF QuiescentAtReturn
  <2>1. \A i \in Slots : peSlot[i] = NULL
    BY DEF IInv, SlotInv, IdleSlot
  <2>2. depth \in 1..MaxDepth
    BY MaxDepthAssumption DEF IInv, FrameInv, TypeOK, Releasing
  <2>3. Argc \in Slots
    BY <2>2, ArgListFacts DEF IInv, FrameInv, Argc
  <2>4. 1..Argc \subseteq Slots
    BY <2>3, MaxItemAssumption DEF Slots
  <2>5. signalSem = 0
    BY WorkingFacts
       DEF IInv, TokenInv, Started, Collected, Starting, Waiting, TypeOK
  <2> QED
    BY <2>1, <2>4, <2>5
<1> QED
  BY <1>1, Inductive, PTL

-----------------------------------------------------------------------------
(* The handles that threads use.                                            *)

\* The positions of the arguments of the call d.
Pos(d) == 1..Len(args[d])

\* Of a slot the thread and the call agree: the thread waits for the handle in
\* the slot, which is the argument at the position of the slot.
SlotHandles ==
    /\ \A i \in Slots :
          IF worker[i] \in {"waiting", "returned"} THEN cur[i] = peSlot[i]
                                                   ELSE cur[i] = NULL
    /\ main \in Starting \cup Waiting =>
          \A i \in Slots :
              /\ WorkingSlot(i) => i <= Argc
              /\ peSlot[i] # NULL => i <= Argc /\ peSlot[i] = args[depth][i]

LEMMA SlotHandlesInit == Init => SlotHandles
BY DEF Init, SlotHandles, Starting, Waiting

(* The arguments of every call on the stack are handles, at most one a slot.  *)
LEMMA FrameFacts ==
    ASSUME TypeOK, FrameInv, NEW d \in 1..depth
    PROVE  /\ Len(args[d]) \in Slots
           /\ DOMAIN args[d] = Pos(d)
           /\ \A i \in Pos(d) : args[d][i] \in Handles
BY ArgListFacts DEF FrameInv, Pos

\* A thread takes the handle of its slot and gives it back; it reaches for no
\* other one.
LEMMA SlotHandlesWorker ==
    ASSUME SemEvents = {}, IInv, SlotHandles, NEW i \in Slots, WorkerStep(i)
    PROVE  SlotHandles'
<1> USE DEF WorkerGoes
<1>1. /\ main' = main /\ Argc' = Argc /\ args' = args /\ depth' = depth
  BY DEF WorkerStep, AcquireStart, Exit, BeginWait, WaitCanceled, WaitTimedOut,
         TakeSem, SetHasEvent, ClearSlot, Signal, Die,
         UseFinalized, stackVars, Argc
<1>2. \A j \in Slots \ {i} : /\ peSlot'[j] = peSlot[j] /\ cur'[j] = cur[j]
                             /\ startSem'[j] = startSem[j]
                             /\ worker'[j] = worker[j]
  BY DEF WorkerStep, AcquireStart, Exit, BeginWait, WaitCanceled, WaitTimedOut,
         TakeSem, SetHasEvent, ClearSlot, Signal, Die,
         UseFinalized, IInv, TypeOK
<1>3. startSem[i] > 0 \/ worker[i] \notin {"none", "acquire"}
  BY DEF WorkerStep, AcquireStart, Exit, BeginWait, WaitCanceled, WaitTimedOut,
         TakeSem, SetHasEvent, ClearSlot, Signal, Die,
         UseFinalized, IInv, SlotInv
<1>4. /\ TypeOK /\ ~killed[i]
      /\ WorkingSlot(i) \/ (EndingSlot(i) /\ main = "join")
  BY <1>3, ActiveSlot DEF IInv, SlotInv
<1>5. peSlot'[i] \in {peSlot[i], NULL}
  BY DEF WorkerStep, AcquireStart, Exit, BeginWait, WaitCanceled, WaitTimedOut,
         TakeSem, SetHasEvent, ClearSlot, Signal, Die,
         UseFinalized, IInv, TypeOK
<1>6. IF worker'[i] \in {"waiting", "returned"} THEN cur'[i] = peSlot'[i]
                                                ELSE cur'[i] = NULL
  <2>1. CASE AcquireStart(i)
    BY <2>1, <1>4 DEF AcquireStart, TypeOK, SlotHandles
  <2>2. CASE Exit(i)
    BY <2>2, <1>4 DEF Exit, TypeOK, SlotHandles
  <2>3. CASE BeginWait(i)
    BY <2>3, <1>4 DEF BeginWait, TypeOK, WorkingSlot, EndingSlot
  <2>4. CASE WaitCanceled(i) \/ WaitTimedOut(i)
    BY <2>4, <1>4 DEF WaitCanceled, WaitTimedOut, TypeOK, SlotHandles
  <2>5. CASE ClearSlot(i) \/ Signal(i)
    BY <2>5, <1>4 DEF ClearSlot, Signal, TypeOK, SlotHandles
  <2>6. CASE TakeSem(i) \/ SetHasEvent(i) \/ Die(i)
    BY <2>6, <1>4 DEF TakeSem, SetHasEvent, Die, WorkingSlot, EndingSlot
  <2> QED
    BY <2>1, <2>2, <2>3, <2>4, <2>5, <2>6, NoneFinalized DEF WorkerStep, IInv
<1>7. main \in Starting \cup Waiting => WorkingSlot(i)
  BY <1>4 DEF Starting, Waiting
<1>8. \A j \in Slots \ {i} : WorkingSlot(j)' <=> WorkingSlot(j)
  BY <1>2 DEF WorkingSlot
<1>9. \A j \in Slots : IF worker'[j] \in {"waiting", "returned"}
                       THEN cur'[j] = peSlot'[j] ELSE cur'[j] = NULL
  BY <1>2, <1>6 DEF SlotHandles
<1>10. ASSUME main' \in Starting \cup Waiting, NEW j \in Slots
       PROVE  /\ WorkingSlot(j)' => j <= Argc'
              /\ peSlot'[j] # NULL => j <= Argc' /\ peSlot'[j] = args'[depth'][j]
  BY <1>1, <1>2, <1>5, <1>7, <1>8, <1>10 DEF SlotHandles
<1> QED
  BY <1>9, <1>10 DEF SlotHandles

(* So does the script thread: it gives a slot its own argument.               *)
LEMMA SlotHandlesMain ==
    ASSUME SemEvents = {}, ThreadsMayFail = FALSE, IInv, SlotHandles, MainStep
    PROVE  SlotHandles'
<1>a. main \in Starting \cup Waiting =>
         depth \in 1..MaxDepth /\ I \in Slots /\ I <= Argc /\ Argc \in Slots
         /\ Arg \in Handles
  BY CurrentArg DEF IInv
<1>b. main \notin Killing /\ Slots \subseteq Int
  BY MaxItemAssumption DEF IInv, SlotInv, Slots
<1>1. CASE StartThread
  <2>1. /\ main = "thread" /\ main' = "setSlot" /\ Argc' = Argc
        /\ args' = args /\ depth' = depth /\ peSlot' = peSlot
        /\ startSem' = startSem /\ cur' = cur
        /\ \A j \in Slots : /\ j # I => worker'[j] = worker[j]
                            /\ j = I => worker'[j] \in {worker[j], "acquire"}
    BY <1>1 DEF StartThread, stackVars, Argc, IInv, TypeOK
  <2>2. I \in Slots /\ I \in Int
    BY <1>a, <1>b, <2>1 DEF Starting
  <2>3. IdleSlot(I)
    BY <2>1, <2>2 DEF IInv, SlotInv
  <2>4. \A j \in Slots : WorkingSlot(j)' => WorkingSlot(j)
    BY <2>1, <2>3 DEF WorkingSlot, IdleSlot
  <2> QED
    BY <2>1, <2>3, <2>4 DEF SlotHandles, Starting, IdleSlot
<1>2. CASE SetSlot
  <2>1. /\ main = "setSlot" /\ main' = "start" /\ Argc' = Argc
        /\ args' = args /\ depth' = depth /\ worker' = worker
        /\ startSem' = startSem /\ cur' = cur
        /\ \A j \in Slots : peSlot'[j] = IF j = I THEN Arg ELSE peSlot[j]
    BY <1>2 DEF SetSlot, stackVars, Argc, IInv, TypeOK
  <2>2. I \in Slots /\ I \in Int /\ I <= Argc
    BY <1>a, <1>b, <2>1 DEF Starting
  <2>3. IdleSlot(I)
    BY <2>1, <2>2 DEF IInv, SlotInv
  <2>4. \A j \in Slots : WorkingSlot(j)' => WorkingSlot(j)
    BY <2>1, <2>3 DEF WorkingSlot, IdleSlot
  <2>5. \A j \in Slots : IF worker'[j] \in {"waiting", "returned"}
                         THEN cur'[j] = peSlot'[j] ELSE cur'[j] = NULL
    BY <2>1, <2>3 DEF SlotHandles, IdleSlot
  <2>6. Arg = args[depth][I]
    BY DEF Arg
  <2>7. \A j \in Slots : peSlot'[j] # NULL =>
                           j <= Argc /\ peSlot'[j] = args[depth][j]
    BY <2>1, <2>2, <2>6 DEF SlotHandles, Starting
  <2>8. \A j \in Slots : WorkingSlot(j)' => j <= Argc
    BY <2>1, <2>4 DEF SlotHandles, Starting
  <2> QED
    BY <2>1, <2>5, <2>7, <2>8 DEF SlotHandles
<1>3. CASE ReleaseStart
  <2>1. /\ main = "start" /\ Argc' = Argc
        /\ args' = args /\ depth' = depth /\ worker' = worker
        /\ peSlot' = peSlot /\ cur' = cur
        /\ \A j \in Slots : j # I => startSem'[j] = startSem[j]
    BY <1>3 DEF ReleaseStart, NextArg, stackVars, Argc, IInv, TypeOK
  <2>2. \A j \in Slots : WorkingSlot(j)' => WorkingSlot(j) \/ j = I
    BY <2>1 DEF WorkingSlot
  <2> QED
    BY <1>a, <2>1, <2>2 DEF SlotHandles, Starting
<1>4. CASE WaitSignal \/ RepostSignal \/ CheckSlot \/ CancelTimeout \/ Collect
  <2>1. /\ main \in Waiting /\ Argc' = Argc
        /\ args' = args /\ depth' = depth /\ slotVars' = slotVars
    BY <1>4 DEF WaitSignal, RepostSignal, CheckSlot, CancelTimeout, Collect,
                NextArg, stackVars, Argc, Waiting
  <2>2. \A j \in Slots : WorkingSlot(j)' <=> WorkingSlot(j)
    BY <2>1 DEF WorkingSlot, slotVars
  <2> QED
    BY <2>1, <2>2 DEF SlotHandles, slotVars
<1>5. CASE EndWaitNoEvent \/ EndWaitEvent \/ Return \/ SkipSlot \/ SetEnd
           \/ WakeWorker
  <2>1. /\ main' \notin Starting \cup Waiting
        /\ worker' = worker /\ cur' = cur /\ peSlot' = peSlot
    BY <1>5 DEF EndWaitNoEvent, EndWaitEvent, Return, SkipSlot, SetEnd,
                WakeWorker, AfterEndWait, NextSlot, slotVars, Starting, Waiting
  <2> QED
    BY <2>1 DEF SlotHandles
<1>6. CASE JoinWorker
  <2>1. /\ main' \notin Starting \cup Waiting
        /\ cur' = cur /\ peSlot' = peSlot
        /\ \A j \in Slots : worker'[j] = worker[j]
                            \/ (worker[j] = "exited" /\ worker'[j] = "none")
    BY <1>6 DEF JoinWorker, NextSlot, Starting, Waiting, IInv, TypeOK
  <2> QED
    BY <2>1 DEF SlotHandles
<1>7. CASE CancelSem \/ StartThreadFails
  BY <1>7 DEF CancelSem, StartThreadFails
<1>8. CASE KillSlot \/ KillSignal \/ KillThread \/ KillJoin
  BY <1>8, <1>b DEF KillSlot, KillSignal, KillThread, KillJoin, Killing
<1> QED
  BY <1>1, <1>2, <1>3, <1>4, <1>5, <1>6, <1>7, <1>8 DEF MainStep

(* And between calls the slots are empty.                                     *)
LEMMA SlotHandlesStep ==
    ASSUME SemEvents = {}, ThreadsMayFail = FALSE, IInv, SlotHandles, [Next]_vars
    PROVE  SlotHandles'
<1>1. CASE Script
  <2>1. slotVars' = slotVars /\ main = "script"
    BY <1>1 DEF Script, Call, NewTimeout, NewSemEvents, Renew, CallbackReturns,
                BeginRelease
  <2>2. \A i \in Slots : IdleSlot(i)
    BY <2>1 DEF IInv, SlotInv
  <2>3. \A i \in Slots : ~WorkingSlot(i)' /\ peSlot'[i] = NULL
    BY <2>1, <2>2 DEF slotVars, IdleSlot, WorkingSlot
  <2> QED
    BY <2>1, <2>3 DEF slotVars, SlotHandles
<1>2. CASE MainStep
  BY <1>2, SlotHandlesMain
<1>3. CASE \E i \in Slots : WorkerStep(i)
  BY <1>3, SlotHandlesWorker
<1>4. CASE \E h \in SemEvents : Post(h)
  BY <1>4
<1>5. CASE UNCHANGED vars
  BY <1>5 DEF vars, slotVars, stackVars, SlotHandles, WorkingSlot, Argc
<1> QED
  BY <1>1, <1>2, <1>3, <1>4, <1>5 DEF Next, Terminated

\* Then a thread never uses a handle that is not an argument of a call in
\* progress, so that no handle is collected under a thread that waits for it.
THEOREM HandlesStayRooted ==
    ASSUME SemEvents = {}, ThreadsMayFail = FALSE
    PROVE  Spec => []WaitedHandlesAreRooted
<1>1. ASSUME IInv, SlotHandles PROVE WaitedHandlesAreRooted
  <2> SUFFICES ASSUME NEW i \in Slots, NEW h \in {peSlot[i], cur[i]} \ {NULL}
               PROVE  \E d \in 1..depth : \E j \in DOMAIN args[d] : args[d][j] = h
    BY DEF WaitedHandlesAreRooted
  <2>1. peSlot[i] # NULL /\ h = peSlot[i]
    BY <1>1 DEF SlotHandles
  <2>2. main \in Starting \cup Waiting
    BY <1>1, <2>1
       DEF IInv, SlotInv, TypeOK, MainPC, IdleSlot, EndingSlot, Starting,
           Waiting, Killing
  <2>3. i <= Argc /\ h = args[depth][i]
    BY <1>1, <2>1, <2>2 DEF SlotHandles
  <2>4. depth \in 1..depth /\ Argc \in Slots
    BY <1>1, <2>2, CurrentArg, MaxDepthAssumption DEF IInv
  <2>5. i \in DOMAIN args[depth]
    BY <1>1, <2>3, <2>4, FrameFacts, MaxItemAssumption
       DEF IInv, Pos, Argc, Slots
  <2> QED
    BY <2>3, <2>4, <2>5
<1>2. Init => SlotHandles
  BY SlotHandlesInit
<1>3. IInv /\ SlotHandles /\ [Next]_vars => SlotHandles'
  BY SlotHandlesStep
<1>4. Spec => []IInv
  BY Inductive
<1> QED
  BY <1>1, <1>2, <1>3, <1>4, PTL DEF Spec

-----------------------------------------------------------------------------
(* What a call reports.  Handles are made for the call and their waits can be *)
(* cancelled, threads can be created and a timed wait reports that the time   *)
(* is over: the setting in which a call keeps its promise to script.          *)

Setting == /\ SemEvents = {}
           /\ ThreadsMayFail = FALSE
           /\ Callers # "any"
           /\ TimedWaitReportsTimeout = TRUE

\* The handles of the calls on the stack are all different, and those that
\* script may still pass are untouched.
FreshHandles ==
    /\ \A h \in Timeouts : ~used[h] => ~cancel[h] /\ ~happened[h]
    /\ \A d \in 1..depth : \A i \in Pos(d) : used[args[d][i]]
    /\ \A d, e \in 1..depth : \A i \in Pos(d), j \in Pos(e) :
          args[d][i] = args[e][j] => d = e /\ i = j

\* The wait for the argument i of the current call has not ended.
Unsettled(i) ==
    \/ main \in Starting /\ i >= I
    \/ peSlot[i] # NULL /\ worker[i] # "returned"

\* A wait that ended tells what ended it.
Tells(h) == happened[h] <=> ~canceled[h]

\* The current call while it waits: it cancels the waits that are left only
\* after an event occurred.
WaitInv ==
    main \in Starting \cup Waiting =>
        /\ \A i \in Pos(depth) : Unsettled(i) => ~happened[args[depth][i]]
        /\ \A i \in Pos(depth) : ~Unsettled(i) =>
              /\ Tells(args[depth][i])
              /\ canceled[args[depth][i]] => cancel[args[depth][i]]
        /\ main \in Starting \cup {"wait", "repost"}
             => \A i \in Pos(depth) : ~cancel[args[depth][i]]
        /\ main \in Waiting \ {"wait"}
             => \E i \in Pos(depth) : happened[args[depth][i]]

\* The call d has collected its tokens.
Woken(d) == d < depth \/ main \in {"script", "endWait", "done"}

\* A call that is past its wait had an event, and of what it has dispatched it
\* reports what occurred.
Reported(d) ==
    /\ \A i \in Pos(d) : Tells(args[d][i])
    /\ \E i \in Pos(d) : happened[args[d][i]]
    /\ idx[d] <= Len(args[d]) + 1
    /\ mask[d] = {i \in 1..idx[d]-1 : happened[args[d][i]]}

DispatchInv ==
    /\ \A d \in 1..depth : Woken(d) => Reported(d)
    /\ \A d \in 1..MaxDepth : ~(d <= depth /\ Woken(d)) => mask[d] = {}
    /\ main = "done" => I = Argc + 1

CallInv == SlotHandles /\ FreshHandles /\ WaitInv /\ DispatchInv

LEMMA CallInvInit == Setting /\ Init => CallInv
<1> SUFFICES ASSUME Setting, Init PROVE CallInv
  OBVIOUS
<1>1. FreshHandles
  BY DEF Setting, Init, FreshHandles, Handles
<1>2. WaitInv
  BY DEF Init, WaitInv, Starting, Waiting
<1>3. DispatchInv
  BY MaxDepthAssumption DEF Init, DispatchInv
<1> QED
  BY <1>1, <1>2, <1>3, SlotHandlesInit DEF CallInv

\* A thread inside startWait() waits for an argument of the current call.
LEMMA WorkerHandle ==
    ASSUME Setting, IInv, SlotHandles, FreshHandles, NEW i \in Slots,
           worker[i] \in {"waiting", "returned"}
    PROVE  /\ main \in Starting \cup Waiting
           /\ main \in Starting => i < I
           /\ depth \in 1..MaxDepth /\ i \in Pos(depth)
           /\ peSlot[i] # NULL /\ peSlot[i] = cur[i]
           /\ cur[i] = args[depth][i] /\ cur[i] \in Timeouts /\ used[cur[i]]
<1>1. /\ WorkingSlot(i)
      /\ main \in Starting \cup Waiting
      /\ main \in Starting => i < I
  BY ActiveSlot DEF IInv, EndingSlot
<1>2. /\ depth \in 1..MaxDepth /\ Argc \in Slots
  BY <1>1, CurrentArg DEF IInv
<1>3. peSlot[i] # NULL /\ peSlot[i] = cur[i]
  BY <1>1 DEF SlotHandles, WorkingSlot
<1>4. cur[i] = args[depth][i] /\ i <= Argc
  BY <1>1, <1>3 DEF SlotHandles
<1>5. i \in Pos(depth) /\ depth \in 1..depth
  BY <1>2, <1>4, MaxItemAssumption, MaxDepthAssumption DEF Pos, Argc, Slots
<1>6. cur[i] \in Timeouts /\ used[cur[i]]
  BY <1>4, <1>5, FrameFacts DEF IInv, Setting, Handles, FreshHandles
<1> QED
  BY <1>1, <1>2, <1>3, <1>4, <1>5, <1>6

\* The argument of the script thread's step is at its position of the call.
LEMMA CallArg ==
    ASSUME Setting, IInv, FreshHandles,
           main \in Starting \cup Waiting \cup {"endWait"}
    PROVE  /\ depth \in 1..MaxDepth /\ depth \in 1..depth
           /\ I \in Pos(depth) /\ Arg = args[depth][I]
           /\ Arg \in Timeouts /\ used[Arg]
<1>1. /\ depth \in 1..MaxDepth /\ I \in Slots /\ I <= Argc /\ Argc \in Slots
      /\ Arg \in Handles
  BY CurrentArg DEF IInv
<1>2. depth \in 1..depth /\ I \in Pos(depth) /\ Arg = args[depth][I]
  BY <1>1, MaxItemAssumption, MaxDepthAssumption DEF Pos, Argc, Slots, Arg
<1> QED
  BY <1>1, <1>2 DEF Setting, Handles, FreshHandles

\* The arguments of the call the script thread is in.
LEMMA CallArgs ==
    ASSUME Setting, IInv, main \in Starting \cup Waiting \cup {"endWait"}
    PROVE  /\ depth \in 1..MaxDepth /\ depth \in 1..depth
           /\ Argc \in Slots /\ Pos(depth) = 1..Argc /\ Pos(depth) \subseteq Slots
           /\ \A i \in Pos(depth) : args[depth][i] \in Timeouts
<1>1. depth \in 1..MaxDepth /\ Argc \in Slots
  BY CurrentArg DEF IInv
<1>2. depth \in 1..depth
  BY <1>1, MaxDepthAssumption
<1>3. Pos(depth) = 1..Argc /\ Pos(depth) \subseteq Slots
  BY <1>1, MaxItemAssumption DEF Pos, Argc, Slots
<1>4. \A i \in Pos(depth) : args[depth][i] \in Timeouts
  BY <1>2, FrameFacts DEF IInv, Setting, Handles
<1> QED
  BY <1>1, <1>2, <1>3, <1>4

-----------------------------------------------------------------------------
(* The handles stay fresh.                                                  *)

\* No call on the stack loses or gets an argument.
SameCalls == depth' = depth /\ args' = args

\* The calls on the stack stay, and only handles in use change.
LEMMA FreshKept ==
    ASSUME FreshHandles, SameCalls, used' = used,
           \A h \in Timeouts : ~used[h] => cancel'[h] = cancel[h]
                                           /\ happened'[h] = happened[h]
    PROVE  FreshHandles'
BY DEF FreshHandles, SameCalls, Pos

\* A call gets handles that no other call has.
LEMMA FreshCall ==
    ASSUME Setting, IInv, FreshHandles, NEW a \in ArgLists, Call(a)
    PROVE  FreshHandles'
<1>1. /\ depth' = depth + 1 /\ depth \in Nat /\ depth < MaxDepth
      /\ \A d \in 0..MaxDepth :
            args'[d] = IF d = depth + 1 THEN a ELSE args[d]
      /\ \A h \in Timeouts :
            /\ used'[h] <=> used[h] \/ \E i \in DOMAIN a : a[i] = h
            /\ happened'[h] => happened[h]
            /\ cancel'[h] = cancel[h]
  <2>1. /\ depth' = depth + 1 /\ depth \in Nat /\ depth < MaxDepth
        /\ \A d \in 0..MaxDepth :
              args'[d] = IF d = depth + 1 THEN a ELSE args[d]
        /\ cancel' = cancel
    BY MaxDepthAssumption DEF Call, IInv, TypeOK
  <2>2. /\ used' = [h \in Handles |-> used[h] \/ \E i \in DOMAIN a : a[i] = h]
        /\ happened' = [h \in Handles |->
                          happened[h] /\ ~ \E i \in DOMAIN a : a[i] = h]
    BY DEF Call
  <2>3. \A h \in Timeouts : h \in Handles
    BY DEF Handles
  <2>4. \A h \in Timeouts :
           /\ used'[h] <=> used[h] \/ \E i \in DOMAIN a : a[i] = h
           /\ happened'[h] => happened[h]
    BY <2>2, <2>3, Zenon
  <2> QED
    BY <2>1, <2>4
<1>2. Fresh(a) /\ DOMAIN a = 1..Len(a) /\ \A i \in 1..Len(a) : a[i] \in Timeouts
  BY ArgListFacts DEF Call, Setting, Handles
<1>3. \A h \in Timeouts : ~used'[h] => ~cancel'[h] /\ ~happened'[h]
  BY <1>1 DEF FreshHandles
<1>4. \A d \in 1..depth' : \/ d \in 1..depth /\ args'[d] = args[d] /\ Pos(d)' = Pos(d)
                           \/ d = depth + 1 /\ args'[d] = a /\ Pos(d)' = 1..Len(a)
  BY <1>1, MaxDepthAssumption DEF Pos
<1>5. \A d \in 1..depth : \A i \in Pos(d) : args[d][i] \in Timeouts
  BY FrameFacts DEF IInv, Setting, Handles
<1>6. \A d \in 1..depth' : \A i \in Pos(d)' : used'[args'[d][i]]
  <2> SUFFICES ASSUME NEW d \in 1..depth', NEW i \in Pos(d)'
               PROVE  used'[args'[d][i]]
    OBVIOUS
  <2>1. CASE d \in 1..depth /\ args'[d] = args[d] /\ Pos(d)' = Pos(d)
    BY <1>1, <1>5, <2>1 DEF FreshHandles
  <2>2. CASE d = depth + 1 /\ args'[d] = a /\ Pos(d)' = 1..Len(a)
    BY <1>1, <1>2, <2>2
  <2> QED
    BY <1>4, <2>1, <2>2
<1>7. \A d, e \in 1..depth' : \A i \in Pos(d)', j \in Pos(e)' :
         args'[d][i] = args'[e][j] => d = e /\ i = j
  <2> SUFFICES ASSUME NEW d \in 1..depth', NEW e \in 1..depth',
                      NEW i \in Pos(d)', NEW j \in Pos(e)',
                      args'[d][i] = args'[e][j]
               PROVE  d = e /\ i = j
    OBVIOUS
  <2>1. \A k \in 1..Len(a) : ~used[a[k]]
    BY <1>2 DEF Fresh
  <2>2. CASE d \in 1..depth /\ e \in 1..depth
    BY <1>1, <1>4, <2>2 DEF FreshHandles
  <2>3. CASE d \in 1..depth /\ e = depth + 1
    <3>1. used[args'[d][i]] /\ ~used[args'[e][j]]
      BY <1>1, <1>4, <2>1, <2>3 DEF FreshHandles
    <3> QED
      BY <3>1
  <2>4. CASE e \in 1..depth /\ d = depth + 1
    <3>1. used[args'[e][j]] /\ ~used[args'[d][i]]
      BY <1>1, <1>4, <2>1, <2>4 DEF FreshHandles
    <3> QED
      BY <3>1
  <2>5. CASE d = depth + 1 /\ e = depth + 1
    BY <1>1, <1>2, <1>4, <2>5 DEF Fresh
  <2> QED
    BY <1>4, <2>2, <2>3, <2>4, <2>5
<1> QED
  BY <1>3, <1>6, <1>7 DEF FreshHandles

\* A call that returns leaves the others, a new handle is in none of them.
LEMMA FreshReturnRenew ==
    ASSUME Setting, IInv, FreshHandles, Return \/ \E h \in Timeouts : NewTimeout(h)
    PROVE  FreshHandles'
<1>1. CASE Return
  <2>1. /\ depth' = depth - 1 /\ depth \in Nat
        /\ \A d \in 1..depth' : d \in 1..depth /\ args'[d] = args[d]
        /\ used' = used /\ cancel' = cancel /\ happened' = happened
    BY <1>1, MaxDepthAssumption
       DEF Return, PopFrame, IInv, TypeOK, handleVars
  <2>2. \A d \in 1..depth' : Pos(d)' = Pos(d)
    BY <2>1 DEF Pos
  <2> QED
    BY <2>1, <2>2 DEF FreshHandles
<1>2. ASSUME NEW h \in Timeouts, NewTimeout(h) PROVE FreshHandles'
  <2>1. /\ SameCalls
        /\ \A g \in Timeouts : g # h =>
              used'[g] = used[g] /\ cancel'[g] = cancel[g]
              /\ happened'[g] = happened[g]
        /\ ~used'[h] /\ ~cancel'[h] /\ ~happened'[h]
    BY <1>2 DEF NewTimeout, Renew, SameCalls, stackVars, IInv, TypeOK, Handles
  <2>2. \A d \in 1..depth : \A i \in Pos(d) : args[d][i] # h /\ args[d][i] \in Timeouts
    BY <1>2, FrameFacts DEF NewTimeout, Renew, IInv, Setting, Handles
  <2> QED
    BY <2>1, <2>2 DEF FreshHandles, SameCalls, Pos
<1> QED
  BY <1>1, <1>2

\* The steps that change no handle and no call.
HandlesKept == used' = used /\ cancel' = cancel /\ canceled' = canceled
               /\ happened' = happened

LEMMA FreshStep ==
    ASSUME Setting, IInv, SlotHandles, FreshHandles, [Next]_vars
    PROVE  FreshHandles'
<1>1. CASE Script
  <2>1. CASE CallbackReturns \/ BeginRelease
    BY <2>1, FreshKept
       DEF CallbackReturns, BeginRelease, SameCalls, stackVars, handleVars
  <2>2. CASE \E h \in SemEvents : NewSemEvents(h)
    BY <2>2 DEF Setting
  <2> QED
    BY <1>1, <2>1, <2>2, FreshCall, FreshReturnRenew DEF Script
<1>2. CASE MainStep
  <2>1. CASE Return
    BY <2>1, FreshReturnRenew
  <2>2. CASE StartThreadFails
    BY <2>2 DEF StartThreadFails, Setting
  <2>3. CASE CancelTimeout \/ EndWaitEvent
    <3>1. used[Arg]
      BY <2>3, CallArg DEF CancelTimeout, EndWaitEvent, Waiting
    <3>2. SameCalls /\ used' = used /\ happened' = happened
      BY <2>3 DEF CancelTimeout, EndWaitEvent, NextArg, SameCalls
    <3>3. \A h \in Timeouts : h # Arg => cancel'[h] = cancel[h]
      BY <2>3 DEF CancelTimeout, EndWaitEvent, IInv, TypeOK
    <3> QED
      BY <3>1, <3>2, <3>3, FreshKept
  <2>4. CASE /\ ~Return /\ ~StartThreadFails /\ ~CancelTimeout /\ ~EndWaitEvent
    <3>1. SameCalls /\ HandlesKept
      BY <1>2, <2>4 DEF MainStep, StartThread, SetSlot, ReleaseStart, WaitSignal,
           RepostSignal, CheckSlot, CancelSem, KillSlot, KillSignal,
           KillThread, KillJoin, Collect, EndWaitNoEvent, SkipSlot, SetEnd,
           WakeWorker, JoinWorker, NextArg, NextSlot, SameCalls, HandlesKept,
           stackVars, handleVars
    <3> QED
      BY <3>1, FreshKept DEF HandlesKept
  <2> QED
    BY <2>1, <2>2, <2>3, <2>4
<1>3. ASSUME NEW i \in Slots, WorkerStep(i) PROVE FreshHandles'
  <2>1. SameCalls /\ used' = used /\ cancel' = cancel
    BY <1>3 DEF WorkerStep, AcquireStart, Exit, BeginWait, WaitCanceled,
         WaitTimedOut, TakeSem, SetHasEvent, ClearSlot, Signal, Die,
         UseFinalized, SameCalls,
         stackVars, handleVars
  <2>2. CASE WaitTimedOut(i)
    <3>1. worker[i] = "waiting" /\ \A h \in Timeouts : h # cur[i] => happened'[h] = happened[h]
      BY <2>2 DEF WaitTimedOut, IInv, TypeOK, Handles
    <3>2. used[cur[i]]
      BY <3>1, WorkerHandle
    <3> QED
      BY <2>1, <3>1, <3>2, FreshKept
  <2>3. CASE ~WaitTimedOut(i)
    <3>1. ~TakeSem(i)
      BY DEF TakeSem, Setting
    <3>2. happened' = happened
      BY <1>3, <2>3, <3>1 DEF WorkerStep, AcquireStart, Exit, BeginWait,
           WaitCanceled, SetHasEvent, ClearSlot, Signal, Die,
           UseFinalized, handleVars
    <3> QED
      BY <2>1, <3>2, FreshKept
  <2> QED
    BY <2>2, <2>3
<1>4. CASE \E h \in SemEvents : Post(h)
  BY <1>4 DEF Setting
<1>5. CASE UNCHANGED vars
  BY <1>5, FreshKept DEF vars, handleVars, stackVars, SameCalls
<1> QED
  BY <1>1, <1>2, <1>3, <1>4, <1>5 DEF Next, Terminated

-----------------------------------------------------------------------------
(* The wait of a call.                                                      *)

\* A step that changes neither a handle nor what is settled.
LEMMA WaitKept ==
    ASSUME WaitInv, SameCalls, HandlesKept,
           main' \in Starting \cup Waiting =>
              /\ main \in Starting \cup Waiting
              /\ \A i \in Pos(depth) : Unsettled(i)' <=> Unsettled(i)
              /\ main' \in Starting \cup {"wait", "repost"} =>
                    main \in Starting \cup {"wait", "repost"}
              /\ main' \in Waiting \ {"wait"} => main \in Waiting \ {"wait"}
    PROVE  WaitInv'
<1>1. Pos(depth)' = Pos(depth)
  BY DEF Pos, SameCalls
<1> QED
  BY <1>1 DEF WaitInv, SameCalls, HandlesKept, Tells

\* processEvents() starts the workers one by one.
LEMMA WaitStarting ==
    ASSUME Setting, IInv, SlotHandles, FreshHandles, WaitInv,
           StartThread \/ SetSlot \/ ReleaseStart
    PROVE  WaitInv'
<1>1. SameCalls /\ HandlesKept /\ main \in Starting
  BY DEF StartThread, SetSlot, ReleaseStart, NextArg, SameCalls, HandlesKept,
         handleVars, stackVars, Starting
<1>2. /\ I \in Slots /\ Slots \subseteq Int /\ I <= Argc /\ Argc \in Slots
      /\ depth \in 1..MaxDepth /\ Pos(depth) = 1..Argc
      /\ Pos(depth) \subseteq Slots
  BY <1>1, CurrentArg, MaxItemAssumption DEF IInv, Slots, Pos, Argc
<1>3. CASE StartThread
  <2>1. /\ main' = "setSlot" /\ I' = I /\ peSlot' = peSlot
        /\ \A i \in Slots : worker'[i] = "returned" <=> worker[i] = "returned"
    BY <1>3 DEF StartThread, stackVars, I, IInv, TypeOK
  <2>2. \A i \in Pos(depth) : Unsettled(i)' <=> Unsettled(i)
    BY <1>1, <1>2, <2>1 DEF Unsettled, Starting
  <2> QED
    BY <1>1, <2>1, <2>2, WaitKept DEF Starting, Waiting
<1>4. CASE SetSlot
  <2>1. /\ main' = "start" /\ I' = I /\ worker' = worker
        /\ \A i \in Slots : i # I => peSlot'[i] = peSlot[i]
    BY <1>4 DEF SetSlot, stackVars, I, IInv, TypeOK
  <2>2. \A i \in Pos(depth) : Unsettled(i)' <=> Unsettled(i)
    BY <1>1, <1>2, <2>1 DEF Unsettled, Starting
  <2> QED
    BY <1>1, <2>1, <2>2, WaitKept DEF Starting, Waiting
<1>5. CASE ReleaseStart
  <2>1. /\ main = "start" /\ worker' = worker /\ peSlot' = peSlot
        /\ NextArg("thread", "wait")
    BY <1>5 DEF ReleaseStart
  <2>2. /\ main' = (IF I < Argc THEN "thread" ELSE "wait")
        /\ I' = (IF I < Argc THEN I + 1 ELSE 1)
    BY <2>1, NextArgStep DEF Starting, Waiting, IInv
  <2>3. AssignedSlot(I)
    BY <1>2, <2>1 DEF IInv, SlotInv
  <2>4. \A i \in Pos(depth) : Unsettled(i)' <=> Unsettled(i)
    <3> SUFFICES ASSUME NEW i \in Pos(depth)
                 PROVE  Unsettled(i)' <=> Unsettled(i)
      OBVIOUS
    <3>1. CASE i = I
      BY <1>2, <2>1, <2>3, <3>1 DEF Unsettled, Starting, AssignedSlot
    <3>2. CASE i > I
      BY <1>2, <2>1, <2>2, <3>2 DEF Unsettled, Starting
    <3>3. CASE i < I
      BY <1>2, <2>1, <2>2, <3>3 DEF Unsettled, Starting
    <3> QED
      BY <1>2, <3>1, <3>2, <3>3
  <2> QED
    BY <1>1, <2>1, <2>2, <2>4, WaitKept DEF Starting, Waiting
<1> QED
  BY <1>3, <1>4, <1>5

\* The signal semaphore has a token only when one of the waits has ended, and
\* nothing was cancelled: an event ended it.
LEMMA TokenMeansEvent ==
    ASSUME Setting, IInv, SlotHandles, FreshHandles, WaitInv, WaitSignal
    PROVE  \E i \in Pos(depth) : happened[args[depth][i]]
<1>1. main = "wait" /\ signalSem > 0 /\ main \in Waiting /\ main \notin Starting
  BY DEF WaitSignal, Waiting, Starting
<1>2. /\ Argc \in Slots /\ Argc \in Nat /\ Pos(depth) = 1..Argc
      /\ Pos(depth) \subseteq Slots
  BY <1>1, CurrentArg, MaxItemAssumption DEF IInv, Slots, Pos, Argc
<1>3. signalSem + Cardinality(Working) = Argc
  BY <1>1, WorkingFacts DEF IInv, TokenInv, Collected, Started, TypeOK
<1>4. PICK i \in 1..Argc : i \notin Working
  <2> SUFFICES ASSUME 1..Argc \subseteq Working PROVE FALSE
    OBVIOUS
  <2>1. Cardinality(1..Argc) = Argc
    BY <1>2, FS_Interval
  <2>2. Cardinality(1..Argc) <= Cardinality(Working)
    BY WorkingFacts, FS_Subset
  <2> QED
    BY <1>1, <1>2, <1>3, <2>1, <2>2, WorkingFacts DEF IInv, TypeOK
<1>5. peSlot[i] = NULL
  BY <1>1, <1>2, <1>4 DEF Working, IInv, SlotInv, IdleSlot
<1>6. i \in Pos(depth) /\ ~Unsettled(i)
  BY <1>1, <1>2, <1>5 DEF Unsettled
<1>7. ~cancel[args[depth][i]]
  BY <1>1, <1>6 DEF WaitInv
<1> QED
  BY <1>1, <1>6, <1>7 DEF WaitInv, Tells

\* The script thread sleeps, wakes, cancels and collects.
LEMMA WaitWaiting ==
    ASSUME Setting, IInv, SlotHandles, FreshHandles, WaitInv,
           WaitSignal \/ RepostSignal \/ CheckSlot \/ CancelTimeout \/ Collect
    PROVE  WaitInv'
<1>1. /\ SameCalls /\ slotVars' = slotVars /\ main \in Waiting
      /\ main' \notin Starting /\ main \notin Starting
  BY DEF WaitSignal, RepostSignal, CheckSlot, CancelTimeout, Collect, NextArg,
         SameCalls, stackVars, Starting, Waiting
<1>2. \A i \in Pos(depth) : Unsettled(i)' <=> Unsettled(i)
  BY <1>1 DEF Unsettled, slotVars
<1>3. CASE RepostSignal \/ CheckSlot \/ Collect
  <2>1. HandlesKept
    BY <1>3 DEF RepostSignal, CheckSlot, Collect, HandlesKept, handleVars
  <2>2. /\ main' \notin {"wait", "repost"}
        /\ main \in Waiting \ {"wait"}
    BY <1>3 DEF RepostSignal, CheckSlot, Collect, NextArg, Waiting
  <2> QED
    BY <1>1, <1>2, <2>1, <2>2, WaitKept
<1>4. Pos(depth)' = Pos(depth)
  BY <1>1 DEF SameCalls, Pos
<1>5. CASE WaitSignal
  <2>1. /\ HandlesKept /\ main = "wait" /\ main' = "repost"
    BY <1>5 DEF WaitSignal, HandlesKept, handleVars
  <2>2. \E i \in Pos(depth) : happened[args[depth][i]]
    BY <1>5, TokenMeansEvent
  <2> QED
    BY <1>1, <1>2, <1>4, <2>1, <2>2 DEF WaitInv, SameCalls, HandlesKept, Tells
<1>6. CASE CancelTimeout
  <2>1. /\ main = "cancelWait" /\ main' \in {"check", "collect"}
        /\ used' = used /\ canceled' = canceled /\ happened' = happened
    BY <1>6 DEF CancelTimeout, NextArg
  <2>2. \A h \in Timeouts : cancel[h] => cancel'[h]
    BY <1>6 DEF CancelTimeout, IInv, TypeOK
  <2>3. \A i \in Pos(depth) : args[depth][i] \in Timeouts
    BY <1>1, CallArg, FrameFacts DEF IInv, Setting, Handles
  <2> QED
    BY <1>1, <1>2, <1>4, <2>1, <2>2, <2>3 DEF WaitInv, SameCalls, Tells
<1> QED
  BY <1>3, <1>5, <1>6

\* The workers: the end of startWait() settles the handle, one way or the other.
LEMMA WaitWorker ==
    ASSUME Setting, IInv, SlotHandles, FreshHandles, WaitInv,
           NEW i \in Slots, WorkerStep(i)
    PROVE  WaitInv'
<1> USE DEF WorkerGoes
<1>1. /\ SameCalls /\ main' = main /\ I' = I /\ used' = used /\ cancel' = cancel
      /\ ~TakeSem(i) /\ ~SetHasEvent(i) /\ ~Die(i) /\ ~UseFinalized(i)
  <2>1. ~killed[i] /\ worker[i] # "taken" /\ ~UseFinalized(i)
    BY ActiveSlot, NoneFinalized DEF IInv, SlotInv, WorkingSlot, EndingSlot
  <2> QED
    BY <2>1 DEF WorkerStep, AcquireStart, Exit, BeginWait, WaitCanceled,
         WaitTimedOut, TakeSem, SetHasEvent, ClearSlot, Signal, Die,
         UseFinalized, SameCalls,
         stackVars, handleVars, I, Setting
<1>2. \A j \in Slots \ {i} : peSlot'[j] = peSlot[j] /\ worker'[j] = worker[j]
  BY DEF WorkerStep, AcquireStart, Exit, BeginWait, WaitCanceled, WaitTimedOut,
         TakeSem, SetHasEvent, ClearSlot, Signal, Die,
         UseFinalized, IInv, TypeOK
<1>3. \A j \in Slots \ {i} : Unsettled(j)' <=> Unsettled(j)
  BY <1>1, <1>2 DEF Unsettled
<1>4. main \in Starting \cup Waiting =>
        /\ Pos(depth) \subseteq Slots
        /\ \A j \in Pos(depth) : args[depth][j] \in Timeouts
  BY CallArgs
<1>5. CASE AcquireStart(i) \/ Exit(i) \/ BeginWait(i) \/ ClearSlot(i) \/ Signal(i)
  <2>1. HandlesKept
    BY <1>5 DEF AcquireStart, Exit, BeginWait, ClearSlot, Signal, HandlesKept,
                handleVars
  <2>2. main \in Starting \cup Waiting => (Unsettled(i)' <=> Unsettled(i))
    <3> SUFFICES ASSUME main \in Starting \cup Waiting
                 PROVE  Unsettled(i)' <=> Unsettled(i)
      OBVIOUS
    <3>1. WorkingSlot(i)
      <4>1. startSem[i] > 0 \/ worker[i] \notin {"none", "acquire"}
        BY <1>5 DEF AcquireStart, Exit, BeginWait, ClearSlot, Signal
      <4> QED
        BY <4>1, ActiveSlot DEF IInv, Starting, Waiting
    <3>2. CASE AcquireStart(i) \/ Exit(i) \/ BeginWait(i)
      <4>1. /\ peSlot'[i] = peSlot[i] /\ worker[i] # "returned"
            /\ worker'[i] # "returned"
        BY <3>2 DEF AcquireStart, Exit, BeginWait, IInv, TypeOK
      <4> QED
        BY <1>1, <4>1 DEF Unsettled
    <3>3. CASE ClearSlot(i)
      <4>1. peSlot'[i] = NULL /\ worker[i] = "returned"
        BY <3>3 DEF ClearSlot, IInv, TypeOK
      <4> QED
        BY <1>1, <4>1 DEF Unsettled
    <3>4. CASE Signal(i)
      <4>1. peSlot'[i] = NULL /\ peSlot[i] = NULL
        BY <3>1, <3>4 DEF Signal, WorkingSlot
      <4> QED
        BY <1>1, <4>1 DEF Unsettled
    <3> QED
      BY <1>5, <3>2, <3>3, <3>4
  <2> QED
    BY <1>1, <1>3, <1>4, <2>1, <2>2, WaitKept
<1>6. CASE WaitCanceled(i) \/ WaitTimedOut(i)
  <2>1. worker[i] = "waiting"
    BY <1>6 DEF WaitCanceled, WaitTimedOut
  <2> DEFINE h == cur[i]
  <2>2. /\ main \in Starting \cup Waiting /\ (main \in Starting => i < I)
        /\ depth \in 1..depth /\ i \in Pos(depth) /\ peSlot[i] # NULL
        /\ h = args[depth][i] /\ h \in Timeouts
    BY <2>1, WorkerHandle, MaxDepthAssumption
  <2>3. Unsettled(i) /\ ~happened[h]
    BY <2>1, <2>2 DEF Unsettled, WaitInv
  <2>4. /\ peSlot' = peSlot /\ worker'[i] = "returned"
        /\ \A g \in Timeouts : g # h => /\ canceled'[g] = canceled[g]
                                        /\ happened'[g] = happened[g]
    <3>1. CASE WaitCanceled(i)
      BY <3>1 DEF WaitCanceled, IInv, TypeOK
    <3>2. CASE WaitTimedOut(i)
      <4>1. /\ \A g \in Timeouts : g # h => canceled'[g] = canceled[g]
            /\ peSlot' = peSlot /\ worker'[i] = "returned"
        BY <3>2 DEF WaitTimedOut, IInv, TypeOK
      <4>2. \A g \in Handles : g # h => happened'[g] = happened[g]
        BY <3>2 DEF WaitTimedOut, IInv, TypeOK
      <4> QED
        BY <4>1, <4>2 DEF Handles
    <3> QED
      BY <1>6, <3>1, <3>2
  <2>5. I \in Int /\ i \in Int
    <3>1. idx \in [0..MaxDepth -> Nat] /\ depth \in 0..MaxDepth
      BY DEF IInv, TypeOK
    <3> QED
      BY <3>1, MaxItemAssumption DEF I, Slots
  <2>6. ~Unsettled(i)'
    BY <1>1, <2>2, <2>4, <2>5 DEF Unsettled
  <2>7. /\ happened'[h] <=> ~canceled'[h]
        /\ canceled'[h] => cancel'[h]
    <3>1. CASE WaitCanceled(i)
      <4>1. canceled'[h] /\ happened' = happened /\ cancel[h]
        BY <2>2, <3>1 DEF WaitCanceled, IInv, TypeOK
      <4> QED
        BY <1>1, <2>3, <4>1
    <3>2. CASE WaitTimedOut(i)
      <4>1. canceled' = [canceled EXCEPT ![h] = FALSE]
        BY <3>2, Zenon DEF WaitTimedOut, Setting
      <4>2. happened' = [happened EXCEPT ![h] = TRUE]
        BY <3>2 DEF WaitTimedOut
      <4> QED
        BY <2>2, <4>1, <4>2 DEF IInv, TypeOK, Handles
    <3> QED
      BY <1>6, <3>1, <3>2
  <2>8. \A j \in Pos(depth) : j # i => args[depth][j] # h
    BY <2>2 DEF FreshHandles
  <2>9. \A j \in Pos(depth) : j # i =>
            /\ happened'[args[depth][j]] = happened[args[depth][j]]
            /\ canceled'[args[depth][j]] = canceled[args[depth][j]]
            /\ Unsettled(j)' <=> Unsettled(j)
    BY <1>3, <1>4, <2>2, <2>4, <2>8
  <2>10. Pos(depth)' = Pos(depth)
    BY <1>1 DEF SameCalls, Pos
  <2>11. \A j \in Pos(depth) : Unsettled(j)' => ~happened'[args[depth][j]]
    BY <2>2, <2>6, <2>9 DEF WaitInv
  <2>12. \A j \in Pos(depth) : ~Unsettled(j)' =>
            /\ happened'[args[depth][j]] <=> ~canceled'[args[depth][j]]
            /\ canceled'[args[depth][j]] => cancel'[args[depth][j]]
    BY <1>1, <2>2, <2>7, <2>9 DEF WaitInv, Tells
  <2>13. (\E j \in Pos(depth) : happened[args[depth][j]]) =>
            \E j \in Pos(depth) : happened'[args[depth][j]]
    BY <2>2, <2>3, <2>9
  <2> QED
    BY <1>1, <2>2, <2>10, <2>11, <2>12, <2>13 DEF WaitInv, SameCalls, Tells
<1> QED
  BY <1>1, <1>5, <1>6 DEF WorkerStep

\* A call begins with handles of which none was cancelled or had its event.
LEMMA WaitCall ==
    ASSUME Setting, IInv, FreshHandles, NEW a \in ArgLists, Call(a)
    PROVE  WaitInv'
<1>1. /\ main' = "thread" /\ depth' = depth + 1 /\ idx' = idx
      /\ depth \in 0..MaxDepth /\ depth < MaxDepth /\ cancel' = cancel
      /\ args'[depth'] = a
  BY MaxDepthAssumption DEF Call, IInv, TypeOK
<1>2. I' = 1 /\ Pos(depth)' = 1..Len(a)
  <2>1. depth + 1 \in depth+1 .. MaxDepth
    BY <1>1, MaxDepthAssumption
  <2>2. idx[depth + 1] = 1
    BY <2>1 DEF IInv, FrameInv
  <2> QED
    BY <1>1, <2>2 DEF I, Pos
<1>3. /\ DOMAIN a = 1..Len(a)
      /\ \A i \in 1..Len(a) : a[i] \in Timeouts /\ a[i] \in Handles
      /\ \A i \in 1..Len(a) : ~used[a[i]]
  BY ArgListFacts DEF Call, Setting, Fresh, Handles
<1>4. happened' = [h \in Handles |->
                     happened[h] /\ ~ \E i \in DOMAIN a : a[i] = h]
  BY DEF Call
<1>5. \A i \in 1..Len(a) : ~happened'[a[i]]
  BY <1>3, <1>4, Zenon
<1>6. \A i \in 1..Len(a) : ~cancel'[a[i]]
  BY <1>1, <1>3 DEF FreshHandles
<1>7. \A i \in 1..Len(a) : Unsettled(i)'
  BY <1>1, <1>2 DEF Unsettled, Starting
<1> QED
  BY <1>1, <1>2, <1>5, <1>6, <1>7 DEF WaitInv, Starting, Waiting

LEMMA WaitStep ==
    ASSUME Setting, IInv, SlotHandles, FreshHandles, WaitInv, [Next]_vars
    PROVE  WaitInv'
<1>1. CASE Script
  <2>1. CASE \E a \in ArgLists : Call(a)
    BY <2>1, WaitCall
  <2>2. CASE ~ \E a \in ArgLists : Call(a)
    <3>1. main' \in {"script", "endWait", "done", "release"}
      BY <1>1, <2>2 DEF Script, NewTimeout, NewSemEvents, Renew, CallbackReturns,
                        BeginRelease
    <3> QED
      BY <3>1 DEF WaitInv, Starting, Waiting
  <2> QED
    BY <2>1, <2>2
<1>2. CASE MainStep
  <2>1. CASE StartThread \/ SetSlot \/ ReleaseStart
    BY <2>1, WaitStarting
  <2>2. CASE WaitSignal \/ RepostSignal \/ CheckSlot \/ CancelTimeout \/ Collect
    BY <2>2, WaitWaiting
  <2>3. CASE EndWaitNoEvent \/ EndWaitEvent \/ Return \/ SkipSlot \/ SetEnd
             \/ WakeWorker \/ JoinWorker
    <3>1. main' \notin Starting \cup Waiting
      BY <2>3 DEF EndWaitNoEvent, EndWaitEvent, Return, SkipSlot, SetEnd,
                  WakeWorker, JoinWorker, AfterEndWait, NextSlot, Starting,
                  Waiting
    <3> QED
      BY <3>1 DEF WaitInv
  <2>4. CASE StartThreadFails \/ CancelSem \/ KillSlot \/ KillSignal
             \/ KillThread \/ KillJoin
    <3>1. 1 \in Slots
      BY MaxItemAssumption DEF Slots
    <3> QED
      BY <2>4, <3>1 DEF StartThreadFails, CancelSem, KillSlot, KillSignal,
           KillThread, KillJoin, Setting, IInv, SlotInv, Killing
  <2> QED
    BY <1>2, <2>1, <2>2, <2>3, <2>4 DEF MainStep
<1>3. CASE \E i \in Slots : WorkerStep(i)
  BY <1>3, WaitWorker
<1>4. CASE \E h \in SemEvents : Post(h)
  BY <1>4 DEF Setting
<1>5. CASE UNCHANGED vars
  <2>1. SameCalls /\ HandlesKept /\ main' = main
    BY <1>5 DEF vars, stackVars, handleVars, SameCalls, HandlesKept
  <2>2. \A i \in Pos(depth) : Unsettled(i)' <=> Unsettled(i)
    BY <1>5 DEF vars, stackVars, slotVars, Unsettled, I
  <2> QED
    BY <2>1, <2>2, WaitKept
<1> QED
  BY <1>1, <1>2, <1>3, <1>4, <1>5 DEF Next, Terminated

-----------------------------------------------------------------------------
(* What is dispatched and reported.                                         *)

\* What a call reports depends on its own handles only.
LEMMA ReportedKept ==
    ASSUME TypeOK, FrameInv, NEW d \in 1..depth, Reported(d),
           args'[d] = args[d], idx'[d] = idx[d], mask'[d] = mask[d],
           \A i \in Pos(d) : /\ happened'[args[d][i]] = happened[args[d][i]]
                             /\ canceled'[args[d][i]] = canceled[args[d][i]]
    PROVE  Reported(d)'
<1>1. Len(args[d]) \in Nat /\ idx[d] \in Nat /\ Pos(d)' = Pos(d)
  BY FrameFacts, MaxItemAssumption, MaxDepthAssumption DEF TypeOK, Slots, Pos
<1>2. 1..idx[d]-1 \subseteq Pos(d)
  BY <1>1 DEF Reported, Pos
<1>3. {i \in 1..idx[d]-1 : happened'[args[d][i]]}
        = {i \in 1..idx[d]-1 : happened[args[d][i]]}
  BY <1>2
<1> QED
  BY <1>1, <1>3 DEF Reported, Tells

\* While a call waits, only its own handles change, and it reports nothing.
LEMMA DispatchWaiting ==
    ASSUME Setting, IInv, FreshHandles, DispatchInv, SameCalls, mask' = mask,
           main \in Starting \cup Waiting, main' \in Starting \cup Waiting,
           \A d \in 0..MaxDepth : d # depth => idx'[d] = idx[d],
           \A h \in Timeouts : (\A i \in Pos(depth) : args[depth][i] # h) =>
              happened'[h] = happened[h] /\ canceled'[h] = canceled[h]
    PROVE  DispatchInv'
<1>1. depth \in 1..MaxDepth /\ depth \in 1..depth
  BY CallArgs
<1>2. \A d \in 1..MaxDepth : Woken(d)' <=> d < depth
  BY DEF Woken, SameCalls, Starting, Waiting
<1>3. ASSUME NEW d \in 1..depth', Woken(d)' PROVE Reported(d)'
  <2>1. d \in 1..depth /\ d < depth /\ d \in 0..MaxDepth /\ d # depth
    BY <1>1, <1>2, <1>3, MaxDepthAssumption DEF SameCalls
  <2>2. Reported(d)
    BY <2>1 DEF DispatchInv, Woken
  <2>3. \A i \in Pos(d) : /\ args[d][i] \in Timeouts
                          /\ \A j \in Pos(depth) : args[depth][j] # args[d][i]
    BY <1>1, <2>1, FrameFacts DEF IInv, Setting, Handles, FreshHandles
  <2> QED
    BY <2>1, <2>2, <2>3, ReportedKept DEF SameCalls, IInv
<1>4. ASSUME NEW d \in 1..MaxDepth, ~(d <= depth' /\ Woken(d)') PROVE mask'[d] = {}
  <2>1. ~(d <= depth /\ Woken(d))
    BY <1>1, <1>2, <1>4 DEF SameCalls, Woken, Starting, Waiting
  <2> QED
    BY <2>1 DEF DispatchInv
<1> QED
  BY <1>3, <1>4 DEF DispatchInv, Starting, Waiting

\* The last token is collected: every wait has ended, one by its event.
LEMMA DispatchBegins ==
    ASSUME Setting, IInv, SlotInv', FreshHandles, WaitInv, DispatchInv, Collect,
           main' = "endWait"
    PROVE  DispatchInv'
<1>1. /\ main = "collect" /\ main \in Waiting /\ main \notin Starting
      /\ NextArg("collect", "endWait") /\ slotVars' = slotVars
      /\ handleVars' = handleVars
  BY DEF Collect, Waiting, Starting
<1>2. /\ depth \in 1..MaxDepth /\ depth \in 1..depth /\ Argc \in Slots
      /\ Pos(depth) = 1..Argc /\ Pos(depth) \subseteq Slots
  BY <1>1, CallArgs
<1>3. /\ SameCalls /\ mask' = mask /\ I' = 1
      /\ \A d \in 0..MaxDepth : d # depth => idx'[d] = idx[d]
  <2>1. I' = (IF I < Argc THEN I + 1 ELSE 1) /\ main' = (IF I < Argc THEN "collect" ELSE "endWait")
    BY <1>1, NextArgStep DEF IInv, Waiting
  <2> QED
    BY <1>1, <2>1 DEF NextArg, SameCalls, IInv, TypeOK
<1>4. \A i \in Slots : peSlot[i] = NULL
  BY <1>1 DEF SlotInv, IdleSlot, slotVars
<1>5. \A i \in Pos(depth) : Tells(args[depth][i])
  BY <1>1, <1>2, <1>4 DEF WaitInv, Unsettled
<1>6. \E i \in Pos(depth) : happened[args[depth][i]]
  BY <1>1 DEF WaitInv, Waiting
<1>7. mask[depth] = {}
  BY <1>1, <1>2 DEF DispatchInv, Woken
<1>8. Reported(depth)'
  <2>1. idx'[depth] = 1 /\ Pos(depth)' = Pos(depth) /\ Len(args[depth]) \in Nat
    BY <1>2, <1>3, FrameFacts, MaxItemAssumption
       DEF I, SameCalls, Pos, IInv, Slots
  <2> QED
    BY <1>1, <1>3, <1>5, <1>6, <1>7, <2>1
       DEF Reported, SameCalls, Tells, handleVars
<1>9. ASSUME NEW d \in 1..depth', Woken(d)' PROVE Reported(d)'
  <2>1. CASE d = depth
    BY <1>3, <1>8, <2>1 DEF Reported, Tells, Pos, SameCalls
  <2>2. CASE d # depth
    <3>1. d \in 1..depth /\ d < depth /\ d \in 0..MaxDepth
      BY <1>2, <1>3, <2>2, MaxDepthAssumption DEF SameCalls
    <3>2. Reported(d)
      BY <3>1 DEF DispatchInv, Woken
    <3> QED
      BY <1>1, <1>3, <2>2, <3>1, <3>2, ReportedKept
         DEF SameCalls, IInv, handleVars
  <2> QED
    BY <2>1, <2>2
<1>10. ASSUME NEW d \in 1..MaxDepth, ~(d <= depth' /\ Woken(d)')
       PROVE  mask'[d] = {}
  BY <1>3, <1>10 DEF DispatchInv, Woken, SameCalls
<1> QED
  BY <1>9, <1>10 DEF DispatchInv

\* endWait() of one argument.
LEMMA DispatchOne ==
    ASSUME Setting, IInv, FreshHandles, DispatchInv,
           EndWaitNoEvent \/ EndWaitEvent
    PROVE  DispatchInv'
<1>1. /\ main = "endWait" /\ SameCalls /\ happened' = happened
      /\ idx' = [idx EXCEPT ![depth] = I + 1]
      /\ main' \in {AfterEndWait, "script"}
      /\ main' \in {"endWait", "done", "script"}
  BY DEF EndWaitNoEvent, EndWaitEvent, SameCalls, handleVars, AfterEndWait
<1>2. /\ depth \in 1..MaxDepth /\ depth \in 1..depth /\ Argc \in Slots
      /\ Pos(depth) = 1..Argc /\ Argc \in Nat /\ depth \in 0..MaxDepth
  BY <1>1, CallArgs, MaxItemAssumption, MaxDepthAssumption DEF Slots
<1>3. /\ I \in Pos(depth) /\ Arg = args[depth][I] /\ Arg \in Timeouts
  BY <1>1, CallArg
<1>4. /\ idx'[depth] = I + 1 /\ I \in Nat /\ I <= Argc
      /\ \A d \in 0..MaxDepth : d # depth => idx'[d] = idx[d]
  BY <1>1, <1>2, <1>3 DEF IInv, TypeOK
<1>5. Reported(depth) /\ idx[depth] = I /\ Len(args[depth]) = Argc
  BY <1>1, <1>2 DEF DispatchInv, Woken, I, Argc
<1>6. Tells(Arg)
  BY <1>3, <1>5 DEF Reported
<1>7. \A h \in Timeouts : canceled'[h] = canceled[h]
  <2>1. CASE EndWaitNoEvent
    BY <2>1 DEF EndWaitNoEvent, handleVars
  <2>2. CASE EndWaitEvent
    <3>1. ~canceled[Arg] /\ canceled' = [canceled EXCEPT ![Arg] = FALSE]
      BY <1>3, <2>2 DEF EndWaitEvent, HasEvent
    <3>2. canceled \in [Timeouts -> BOOLEAN]
      BY DEF IInv, TypeOK
    <3> QED
      BY <3>1, <3>2
  <2> QED
    BY <2>1, <2>2
<1>8. \A d \in 1..depth : \A i \in Pos(d) : args[d][i] \in Timeouts
  BY FrameFacts DEF IInv, Setting, Handles
<1>9. mask'[depth] = mask[depth] \cup (IF happened[Arg] THEN {I} ELSE {})
      /\ \A d \in 0..MaxDepth : d # depth => mask'[d] = mask[d]
  <2>1. mask \in [0..MaxDepth -> SUBSET Slots]
    BY DEF IInv, TypeOK
  <2>2. CASE EndWaitNoEvent
    <3>1. mask' = mask /\ canceled[Arg]
      BY <1>3, <2>2 DEF EndWaitNoEvent, HasEvent
    <3> QED
      BY <1>6, <3>1 DEF Tells
  <2>3. CASE EndWaitEvent
    <3>1. ~canceled[Arg] /\ mask' = [mask EXCEPT ![depth] = @ \cup {I}]
      BY <1>3, <2>3 DEF EndWaitEvent, HasEvent
    <3> QED
      BY <1>2, <1>6, <2>1, <3>1 DEF Tells
  <2> QED
    BY <2>2, <2>3
<1>10. Reported(depth)'
  <2>1. Pos(depth)' = Pos(depth) /\ depth' = depth /\ args' = args
    BY <1>1 DEF SameCalls, Pos
  <2>2. mask'[depth] = {i \in 1..I : happened[args[depth][i]]}
    <3>1. 1..I = (1..I-1) \cup {I}
      BY <1>2, <1>3, <1>4
    <3>2. mask[depth] = {i \in 1..I-1 : happened[args[depth][i]]}
      BY <1>5 DEF Reported
    <3> QED
      BY <1>3, <1>9, <3>1, <3>2
  <2>3. \A i \in Pos(depth) : happened'[args[depth][i]] <=> ~canceled'[args[depth][i]]
    BY <1>1, <1>2, <1>5, <1>7, <1>8 DEF Reported, Tells
  <2>4. \E i \in Pos(depth) : happened'[args[depth][i]]
    BY <1>1, <1>5 DEF Reported
  <2>5. idx'[depth] <= Len(args[depth]) + 1 /\ idx'[depth] - 1 = I
    BY <1>4, <1>5
  <2> QED
    BY <1>1, <2>1, <2>2, <2>3, <2>4, <2>5 DEF Reported, Tells
<1>11. ASSUME NEW d \in 1..depth', Woken(d)' PROVE Reported(d)'
  <2>1. CASE d = depth
    BY <1>1, <1>10, <2>1 DEF Reported, Tells, Pos, SameCalls
  <2>2. CASE d # depth
    <3>1. d \in 1..depth /\ d < depth /\ d \in 0..MaxDepth
      BY <1>1, <1>2, <2>2, MaxDepthAssumption DEF SameCalls
    <3>2. Reported(d)
      BY <3>1 DEF DispatchInv, Woken
    <3> QED
      BY <1>1, <1>4, <1>7, <1>8, <1>9, <2>2, <3>1, <3>2, ReportedKept
         DEF SameCalls, IInv
  <2> QED
    BY <2>1, <2>2
<1>12. ASSUME NEW d \in 1..MaxDepth, ~(d <= depth' /\ Woken(d)')
       PROVE  mask'[d] = {}
  <2>1. d # depth /\ ~(d <= depth /\ Woken(d)) /\ d \in 0..MaxDepth
    BY <1>1, <1>2, <1>12, MaxDepthAssumption DEF Woken, SameCalls
  <2> QED
    BY <1>9, <2>1 DEF DispatchInv
<1>13. main' = "done" => I' = Argc' + 1
  <2>1. I' = I + 1 /\ Argc' = Argc
    BY <1>1, <1>4 DEF SameCalls, I, Argc
  <2> QED
    BY <1>1, <1>2, <1>4, <2>1 DEF AfterEndWait
<1> QED
  BY <1>11, <1>12, <1>13 DEF DispatchInv

\* A call begins, or returns what it has to report.
LEMMA DispatchNesting ==
    ASSUME Setting, IInv, FreshHandles, DispatchInv,
           Return \/ \E a \in ArgLists : Call(a)
    PROVE  DispatchInv'
<1>1. \A d \in 1..depth : \A i \in Pos(d) : args[d][i] \in Timeouts
  BY FrameFacts DEF IInv, Setting, Handles
<1>2. depth \in 0..MaxDepth /\ MaxDepth \in Nat
  BY MaxDepthAssumption DEF IInv, TypeOK
<1>3. ASSUME NEW a \in ArgLists, Call(a) PROVE DispatchInv'
  <2>1. /\ main = "script" /\ main' = "thread" /\ depth' = depth + 1
        /\ depth < MaxDepth /\ idx' = idx /\ mask' = mask
        /\ canceled' = canceled /\ Fresh(a)
        /\ \A d \in 1..depth : args'[d] = args[d]
    BY <1>2, <1>3 DEF Call, IInv, TypeOK, Setting
  <2>2. \A h \in Timeouts : used[h] => happened'[h] = happened[h]
    <3>1. /\ happened' = [h \in Handles |->
                            happened[h] /\ ~ \E i \in DOMAIN a : a[i] = h]
          /\ \A i \in DOMAIN a : ~used[a[i]]
      BY <1>3, <2>1 DEF Call, Fresh
    <3>2. \A h \in Handles : happened[h] \in BOOLEAN
      BY DEF IInv, TypeOK
    <3>3. ASSUME NEW h \in Handles, used[h] PROVE happened'[h] = happened[h]
      <4>1. ~ \E i \in DOMAIN a : a[i] = h
        BY <3>1, <3>3
      <4>2. happened'[h] = (happened[h] /\ ~ \E i \in DOMAIN a : a[i] = h)
        BY <3>1
      <4> QED
        BY <3>2, <4>1, <4>2, Zenon
    <3> QED
      BY <3>3 DEF Handles
  <2>3. ASSUME NEW d \in 1..depth', Woken(d)' PROVE Reported(d)'
    <3>1. d \in 1..depth /\ Woken(d)
      BY <1>2, <2>1, <2>3 DEF Woken
    <3>2. Reported(d) /\ \A i \in Pos(d) : used[args[d][i]]
      BY <3>1 DEF DispatchInv, FreshHandles
    <3> QED
      BY <1>1, <2>1, <2>2, <3>1, <3>2, ReportedKept DEF IInv
  <2>4. ASSUME NEW d \in 1..MaxDepth, ~(d <= depth' /\ Woken(d)')
        PROVE  mask'[d] = {}
    <3>1. ~(d <= depth /\ Woken(d))
      BY <1>2, <2>1, <2>4 DEF Woken
    <3> QED
      BY <2>1, <3>1 DEF DispatchInv
  <2> QED
    BY <2>1, <2>3, <2>4 DEF DispatchInv
<1>4. CASE Return
  <2>1. depth \in 1..MaxDepth
    BY <1>2, <1>4 DEF Return, IInv, FrameInv, Releasing
  <2>2. /\ main = "done" /\ main' = "script" /\ depth' = depth - 1
        /\ happened' = happened /\ canceled' = canceled
        /\ mask'[depth] = {}
        /\ \A d \in 0..MaxDepth : d # depth =>
              args'[d] = args[d] /\ idx'[d] = idx[d] /\ mask'[d] = mask[d]
    BY <1>2, <1>4 DEF Return, PopFrame, IInv, TypeOK, handleVars
  <2>3. ASSUME NEW d \in 1..depth', Woken(d)' PROVE Reported(d)'
    <3>1. d \in 1..depth /\ d \in 0..MaxDepth /\ d < depth
      BY <1>2, <2>1, <2>2
    <3>2. Reported(d)
      BY <3>1 DEF DispatchInv, Woken
    <3> QED
      BY <2>2, <3>1, <3>2, ReportedKept DEF IInv
  <2>4. ASSUME NEW d \in 1..MaxDepth, ~(d <= depth' /\ Woken(d)')
        PROVE  mask'[d] = {}
    <3>1. CASE d = depth
      BY <2>2, <3>1
    <3>2. CASE d # depth
      <4>1. d > depth /\ d \in 0..MaxDepth
        BY <1>2, <2>1, <2>2, <2>4, <3>2 DEF Woken
      <4> QED
        BY <2>1, <2>2, <3>2, <4>1 DEF DispatchInv
    <3> QED
      BY <3>1, <3>2
  <2> QED
    BY <2>2, <2>3, <2>4 DEF DispatchInv
<1> QED
  BY <1>3, <1>4

\* Script between two calls, and the release of the pool.
LEMMA DispatchScript ==
    ASSUME Setting, IInv, FreshHandles, DispatchInv,
           \/ \E h \in Timeouts : NewTimeout(h)
           \/ CallbackReturns \/ BeginRelease
           \/ SkipSlot \/ SetEnd \/ WakeWorker \/ JoinWorker
    PROVE  DispatchInv'
<1>1. depth \in 0..MaxDepth /\ MaxDepth \in Nat /\ Len(args[depth]) \in Nat
  <2>1. depth \in 0..MaxDepth /\ MaxDepth \in Nat
    BY MaxDepthAssumption DEF IInv, TypeOK
  <2>2. args[depth] \in ArgLists \cup {<<>>}
    BY <2>1 DEF IInv, TypeOK
  <2>3. CASE args[depth] \in ArgLists
    BY <2>1, <2>3, ArgListFacts, MaxItemAssumption DEF Slots
  <2>4. CASE args[depth] = <<>>
    BY <2>1, <2>4
  <2> QED
    BY <2>1, <2>2, <2>3, <2>4
<1>2. SameCalls /\ mask' = mask
  BY DEF NewTimeout, Renew, CallbackReturns, BeginRelease, SkipSlot, SetEnd,
         WakeWorker, JoinWorker, NextSlot, SameCalls, stackVars
<1>3. CASE \/ \E h \in Timeouts : NewTimeout(h)
           \/ CallbackReturns
  <2>1. /\ main = "script" /\ main' \in {"script", "endWait", "done"}
        /\ idx' = idx
    BY <1>3 DEF NewTimeout, Renew, CallbackReturns, stackVars
  <2>2. \A d \in 1..depth : \A i \in Pos(d) :
           /\ happened'[args[d][i]] = happened[args[d][i]]
           /\ canceled'[args[d][i]] = canceled[args[d][i]]
    <3>1. CASE CallbackReturns
      BY <3>1 DEF CallbackReturns, handleVars
    <3>2. ASSUME NEW h \in Timeouts, NewTimeout(h)
          PROVE  \A d \in 1..depth : \A i \in Pos(d) :
                    /\ happened'[args[d][i]] = happened[args[d][i]]
                    /\ canceled'[args[d][i]] = canceled[args[d][i]]
      <4>1. \A g \in Timeouts : g # h => happened'[g] = happened[g]
                                         /\ canceled'[g] = canceled[g]
        BY <3>2 DEF NewTimeout, Renew, IInv, TypeOK, Handles
      <4>2. \A d \in 1..depth : \A i \in Pos(d) :
               args[d][i] # h /\ args[d][i] \in Timeouts
        BY <3>2, FrameFacts DEF NewTimeout, Renew, IInv, Setting, Handles
      <4> QED
        BY <4>1, <4>2
    <3> QED
      BY <1>3, <3>1, <3>2
  <2>3. ASSUME NEW d \in 1..depth', Woken(d)' PROVE Reported(d)'
    <3>1. d \in 1..depth /\ Reported(d)
      BY <1>2, <2>1, <2>3 DEF SameCalls, DispatchInv, Woken
    <3> QED
      BY <1>2, <2>1, <2>2, <3>1, ReportedKept DEF SameCalls, IInv
  <2>4. ASSUME NEW d \in 1..MaxDepth, ~(d <= depth' /\ Woken(d)')
        PROVE  mask'[d] = {}
    BY <1>2, <2>1, <2>4 DEF SameCalls, DispatchInv, Woken
  <2>5. main' = "done" => I' = Argc' + 1
    <3> SUFFICES ASSUME main' = "done" PROVE I = Argc + 1
      BY <1>2, <2>1 DEF SameCalls, I, Argc
    <3>1. CallbackReturns /\ depth > 0 /\ ~(I <= Argc)
      BY <1>3 DEF CallbackReturns, NewTimeout, Renew
    <3>2. Reported(depth)
      BY <1>1, <2>1, <3>1 DEF DispatchInv, Woken
    <3>3. I <= Argc + 1 /\ I \in Nat /\ Argc \in Nat
      BY <1>1, <3>2 DEF Reported, I, Argc, IInv, TypeOK
    <3> QED
      BY <3>1, <3>3
  <2> QED
    BY <2>3, <2>4, <2>5 DEF DispatchInv
<1>4. CASE BeginRelease \/ SkipSlot \/ SetEnd \/ WakeWorker \/ JoinWorker
  <2>1. depth = 0 /\ main' # "done"
    BY <1>4 DEF BeginRelease, SkipSlot, SetEnd, WakeWorker, JoinWorker,
                NextSlot, IInv, FrameInv, Releasing
  <2> QED
    BY <1>2, <2>1 DEF SameCalls, DispatchInv
<1> QED
  BY <1>3, <1>4

LEMMA DispatchStep ==
    ASSUME Setting, IInv, IInv', CallInv, [Next]_vars
    PROVE  DispatchInv'
<1> USE DEF CallInv
<1>1. CASE Script
  <2>1. CASE \E h \in SemEvents : NewSemEvents(h)
    BY <2>1 DEF Setting
  <2> QED
    BY <1>1, <2>1, DispatchNesting, DispatchScript DEF Script
<1>2. CASE MainStep
  <2>1. CASE \/ StartThread \/ SetSlot \/ ReleaseStart \/ WaitSignal
             \/ RepostSignal \/ CheckSlot \/ CancelTimeout
             \/ Collect /\ main' # "endWait"
    <3>1. /\ SameCalls /\ mask' = mask
          /\ canceled' = canceled /\ happened' = happened
      BY <2>1 DEF StartThread, SetSlot, ReleaseStart, WaitSignal, RepostSignal,
           CheckSlot, CancelTimeout, Collect, NextArg, SameCalls, stackVars,
           handleVars
    <3>2. main \in Starting \cup Waiting /\ main' \in Starting \cup Waiting
      BY <2>1 DEF StartThread, SetSlot, ReleaseStart, WaitSignal, RepostSignal,
           CheckSlot, CancelTimeout, Collect, NextArg, Starting, Waiting
    <3>3. \A d \in 0..MaxDepth : d # depth => idx'[d] = idx[d]
      BY <2>1 DEF StartThread, SetSlot, ReleaseStart, WaitSignal, RepostSignal,
           CheckSlot, CancelTimeout, Collect, NextArg, stackVars, IInv, TypeOK
    <3> QED
      BY <3>1, <3>2, <3>3, DispatchWaiting
  <2>2. CASE Collect /\ main' = "endWait"
    BY <2>2, DispatchBegins DEF IInv
  <2>3. CASE StartThreadFails \/ CancelSem \/ KillSlot \/ KillSignal
             \/ KillThread \/ KillJoin
    <3>1. 1 \in Slots
      BY MaxItemAssumption DEF Slots
    <3> QED
      BY <2>3, <3>1 DEF StartThreadFails, CancelSem, KillSlot, KillSignal,
           KillThread, KillJoin, Setting, IInv, SlotInv, Killing
  <2> QED
    BY <1>2, <2>1, <2>2, <2>3, DispatchOne, DispatchNesting, DispatchScript
       DEF MainStep
<1>3. ASSUME NEW i \in Slots, WorkerStep(i) PROVE DispatchInv'
  <2>1. /\ SameCalls /\ main' = main /\ idx' = idx /\ mask' = mask
        /\ ~TakeSem(i)
    BY <1>3 DEF WorkerStep, AcquireStart, Exit, BeginWait, WaitCanceled,
         WaitTimedOut, TakeSem, SetHasEvent, ClearSlot, Signal, Die,
         UseFinalized, SameCalls,
         stackVars, Setting
  <2>2. CASE WaitCanceled(i) \/ WaitTimedOut(i)
    <3>1. /\ worker[i] = "waiting"
          /\ \A h \in Timeouts : h # cur[i] => canceled'[h] = canceled[h]
      BY <2>2 DEF WaitCanceled, WaitTimedOut, IInv, TypeOK
    <3>2. \A h \in Timeouts : h # cur[i] => happened'[h] = happened[h]
      <4>1. CASE WaitCanceled(i)
        BY <4>1 DEF WaitCanceled
      <4>2. CASE WaitTimedOut(i)
        BY <4>2 DEF WaitTimedOut, IInv, TypeOK, Handles
      <4> QED
        BY <2>2, <4>1, <4>2
    <3>3. /\ main \in Starting \cup Waiting /\ i \in Pos(depth)
          /\ cur[i] = args[depth][i]
      BY <3>1, WorkerHandle
    <3> QED
      BY <2>1, <3>1, <3>2, <3>3, DispatchWaiting
  <2>3. CASE ~WaitCanceled(i) /\ ~WaitTimedOut(i)
    <3>1. happened' = happened /\ canceled' = canceled
      BY <1>3, <2>1, <2>3 DEF WorkerStep, AcquireStart, Exit, BeginWait,
           SetHasEvent, ClearSlot, Signal, Die, UseFinalized, handleVars
    <3> QED
      BY <2>1, <3>1 DEF DispatchInv, Reported, Woken, Tells, Pos, I, Argc,
                        SameCalls
  <2> QED
    BY <2>2, <2>3
<1>4. CASE \E h \in SemEvents : Post(h)
  BY <1>4 DEF Setting
<1>5. CASE UNCHANGED vars
  BY <1>5 DEF vars, stackVars, handleVars, DispatchInv, Reported, Woken, Tells,
              Pos, I, Argc
<1> QED
  BY <1>1, <1>2, <1>3, <1>4, <1>5 DEF Next, Terminated

\* The invariant of calls and their handles holds in every reachable state.
LEMMA CallInductive == Setting => (Spec => [](IInv /\ CallInv))
<1> SUFFICES ASSUME Setting PROVE Spec => [](IInv /\ CallInv)
  OBVIOUS
<1>1. Init => CallInv
  BY CallInvInit
<1>2. IInv /\ IInv' /\ CallInv /\ [Next]_vars => CallInv'
  BY SlotHandlesStep, FreshStep, WaitStep, DispatchStep DEF CallInv, Setting
<1>3. Spec => []IInv
  BY Inductive DEF Setting
<1> QED
  BY <1>1, <1>2, <1>3, PTL DEF Spec

\* A call returns only because of some event ("Passive event waiting").
THEOREM CallsWaitForEvents == Setting => (Spec => []WaitsForAnEvent)
<1> SUFFICES ASSUME Setting PROVE Spec => []WaitsForAnEvent
  OBVIOUS
<1>1. ASSUME IInv, CallInv PROVE WaitsForAnEvent
  <2> SUFFICES ASSUME main = "done" PROVE mask[depth] # {}
    BY DEF WaitsForAnEvent
  <2>1. depth \in 1..depth
    BY <1>1, MaxDepthAssumption DEF IInv, TypeOK, FrameInv, Releasing
  <2>2. Reported(depth) /\ I = Argc + 1
    BY <1>1, <2>1 DEF CallInv, DispatchInv, Woken
  <2>3. Argc \in Nat
    BY <1>1, <2>1, FrameFacts, MaxItemAssumption DEF IInv, Argc, Slots
  <2>4. 1..idx[depth]-1 = Pos(depth)
    BY <2>2, <2>3 DEF I, Argc, Pos
  <2> QED
    BY <2>2, <2>4 DEF Reported
<1> QED
  BY <1>1, CallInductive, PTL

\* What a call returns names exactly the arguments whose event ended their
\* wait ("the bit field that represents the index of the triggered events").
THEOREM ReportIsExact == Setting => (Spec => []ReportsExactlyEvents)
<1> SUFFICES ASSUME Setting PROVE Spec => []ReportsExactlyEvents
  OBVIOUS
<1>1. ASSUME IInv, CallInv PROVE ReportsExactlyEvents
  <2> SUFFICES ASSUME main = "done"
               PROVE  mask[depth] = {i \in 1..Argc : happened[args[depth][i]]}
    BY DEF ReportsExactlyEvents
  <2>1. depth \in 1..depth
    BY <1>1, MaxDepthAssumption DEF IInv, TypeOK, FrameInv, Releasing
  <2>2. Reported(depth) /\ I = Argc + 1
    BY <1>1, <2>1 DEF CallInv, DispatchInv, Woken
  <2>3. Argc \in Nat
    BY <1>1, <2>1, FrameFacts, MaxItemAssumption DEF IInv, Argc, Slots
  <2>4. 1..idx[depth]-1 = 1..Argc
    BY <2>2, <2>3 DEF I
  <2> QED
    BY <2>2, <2>4 DEF Reported
<1> QED
  BY <1>1, CallInductive, PTL

-----------------------------------------------------------------------------
(* The multiplexer implements WaitAny.                                      *)

\* The script thread's program counter gives the phase of WaitAny.
LEMMA PhaseFacts ==
    ASSUME main \in MainPC, main \notin Killing
    PROVE  /\ main = "script" <=> Phase = "script"
           /\ main \in {"endWait", "done"} <=> Phase = "dispatching"
           /\ main \in Starting \cup Waiting <=> Phase = "waiting"
           /\ main \in Releasing <=> Phase = "ended"
BY DEF Phase, MainPC, Killing, Starting, Waiting, Releasing

\* The events of a call are those of its arguments.
LEMMA EventsOf ==
    ASSUME TypeOK, FrameInv, NEW d \in 1..MaxDepth
    PROVE  Events[d] = IF d <= depth
                       THEN {i \in Pos(d) : happened[args[d][i]]} ELSE {}
<1>1. depth \in Nat /\ MaxDepth \in Nat
  BY MaxDepthAssumption DEF TypeOK
<1>2. CASE d <= depth
  <2>1. DOMAIN args[d] = Pos(d)
    BY <1>1, <1>2, FrameFacts
  <2> QED
    BY <1>2, <2>1 DEF Events
<1>3. CASE ~(d <= depth)
  BY <1>3 DEF Events
<1> QED
  BY <1>2, <1>3

\* The events of the calls stay while the handles of the calls do.
LEMMA EventsKept ==
    ASSUME TypeOK, FrameInv, SameCalls,
           \A d \in 1..depth : \A i \in Pos(d) :
              happened'[args[d][i]] = happened[args[d][i]]
    PROVE  Events' = Events
<1>1. depth \in Nat /\ MaxDepth \in Nat
  BY MaxDepthAssumption DEF TypeOK
<1>2. ASSUME NEW d \in 1..MaxDepth, d <= depth
      PROVE  {i \in DOMAIN args[d] : happened'[args[d][i]]}
               = {i \in DOMAIN args[d] : happened[args[d][i]]}
  <2>1. d \in 1..depth /\ DOMAIN args[d] = Pos(d)
    BY <1>1, <1>2, FrameFacts
  <2> QED
    BY <2>1
<1> QED
  BY <1>2 DEF Events, SameCalls

\* Of the calls that wait the position to dispatch is not visible.
LEMMA NextKept ==
    ASSUME depth' = depth, Phase' = Phase,
           \A d \in 1..MaxDepth :
              d # depth \/ Phase # "waiting" => idx'[d] = idx[d]
    PROVE  NextToDispatch' = NextToDispatch
BY DEF NextToDispatch

\* The mapping restricts the functions of the stack to the frames of calls; an
\* update of one frame is one of the restriction.
LEMMA OneFrame ==
    ASSUME NEW f, NEW g, NEW e \in 1..MaxDepth,
           \A d \in 1..MaxDepth : d # e => g[d] = f[d]
    PROVE  [d \in 1..MaxDepth |-> g[d]]
             = [[d \in 1..MaxDepth |-> f[d]] EXCEPT ![e] = g[e]]
OBVIOUS

\* A step that changes no phase, no call and no event is none of WaitAny.
LEMMA Stutters ==
    ASSUME TypeOK, FrameInv, SameCalls, mask' = mask, Phase' = Phase,
           \A d \in 1..MaxDepth :
              d # depth \/ Phase # "waiting" => idx'[d] = idx[d],
           \A d \in 1..depth : \A i \in Pos(d) :
              happened'[args[d][i]] = happened[args[d][i]]
    PROVE  UNCHANGED WaitAnySpec!vars
BY EventsKept, NextKept DEF WaitAnySpec!vars, SameCalls

\* Before the first call nothing waits and nothing is reported.
LEMMA RefinesInit == Init => WaitAnySpec!Init
<1> SUFFICES ASSUME Init PROVE WaitAnySpec!Init
  OBVIOUS
<1>1. main = "script" /\ depth = 0 /\ Phase = "script"
  BY DEF Init, Phase
<1>2. Events = [d \in 1..MaxDepth |-> {}]
  BY <1>1 DEF Events
<1>3. NextToDispatch = [d \in 1..MaxDepth |-> 1]
  BY <1>1, MaxDepthAssumption DEF NextToDispatch, Init
<1>4. [d \in 1..MaxDepth |-> args[d]] = [d \in 1..MaxDepth |-> <<>>]
  BY MaxDepthAssumption DEF Init
<1>5. [d \in 1..MaxDepth |-> mask[d]] = [d \in 1..MaxDepth |-> {}]
  BY MaxDepthAssumption DEF Init
<1> QED
  BY <1>1, <1>2, <1>3, <1>4, <1>5 DEF WaitAnySpec!Init

\* Script makes a call.
LEMMA RefinesCall ==
    ASSUME Setting, IInv, IInv', CallInv, NEW a \in ArgLists, Call(a)
    PROVE  WaitAnySpec!Call(a)
<1>1. /\ main = "script" /\ main' = "thread" /\ depth' = depth + 1
      /\ depth < MaxDepth /\ idx' = idx /\ mask' = mask /\ Fresh(a)
      /\ args' = [args EXCEPT ![depth + 1] = a]
      /\ happened' = [h \in Handles |->
                        happened[h] /\ ~ \E i \in DOMAIN a : a[i] = h]
  BY DEF Call, Setting
<1>2. depth \in Nat /\ MaxDepth \in Nat /\ depth + 1 \in 1..MaxDepth
  BY <1>1, MaxDepthAssumption DEF IInv, TypeOK
<1>3. Phase = "script" /\ Phase' = "waiting"
  BY <1>1 DEF Phase
<1>4. [d \in 1..MaxDepth |-> args'[d]]
        = [[d \in 1..MaxDepth |-> args[d]] EXCEPT ![depth + 1] = a]
  <2>1. args'[depth + 1] = a /\ \A d \in 1..MaxDepth : d # depth + 1 => args'[d] = args[d]
    BY <1>1, <1>2 DEF IInv, TypeOK
  <2> QED
    BY <1>2, <2>1, OneFrame
<1>5. /\ args'[depth + 1] = a
      /\ \A d \in 1..depth : args'[d] = args[d]
  BY <1>1, <1>2 DEF IInv, TypeOK
<1>6. NextToDispatch' = NextToDispatch
  <2>1. \A d \in 1..MaxDepth :
           NextToDispatch'[d] = NextToDispatch[d]
    <3>1. idx[depth + 1] = 1
      BY <1>2 DEF IInv, FrameInv
    <3> QED
      BY <1>1, <1>2, <1>3, <3>1 DEF NextToDispatch
  <2> QED
    BY <2>1 DEF NextToDispatch
<1>7. Events' = Events
  <2>1. ASSUME NEW d \in 1..MaxDepth PROVE Events'[d] = Events[d]
    <3>1. CASE d <= depth
      <4>1. d \in 1..depth /\ d <= depth'
        BY <1>1, <1>2, <3>1
      <4>2. \A i \in Pos(d) :
               happened'[args[d][i]] <=> happened[args[d][i]]
        <5>1. \A i \in Pos(d) : args[d][i] \in Handles /\ used[args[d][i]]
          BY <4>1, FrameFacts DEF IInv, CallInv, FreshHandles
        <5>2. \A i \in Pos(d) : ~ \E j \in DOMAIN a : a[j] = args[d][i]
          BY <1>1, <5>1 DEF Fresh
        <5> QED
          BY <1>1, <5>1, <5>2
      <4>3. Events[d] = {i \in Pos(d) : happened[args[d][i]]}
        BY <3>1, EventsOf DEF IInv
      <4>4. Events'[d] = {i \in Pos(d) : happened'[args[d][i]]}
        BY <1>5, <4>1, FrameFacts DEF Events, IInv
      <4> QED
        BY <4>2, <4>3, <4>4
    <3>2. CASE d = depth + 1
      <4>1. \A i \in DOMAIN a : a[i] \in Handles
        BY ArgListFacts
      <4>2. \A i \in DOMAIN a : ~happened'[a[i]]
        BY <1>1, <4>1, Zenon
      <4>3. Events'[d] = {i \in DOMAIN a : happened'[a[i]]}
        BY <1>1, <1>2, <1>5, <3>2 DEF Events
      <4>4. Events[d] = {}
        BY <1>2, <3>2 DEF Events
      <4> QED
        BY <4>2, <4>3, <4>4
    <3>3. CASE d > depth + 1
      BY <1>1, <1>2, <3>3 DEF Events
    <3> QED
      BY <1>2, <3>1, <3>2, <3>3
  <2> QED
    BY <2>1 DEF Events
<1> QED
  BY <1>1, <1>3, <1>4, <1>6, <1>7 DEF WaitAnySpec!Call

\* The last token is collected: WaitAny wakes.
LEMMA RefinesWake ==
    ASSUME Setting, IInv, CallInv, Collect, main' = "endWait"
    PROVE  WaitAnySpec!Wake
<1>1. /\ main = "collect" /\ main \in Waiting \ {"wait"} /\ main \in Waiting
      /\ NextArg("collect", "endWait")
      /\ happened' = happened
  BY DEF Collect, handleVars, Waiting
<1>2. depth \in 1..MaxDepth /\ depth \in 1..depth /\ depth <= depth
  BY <1>1, CallArgs
<1>3. SameCalls /\ mask' = mask /\ I' = 1
      /\ \A d \in 1..MaxDepth : d # depth => idx'[d] = idx[d]
  <2>1. I' = (IF I < Argc THEN I + 1 ELSE 1)
        /\ main' = (IF I < Argc THEN "collect" ELSE "endWait")
    BY <1>1, NextArgStep DEF IInv, Waiting
  <2> QED
    BY <1>1, <2>1 DEF NextArg, SameCalls, IInv, TypeOK
<1>4. Phase = "waiting" /\ Phase' = "dispatching"
  BY <1>1 DEF Phase
<1>5. Events' = Events
  BY <1>1, <1>3, EventsKept DEF IInv
<1>6. Events[depth] # {}
  <2>1. \E i \in Pos(depth) : happened[args[depth][i]]
    BY <1>1 DEF CallInv, WaitInv
  <2>2. Events[depth] = {i \in Pos(depth) : happened[args[depth][i]]}
    BY <1>2, EventsOf DEF IInv
  <2> QED
    BY <2>1, <2>2
<1>7. NextToDispatch' = NextToDispatch
  <2>1. idx'[depth] = 1
    BY <1>3 DEF I, SameCalls
  <2>2. \A d \in 1..MaxDepth : NextToDispatch'[d] = NextToDispatch[d]
    BY <1>2, <1>3, <1>4, <2>1 DEF NextToDispatch, SameCalls
  <2> QED
    BY <2>2 DEF NextToDispatch
<1> QED
  BY <1>3, <1>4, <1>5, <1>6, <1>7 DEF WaitAnySpec!Wake, SameCalls

\* The endWait() of an argument: it is dispatched.
LEMMA RefinesDispatch ==
    ASSUME Setting, IInv, CallInv, EndWaitNoEvent \/ EndWaitEvent
    PROVE  WaitAnySpec!Dispatch
<1>1. /\ main = "endWait" /\ SameCalls /\ happened' = happened
      /\ idx' = [idx EXCEPT ![depth] = I + 1]
      /\ main' \in {"endWait", "done", "script"}
  BY DEF EndWaitNoEvent, EndWaitEvent, SameCalls, handleVars, AfterEndWait
<1>2. /\ depth \in 1..MaxDepth /\ depth \in 1..depth /\ depth \in 0..MaxDepth
      /\ I \in Pos(depth) /\ Arg = args[depth][I] /\ Arg \in Timeouts
      /\ Argc \in Nat /\ I \in Nat /\ I <= Argc /\ Pos(depth) = 1..Argc
      /\ depth <= depth
  BY <1>1, CallArg, CallArgs, MaxItemAssumption, MaxDepthAssumption
     DEF Slots, CallInv
<1>3. Phase = "dispatching" /\ Phase' \in {"dispatching", "script"}
      /\ (main' # "script" => Phase' = "dispatching")
  BY <1>1 DEF Phase
<1>4. /\ NextToDispatch = [d \in 1..MaxDepth |-> idx[d]]
      /\ NextToDispatch' = [d \in 1..MaxDepth |-> idx'[d]]
      /\ NextToDispatch[depth] = I
  BY <1>2, <1>3 DEF NextToDispatch, I
<1>5. NextToDispatch' = [NextToDispatch EXCEPT ![depth] = @ + 1]
  <2>1. idx'[depth] = I + 1 /\ \A d \in 1..MaxDepth : d # depth => idx'[d] = idx[d]
    BY <1>1, <1>2 DEF IInv, TypeOK
  <2>2. [d \in 1..MaxDepth |-> idx'[d]]
          = [[d \in 1..MaxDepth |-> idx[d]] EXCEPT ![depth] = I + 1]
    BY <1>2, <2>1, OneFrame
  <2> QED
    BY <1>4, <2>2
<1>6. Events' = Events
  BY <1>1, EventsKept DEF IInv
<1>7. I \in Events[depth] <=> happened[Arg]
  BY <1>2, EventsOf DEF IInv
<1>8. happened[Arg] <=> ~canceled[Arg]
  BY <1>1, <1>2 DEF CallInv, DispatchInv, Woken, Reported, Tells
<1>9. CASE EndWaitNoEvent
  <2>1. mask' = mask /\ canceled[Arg] /\ main' # "script"
    BY <1>2, <1>9 DEF EndWaitNoEvent, HasEvent, AfterEndWait
  <2> QED
    BY <1>1, <1>2, <1>3, <1>4, <1>5, <1>6, <1>7, <1>8, <2>1
       DEF WaitAnySpec!Dispatch, SameCalls, Argc
<1>10. CASE EndWaitEvent
  <2>1. ~canceled[Arg] /\ mask' = [mask EXCEPT ![depth] = @ \cup {I}]
    BY <1>2, <1>10 DEF EndWaitEvent, HasEvent
  <2>2. [d \in 1..MaxDepth |-> mask'[d]]
          = [[d \in 1..MaxDepth |-> mask[d]] EXCEPT ![depth] = @ \cup {I}]
    <3>1. /\ mask'[depth] = mask[depth] \cup {I}
          /\ \A d \in 1..MaxDepth : d # depth => mask'[d] = mask[d]
      BY <1>2, <2>1 DEF IInv, TypeOK
    <3>2. [d \in 1..MaxDepth |-> mask'[d]]
            = [[d \in 1..MaxDepth |-> mask[d]] EXCEPT
                 ![depth] = mask[depth] \cup {I}]
      BY <1>2, <3>1, OneFrame
    <3> QED
      BY <1>2, <3>2
  <2> QED
    BY <1>1, <1>2, <1>3, <1>4, <1>5, <1>6, <1>7, <1>8, <2>1, <2>2
       DEF WaitAnySpec!Dispatch, SameCalls, Argc
<1> QED
  BY <1>9, <1>10

\* The call returns: all its handles are dispatched, and what it reports are
\* its events.
LEMMA RefinesReturn ==
    ASSUME Setting, IInv, CallInv, Return
    PROVE  WaitAnySpec!Return
<1>1. /\ main = "done" /\ main' = "script" /\ depth' = depth - 1
      /\ happened' = happened
      /\ args' = [args EXCEPT ![depth] = <<>>]
      /\ idx' = [idx EXCEPT ![depth] = 1]
      /\ mask' = [mask EXCEPT ![depth] = {}]
  BY DEF Return, PopFrame, handleVars
<1>2. /\ depth \in 1..MaxDepth /\ depth \in 1..depth /\ depth \in 0..MaxDepth
      /\ depth <= depth /\ MaxDepth \in Nat
  BY <1>1, MaxDepthAssumption DEF IInv, TypeOK, FrameInv, Releasing
<1>3. Phase = "dispatching" /\ Phase' = "script"
  BY <1>1 DEF Phase
<1>4. Reported(depth) /\ idx[depth] = Argc + 1 /\ Argc = Len(args[depth])
      /\ Argc \in Nat
  <2>1. Argc \in Nat
    BY <1>2, FrameFacts, MaxItemAssumption DEF IInv, Argc, Slots
  <2> QED
    BY <1>1, <1>2, <2>1 DEF CallInv, DispatchInv, Woken, I, Argc
<1>5. /\ args'[depth] = <<>> /\ idx'[depth] = 1 /\ mask'[depth] = {}
      /\ \A d \in 1..MaxDepth : d # depth =>
            args'[d] = args[d] /\ idx'[d] = idx[d] /\ mask'[d] = mask[d]
  BY <1>1, <1>2 DEF IInv, TypeOK
<1>6. /\ NextToDispatch = [d \in 1..MaxDepth |-> idx[d]]
      /\ NextToDispatch' = [d \in 1..MaxDepth |-> idx'[d]]
  BY <1>3 DEF NextToDispatch
<1>7. NextToDispatch' = [NextToDispatch EXCEPT ![depth] = 1]
  <2>1. [d \in 1..MaxDepth |-> idx'[d]]
          = [[d \in 1..MaxDepth |-> idx[d]] EXCEPT ![depth] = idx'[depth]]
    BY <1>2, <1>5, OneFrame
  <2> QED
    BY <1>5, <1>6, <2>1
<1>8. [d \in 1..MaxDepth |-> args'[d]]
        = [[d \in 1..MaxDepth |-> args[d]] EXCEPT ![depth] = <<>>]
  BY <1>2, <1>5, OneFrame
<1>9. [d \in 1..MaxDepth |-> mask'[d]]
        = [[d \in 1..MaxDepth |-> mask[d]] EXCEPT ![depth] = {}]
  BY <1>2, <1>5, OneFrame
<1>10. Events[depth] = mask[depth]
  <2>1. Events[depth] = {i \in Pos(depth) : happened[args[depth][i]]}
    BY <1>2, EventsOf DEF IInv
  <2>2. 1..idx[depth]-1 = Pos(depth)
    BY <1>4 DEF Pos
  <2> QED
    BY <1>4, <2>1, <2>2 DEF Reported
<1>11. Events' = [Events EXCEPT ![depth] = {}]
  <2>1. ASSUME NEW d \in 1..MaxDepth
        PROVE  Events'[d] = (IF d = depth THEN {} ELSE Events[d])
    <3>1. CASE d >= depth
      BY <1>1, <1>2, <3>1 DEF Events
    <3>2. CASE d < depth
      <4>1. d <= depth /\ d <= depth' /\ args'[d] = args[d]
        BY <1>1, <1>2, <1>5, <3>2
      <4>2. Events'[d] = {i \in DOMAIN args'[d] : happened'[args'[d][i]]}
        BY <4>1 DEF Events
      <4>3. Events[d] = {i \in DOMAIN args[d] : happened[args[d][i]]}
        BY <4>1 DEF Events
      <4> QED
        BY <1>1, <3>2, <4>1, <4>2, <4>3
    <3> QED
      BY <1>2, <3>1, <3>2
  <2> QED
    BY <1>2, <2>1 DEF Events
<1>12. NextToDispatch[depth] > Len(args[depth])
  BY <1>2, <1>4, <1>6
<1> QED
  BY <1>1, <1>2, <1>3, <1>7, <1>8, <1>9, <1>10, <1>11, <1>12
     DEF WaitAnySpec!Return

\* The time of a thread's timeout is over: an event of the call in progress
\* occurs.
LEMMA RefinesOccur ==
    ASSUME Setting, IInv, CallInv, NEW i \in Slots, WaitTimedOut(i)
    PROVE  WaitAnySpec!Occur(i)
<1>1. /\ worker[i] = "waiting" /\ SameCalls /\ main' = main /\ idx' = idx
      /\ mask' = mask
      /\ happened' = [happened EXCEPT ![cur[i]] = TRUE]
  BY DEF WaitTimedOut, SameCalls, stackVars
<1>2. /\ main \in Starting \cup Waiting
      /\ main \in Starting => i < I
      /\ depth \in 1..MaxDepth /\ i \in Pos(depth)
      /\ peSlot[i] # NULL /\ cur[i] = args[depth][i] /\ cur[i] \in Timeouts
  BY <1>1, WorkerHandle DEF CallInv
<1>3. Phase = "waiting" /\ Phase' = "waiting"
  <2>1. main \in MainPC /\ main \notin Killing
    BY <1>2 DEF Starting, Waiting, MainPC, Killing
  <2> QED
    BY <1>1, <1>2, <2>1, PhaseFacts DEF Phase
<1>4. depth \in 1..depth /\ depth <= depth
  BY <1>2, MaxDepthAssumption
<1>5. Unsettled(i) /\ ~happened[cur[i]]
  BY <1>1, <1>2 DEF Unsettled, CallInv, WaitInv
<1>6. Events[depth] = {j \in Pos(depth) : happened[args[depth][j]]}
  BY <1>2, <1>4, EventsOf DEF IInv
<1>7. happened'[cur[i]]
      /\ \A h \in Handles : h # cur[i] => happened'[h] = happened[h]
  BY <1>1, <1>2 DEF IInv, TypeOK, Handles
<1>8. \A d \in 1..depth : \A j \in Pos(d) :
         /\ args[d][j] \in Handles
         /\ args[d][j] = cur[i] => d = depth /\ j = i
  BY <1>2, <1>4, FrameFacts DEF IInv, CallInv, FreshHandles
<1>9. Events' = [Events EXCEPT ![depth] = @ \cup {i}]
  <2>1. ASSUME NEW d \in 1..MaxDepth
        PROVE  Events'[d] = (IF d = depth THEN Events[d] \cup {i}
                                          ELSE Events[d])
    <3>1. CASE d <= depth
      <4>1. d \in 1..depth
        BY <1>2, <3>1, MaxDepthAssumption
      <4>2. Events[d] = {j \in Pos(d) : happened[args[d][j]]}
        BY <3>1, EventsOf DEF IInv
      <4>3. Events'[d] = {j \in Pos(d) : happened'[args[d][j]]}
        BY <1>1, <3>1, <4>1, FrameFacts DEF Events, IInv, SameCalls
      <4>4. CASE d = depth
        <5>1. \A j \in Pos(d) : j # i =>
                 happened'[args[d][j]] = happened[args[d][j]]
          BY <1>7, <1>8, <4>1
        <5> QED
          BY <1>2, <1>7, <4>2, <4>3, <4>4, <5>1
      <4>5. CASE d # depth
        <5>1. \A j \in Pos(d) : happened'[args[d][j]] = happened[args[d][j]]
          BY <1>7, <1>8, <4>1, <4>5
        <5> QED
          BY <4>2, <4>3, <4>5, <5>1
      <4> QED
        BY <4>4, <4>5
    <3>2. CASE ~(d <= depth)
      BY <1>1, <1>4, <3>2 DEF Events, SameCalls
    <3> QED
      BY <3>1, <3>2
  <2> QED
    BY <1>2, <2>1 DEF Events
<1>10. NextToDispatch' = NextToDispatch
  BY <1>1, <1>3, NextKept DEF SameCalls
<1>11. i \notin Events[depth]
  BY <1>2, <1>5, <1>6
<1> QED
  BY <1>1, <1>3, <1>9, <1>10, <1>11 DEF WaitAnySpec!Occur, SameCalls

\* What script does between two calls.
LEMMA RefinesScript ==
    ASSUME Setting, IInv, IInv', CallInv, Script
    PROVE  [WaitAnySpec!Next]_WaitAnySpec!vars
<1>1. CASE \E a \in ArgLists : Call(a)
  <2>1. PICK a \in ArgLists : Call(a)
    BY <1>1
  <2>2. WaitAnySpec!Call(a)
    BY <2>1, RefinesCall
  <2>3. WaitAnySpec!ArgLists = ArgLists
    BY DEF WaitAnySpec!ArgLists, ArgLists, WaitAnySpec!Slots, Slots
  <2> QED
    BY <2>2, <2>3 DEF WaitAnySpec!Next
<1>2. ASSUME NEW h \in Timeouts, NewTimeout(h)
      PROVE  UNCHANGED WaitAnySpec!vars
  <2>1. /\ main' = main /\ SameCalls /\ mask' = mask /\ idx' = idx
        /\ happened' = [happened EXCEPT ![h] = FALSE]
        /\ \A d \in 1..depth : \A i \in DOMAIN args[d] : args[d][i] # h
    BY <1>2 DEF NewTimeout, Renew, stackVars, SameCalls
  <2>2. \A d \in 1..depth : \A i \in Pos(d) :
           args[d][i] \in Handles /\ args[d][i] # h
    BY <2>1, FrameFacts DEF IInv
  <2>3. \A g \in Handles : g # h => happened'[g] = happened[g]
    BY <2>1 DEF IInv, TypeOK
  <2>4. Phase' = Phase
    BY <2>1 DEF Phase
  <2> QED
    BY <2>1, <2>2, <2>3, <2>4, Stutters DEF IInv
<1>3. CASE CallbackReturns \/ BeginRelease
  <2>1. /\ main = "script" /\ SameCalls /\ mask' = mask /\ idx' = idx
        /\ happened' = happened /\ Phase = "script"
    BY <1>3 DEF CallbackReturns, BeginRelease, stackVars, handleVars, SameCalls,
                Phase
  <2>2. Events' = Events
    BY <2>1, EventsKept DEF IInv
  <2>3. Phase' \in {"dispatching", "ended"}
    BY <1>3 DEF CallbackReturns, BeginRelease, Phase
  <2>4. NextToDispatch' = NextToDispatch
    BY <2>1, <2>3 DEF NextToDispatch
  <2>5. CASE CallbackReturns
    <3>1. depth > 0 /\ Phase' = "dispatching"
      BY <2>5 DEF CallbackReturns, Phase
    <3> QED
      BY <2>1, <2>2, <2>4, <3>1
         DEF WaitAnySpec!Resume, WaitAnySpec!Next, SameCalls
  <2>6. CASE BeginRelease
    <3>1. depth = 0 /\ Phase' = "ended"
      BY <2>6 DEF BeginRelease, Phase
    <3> QED
      BY <2>1, <2>2, <2>4, <3>1
         DEF WaitAnySpec!End, WaitAnySpec!Next, SameCalls
  <2> QED
    BY <1>3, <2>5, <2>6
<1>4. CASE \E h \in SemEvents : NewSemEvents(h)
  BY <1>4 DEF Setting
<1> QED
  BY <1>1, <1>2, <1>3, <1>4 DEF Script

\* What processEvents() and the release of the module do.
LEMMA RefinesMain ==
    ASSUME Setting, IInv, CallInv, MainStep
    PROVE  [WaitAnySpec!Next]_WaitAnySpec!vars
<1>1. CASE \/ StartThread \/ SetSlot \/ ReleaseStart \/ WaitSignal
           \/ RepostSignal \/ CheckSlot \/ CancelTimeout
           \/ Collect /\ main' # "endWait"
  <2>1. SameCalls /\ mask' = mask /\ happened' = happened
    BY <1>1 DEF StartThread, SetSlot, ReleaseStart, WaitSignal, RepostSignal,
         CheckSlot, CancelTimeout, Collect, NextArg, SameCalls, stackVars,
         handleVars
  <2>2. Phase = "waiting" /\ Phase' = "waiting"
    BY <1>1 DEF StartThread, SetSlot, ReleaseStart, WaitSignal, RepostSignal,
         CheckSlot, CancelTimeout, Collect, NextArg, Phase
  <2>3. \A d \in 0..MaxDepth : d # depth => idx'[d] = idx[d]
    BY <1>1 DEF StartThread, SetSlot, ReleaseStart, WaitSignal, RepostSignal,
         CheckSlot, CancelTimeout, Collect, NextArg, stackVars, IInv, TypeOK
  <2>4. \A d \in 1..MaxDepth : d \in 0..MaxDepth
    BY MaxDepthAssumption
  <2> QED
    BY <2>1, <2>2, <2>3, <2>4, Stutters DEF IInv
<1>2. CASE Collect /\ main' = "endWait"
  BY <1>2, RefinesWake DEF WaitAnySpec!Next
<1>3. CASE EndWaitNoEvent \/ EndWaitEvent
  BY <1>3, RefinesDispatch DEF WaitAnySpec!Next
<1>4. CASE Return
  BY <1>4, RefinesReturn DEF WaitAnySpec!Next
<1>5. CASE SkipSlot \/ SetEnd \/ WakeWorker \/ JoinWorker
  <2>1. /\ SameCalls /\ mask' = mask /\ happened' = happened
        /\ main \in Releasing /\ main' \in Releasing
    BY <1>5 DEF SkipSlot, SetEnd, WakeWorker, JoinWorker, NextSlot, SameCalls,
                stackVars, handleVars, Releasing
  <2>2. depth = 0
    BY <2>1 DEF IInv, FrameInv
  <2>3. \A d \in 1..MaxDepth : idx'[d] = idx[d]
    <3>1. idx' = idx \/ idx' = [idx EXCEPT ![0] = I + 1]
      BY <1>5, <2>2 DEF SkipSlot, SetEnd, WakeWorker, JoinWorker, NextSlot,
                        stackVars
    <3>2. \A d \in 1..MaxDepth : d \in 0..MaxDepth /\ d # 0
      BY MaxDepthAssumption
    <3> QED
      BY <3>1, <3>2 DEF IInv, TypeOK
  <2>4. Phase = "ended" /\ Phase' = "ended"
    BY <2>1 DEF Phase, Releasing
  <2> QED
    BY <2>1, <2>3, <2>4, Stutters DEF IInv
<1>6. CASE StartThreadFails \/ CancelSem \/ KillSlot \/ KillSignal
           \/ KillThread \/ KillJoin
  <2>1. 1 \in Slots
    BY MaxItemAssumption DEF Slots
  <2> QED
    BY <1>6, <2>1 DEF StartThreadFails, CancelSem, KillSlot, KillSignal,
         KillThread, KillJoin, Setting, IInv, SlotInv, Killing
<1> QED
  BY <1>1, <1>2, <1>3, <1>4, <1>5, <1>6 DEF MainStep

\* What the threads do.
LEMMA RefinesWorker ==
    ASSUME Setting, IInv, CallInv, NEW i \in Slots, WorkerStep(i)
    PROVE  [WaitAnySpec!Next]_WaitAnySpec!vars
<1>1. CASE WaitTimedOut(i)
  <2>1. WaitAnySpec!Occur(i)
    BY <1>1, RefinesOccur
  <2> QED
    BY <2>1 DEF WaitAnySpec!Next, WaitAnySpec!Slots, Slots
<1>2. CASE ~WaitTimedOut(i)
  <2>1. /\ SameCalls /\ main' = main /\ idx' = idx /\ mask' = mask
        /\ happened' = happened
    BY <1>2 DEF WorkerStep, AcquireStart, Exit, BeginWait, WaitCanceled,
         TakeSem, SetHasEvent, ClearSlot, Signal, Die,
         UseFinalized, SameCalls, stackVars,
         handleVars, Setting
  <2>2. Phase' = Phase
    BY <2>1 DEF Phase
  <2> QED
    BY <2>1, <2>2, Stutters DEF IInv
<1> QED
  BY <1>1, <1>2

LEMMA RefinesStep ==
    ASSUME Setting, IInv, IInv', CallInv, [Next]_vars
    PROVE  [WaitAnySpec!Next]_WaitAnySpec!vars
<1>1. CASE \E h \in SemEvents : Post(h)
  BY <1>1 DEF Setting
<1>2. CASE UNCHANGED vars
  <2>1. /\ SameCalls /\ main' = main /\ idx' = idx /\ mask' = mask
        /\ happened' = happened
    BY <1>2 DEF vars, stackVars, handleVars, SameCalls
  <2>2. Phase' = Phase
    BY <2>1 DEF Phase
  <2> QED
    BY <2>1, <2>2, Stutters DEF IInv
<1> QED
  BY <1>1, <1>2, RefinesScript, RefinesMain, RefinesWorker
     DEF Next, Terminated

\* The multiplexer with its threads, semaphores and cancellations behaves like
\* the one-step description of processEvents() in WaitAny: a call blocks until
\* an event, dispatches exactly what occurred in the order of the arguments and
\* returns exactly that.
THEOREM RefinesWaitAny == Setting => (Spec => ImplementsWaitAny)
<1> SUFFICES ASSUME Setting PROVE Spec => ImplementsWaitAny
  OBVIOUS
<1>1. Init => WaitAnySpec!Init
  BY RefinesInit
<1>2. IInv /\ IInv' /\ CallInv /\ [Next]_vars
        => [WaitAnySpec!Next]_WaitAnySpec!vars
  BY RefinesStep
<1> QED
  BY <1>1, <1>2, CallInductive, PTL
     DEF Spec, ImplementsWaitAny, WaitAnySpec!Spec

=============================================================================
