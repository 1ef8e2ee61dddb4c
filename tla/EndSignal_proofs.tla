--------------------------- MODULE EndSignal_proofs ---------------------------
(***************************************************************************)
(* The end signal, for any number of handles, of waits on UNIX, of signals  *)
(* and of misuses, with one wait to a call on WIN.                          *)
(***************************************************************************)
EXTENDS EndSignal, FiniteSetTheorems, TLAPS

OneWaitOnWin == "WIN" \in Platforms => MaxWaits["WIN"] <= 1

\* Who owns the mutex.
MutexInv ==
    /\ \A h \in Handles : mutex = h <=> wpc[h] = "increment"
    /\ mutex = "script" <=> spc \in {"set", "broadcast"}
    /\ mutex = "handler" <=> ipc = "broadcast"
    /\ mutex = "freed" <=> spc = "ended"

\* Threads wait during the call only; its handles are canceled behind the wait.
CallInv ==
    /\ \A h \in Handles : h \notin waiting \/ h \in callback => wpc[h] = "idle"
    /\ spc \in {"end", "run", "set", "ended"} =>
         \A h \in Handles : wpc[h] \in {"idle", "done"}
    /\ spc = "wait" => \A h \in waiting : cancel[h] = FALSE
    /\ spc \notin {"wait", "cancel", "broadcast"} => toCancel = {}
    /\ spc \notin {"run", "set"} => callback = {}

\* The count is that of the waits; the first reads 0, the last 1.
CountInv ==
    /\ platform = "WIN" =>
         /\ \A g, h \in waiting : g = h
         /\ \A h \in Handles :
              /\ InCondWait(h) => waitersCount = 1
              /\ wpc[h] = "increment" => reg[h] = 0
              /\ wpc[h] \in {"decrement", "last"} => reg[h] = 1
         /\ (\A h \in Handles : ~InCondWait(h)) => waitersCount = 0
    /\ platform = "UNIX" =>
         \A h \in Handles : wpc[h] \in {"idle", "enter", "sleep", "done"}

\* A wait that sleeps is woken for what it waits for, by the event or by the
\* caller that changed it.
WakeInv ==
    \A h \in Handles :
        /\ wpc[h] = "increment" => endSignal = 0 /\ cancel[h] = FALSE
        /\ wpc[h] = "sleep" =>
             /\ platform = "WIN" =>
                  \A c \in Callers : mutex = c => haveWaiters[c] = TRUE
             /\ endSignal # 0 \/ cancel[h] = TRUE =>
                  \/ platform = "WIN" /\ broadcastEvent = TRUE
                  \/ mutex \in Callers

\* A wait that returns before it is canceled has seen the signal.
SignalInv ==
    /\ spc = "wait" => \A h \in Handles : wpc[h] = "done" => endSignal # 0
    /\ spc \in {"cancel", "broadcast", "collect"} /\ other = FALSE =>
         endSignal # 0

IInv ==
    TypeOK /\ MutexInv /\ CallInv /\ CountInv /\ WakeInv /\ SignalInv

-----------------------------------------------------------------------------

\* The elements of a set of at most one are the same.
LEMMA AtMostOne ==
    ASSUME NEW S, IsFiniteSet(S), Cardinality(S) <= 1, NEW g \in S, NEW h \in S
    PROVE  g = h
<1> SUFFICES ASSUME g # h PROVE FALSE
    OBVIOUS
<1>1. Cardinality({g, h}) <= Cardinality(S) /\ Cardinality(S) \in Nat
      BY FS_Subset, FS_CardinalityType
<1>2. Cardinality({g}) = 1 /\ IsFiniteSet({g}) /\ h \notin {g}
      BY FS_Singleton
<1>3. Cardinality({g} \cup {h}) = 2
      BY <1>2, FS_AddElement
<1>4. {g, h} = {g} \cup {h}
      OBVIOUS
<1> QED BY <1>1, <1>3, <1>4

-----------------------------------------------------------------------------
(* The waits.                                                               *)

\* A wait that enters tests under the mutex what it waits for.
LEMMA EnterKeeps ==
    ASSUME IInv, NEW h \in Handles, Enter(h) PROVE IInv'
<1> USE DEF Enter, Wait, OutsideWaits, WaitIsOver, cond, call, handler
<1>1. TypeOK'
      BY HandlesAssumption, BoundsAssumption DEF IInv, TypeOK, MutexInv,
         CallInv, CountInv, Callers, InCondWait
<1>2. MutexInv'
      BY HandlesAssumption DEF IInv, TypeOK, MutexInv, CallInv, Callers
<1>3. CallInv'
      BY HandlesAssumption DEF IInv, TypeOK, MutexInv, CallInv
<1>4. CountInv'
      BY HandlesAssumption, BoundsAssumption DEF IInv, TypeOK, MutexInv,
         CallInv, CountInv, InCondWait
<1>5. WakeInv'
      BY HandlesAssumption DEF IInv, TypeOK, MutexInv, CallInv, CountInv,
         WakeInv, InCondWait, Callers
<1>6. SignalInv'
      BY HandlesAssumption DEF IInv, TypeOK, MutexInv, CallInv, WakeInv,
         SignalInv
<1> QED BY <1>1, <1>2, <1>3, <1>4, <1>5, <1>6 DEF IInv

\* On WIN nothing changes between the test and the count.
LEMMA IncrementAndReleaseKeeps ==
    ASSUME IInv, NEW h \in Handles, IncrementAndRelease(h) PROVE IInv'
<1> USE DEF IncrementAndRelease, Wait, OutsideWaits, cond, call, handler
<1>1. TypeOK'
      BY HandlesAssumption, BoundsAssumption DEF IInv, TypeOK, MutexInv,
         CallInv, CountInv, Callers, InCondWait
<1>2. MutexInv'
      BY HandlesAssumption DEF IInv, TypeOK, MutexInv, CallInv, Callers
<1>3. CallInv'
      BY HandlesAssumption DEF IInv, TypeOK, MutexInv, CallInv
<1>4. CountInv'
      BY HandlesAssumption, BoundsAssumption DEF IInv, TypeOK, MutexInv,
         CallInv, CountInv, InCondWait
<1>5. WakeInv'
      BY HandlesAssumption DEF IInv, TypeOK, MutexInv, CallInv, CountInv,
         WakeInv, InCondWait, Callers
<1>6. SignalInv'
      BY HandlesAssumption DEF IInv, TypeOK, MutexInv, CallInv, WakeInv,
         SignalInv
<1> QED BY <1>1, <1>2, <1>3, <1>4, <1>5, <1>6 DEF IInv

\* The event is set.
LEMMA WakeKeeps ==
    ASSUME IInv, NEW h \in Handles, Wake(h) PROVE IInv'
<1> USE DEF Wake, Wait, OutsideWaits, cond, call, handler
<1>1. TypeOK'
      BY HandlesAssumption, BoundsAssumption DEF IInv, TypeOK, MutexInv,
         CallInv, CountInv, Callers, InCondWait
<1>2. MutexInv'
      BY HandlesAssumption DEF IInv, TypeOK, MutexInv, CallInv, Callers
<1>3. CallInv'
      BY HandlesAssumption DEF IInv, TypeOK, MutexInv, CallInv
<1>4. CountInv'
      BY HandlesAssumption, BoundsAssumption DEF IInv, TypeOK, MutexInv,
         CallInv, CountInv, InCondWait
<1>5. WakeInv'
      BY HandlesAssumption DEF IInv, TypeOK, MutexInv, CallInv, CountInv,
         WakeInv, InCondWait, Callers
<1>6. SignalInv'
      BY HandlesAssumption DEF IInv, TypeOK, MutexInv, CallInv, WakeInv,
         SignalInv
<1> QED BY <1>1, <1>2, <1>3, <1>4, <1>5, <1>6 DEF IInv

\* It tests again.
LEMMA WakeSpuriouslyKeeps ==
    ASSUME IInv, NEW h \in Handles, WakeSpuriously(h) PROVE IInv'
<1> USE DEF WakeSpuriously, Wait, OutsideWaits, cond, call, handler
<1>1. TypeOK'
      BY HandlesAssumption, BoundsAssumption DEF IInv, TypeOK, MutexInv,
         CallInv, CountInv, Callers, InCondWait
<1>2. MutexInv'
      BY HandlesAssumption DEF IInv, TypeOK, MutexInv, CallInv, Callers
<1>3. CallInv'
      BY HandlesAssumption DEF IInv, TypeOK, MutexInv, CallInv
<1>4. CountInv'
      BY HandlesAssumption, BoundsAssumption DEF IInv, TypeOK, MutexInv,
         CallInv, CountInv, InCondWait
<1>5. WakeInv'
      BY HandlesAssumption DEF IInv, TypeOK, MutexInv, CallInv, CountInv,
         WakeInv, InCondWait, Callers
<1>6. SignalInv'
      BY HandlesAssumption DEF IInv, TypeOK, MutexInv, CallInv, WakeInv,
         SignalInv
<1> QED BY <1>1, <1>2, <1>3, <1>4, <1>5, <1>6 DEF IInv

\* The only wait reads its own count.
LEMMA ReadForDecrementKeeps ==
    ASSUME IInv, NEW h \in Handles, ReadForDecrement(h) PROVE IInv'
<1> USE DEF ReadForDecrement, Wait, OutsideWaits, cond, call, handler
<1>1. TypeOK'
      BY HandlesAssumption, BoundsAssumption DEF IInv, TypeOK, MutexInv,
         CallInv, CountInv, Callers, InCondWait
<1>2. MutexInv'
      BY HandlesAssumption DEF IInv, TypeOK, MutexInv, CallInv, Callers
<1>3. CallInv'
      BY HandlesAssumption DEF IInv, TypeOK, MutexInv, CallInv
<1>4. CountInv'
      BY HandlesAssumption, BoundsAssumption DEF IInv, TypeOK, MutexInv,
         CallInv, CountInv, InCondWait
<1>5. WakeInv'
      BY HandlesAssumption DEF IInv, TypeOK, MutexInv, CallInv, CountInv,
         WakeInv, InCondWait, Callers
<1>6. SignalInv'
      BY HandlesAssumption DEF IInv, TypeOK, MutexInv, CallInv, WakeInv,
         SignalInv
<1> QED BY <1>1, <1>2, <1>3, <1>4, <1>5, <1>6 DEF IInv

\* The only wait leaves nobody in the count.
LEMMA DecrementKeeps ==
    ASSUME IInv, NEW h \in Handles, Decrement(h) PROVE IInv'
<1> USE DEF Decrement, Wait, OutsideWaits, OneLess, cond, call, handler
<1>1. TypeOK'
      BY HandlesAssumption, BoundsAssumption DEF IInv, TypeOK, MutexInv,
         CallInv, CountInv, Callers, InCondWait
<1>2. MutexInv'
      BY HandlesAssumption DEF IInv, TypeOK, MutexInv, CallInv, Callers
<1>3. CallInv'
      BY HandlesAssumption DEF IInv, TypeOK, MutexInv, CallInv
<1>4. CountInv'
      BY HandlesAssumption, BoundsAssumption DEF IInv, TypeOK, MutexInv,
         CallInv, CountInv, InCondWait
<1>5. WakeInv'
      BY HandlesAssumption DEF IInv, TypeOK, MutexInv, CallInv, CountInv,
         WakeInv, InCondWait, Callers
<1>6. SignalInv'
      BY HandlesAssumption DEF IInv, TypeOK, MutexInv, CallInv, WakeInv,
         SignalInv
<1> QED BY <1>1, <1>2, <1>3, <1>4, <1>5, <1>6 DEF IInv

\* The only wait is the last one, whatever it reads.
LEMMA IsLastKeeps ==
    ASSUME IInv, NEW h \in Handles, IsLast(h) PROVE IInv'
<1> USE DEF IsLast, Wait, OutsideWaits, OneLess, cond, call, handler
<1>1. TypeOK'
      BY HandlesAssumption, BoundsAssumption DEF IInv, TypeOK, MutexInv,
         CallInv, CountInv, Callers, InCondWait
<1>2. MutexInv'
      BY HandlesAssumption DEF IInv, TypeOK, MutexInv, CallInv, Callers
<1>3. CallInv'
      BY HandlesAssumption DEF IInv, TypeOK, MutexInv, CallInv
<1>4. CountInv'
      BY HandlesAssumption, BoundsAssumption DEF IInv, TypeOK, MutexInv,
         CallInv, CountInv, InCondWait
<1>5. WakeInv'
      BY HandlesAssumption DEF IInv, TypeOK, MutexInv, CallInv, CountInv,
         WakeInv, InCondWait, Callers
<1>6. SignalInv'
      BY HandlesAssumption DEF IInv, TypeOK, MutexInv, CallInv, WakeInv,
         SignalInv
<1> QED BY <1>1, <1>2, <1>3, <1>4, <1>5, <1>6 DEF IInv

\* Nobody sleeps when the event is reset.
LEMMA ResetEventKeeps ==
    ASSUME IInv, NEW h \in Handles, ResetEvent(h) PROVE IInv'
<1> USE DEF ResetEvent, Wait, OutsideWaits, cond, call, handler
<1>1. TypeOK'
      BY HandlesAssumption, BoundsAssumption DEF IInv, TypeOK, MutexInv,
         CallInv, CountInv, Callers, InCondWait
<1>2. MutexInv'
      BY HandlesAssumption DEF IInv, TypeOK, MutexInv, CallInv, Callers
<1>3. CallInv'
      BY HandlesAssumption DEF IInv, TypeOK, MutexInv, CallInv
<1>4. CountInv'
      BY HandlesAssumption, BoundsAssumption DEF IInv, TypeOK, MutexInv,
         CallInv, CountInv, InCondWait
<1>5. WakeInv'
      BY HandlesAssumption DEF IInv, TypeOK, MutexInv, CallInv, CountInv,
         WakeInv, InCondWait, Callers
<1>6. SignalInv'
      BY HandlesAssumption DEF IInv, TypeOK, MutexInv, CallInv, WakeInv,
         SignalInv
<1> QED BY <1>1, <1>2, <1>3, <1>4, <1>5, <1>6 DEF IInv

-----------------------------------------------------------------------------
(* The handler and the script.                                              *)

\* A signal comes.
LEMMA SignalKeeps ==
    ASSUME IInv, Signal PROVE IInv'
<1> USE DEF Signal, Signal, cond, call, handler
<1>1. TypeOK'
  <2>1. suspended' \in BOOLEAN
        BY Zenon
  <2>2. interrupts' \in 0..MaxInterrupt
        BY BoundsAssumption DEF IInv, TypeOK
  <2> QED BY <2>1, <2>2 DEF IInv, TypeOK
<1>2. MutexInv'
      BY HandlesAssumption DEF IInv, TypeOK, MutexInv, CallInv, Callers
<1>3. CallInv'
      BY HandlesAssumption DEF IInv, TypeOK, MutexInv, CallInv
<1>4. CountInv'
      BY HandlesAssumption, BoundsAssumption DEF IInv, TypeOK, MutexInv,
         CallInv, CountInv, InCondWait
<1>5. WakeInv'
      BY HandlesAssumption DEF IInv, TypeOK, MutexInv, CallInv, CountInv,
         WakeInv, InCondWait, Callers
<1>6. SignalInv'
      BY HandlesAssumption DEF IInv, TypeOK, MutexInv, CallInv, WakeInv,
         SignalInv
<1> QED BY <1>1, <1>2, <1>3, <1>4, <1>5, <1>6 DEF IInv

\* The handler reads the count of those that sleep.
LEMMA SetByInterruptKeeps ==
    ASSUME IInv, SetByInterrupt PROVE IInv'
<1> USE DEF SetByInterrupt, ReadCount, cond, call, handler
<1>1. TypeOK'
      BY HandlesAssumption, BoundsAssumption DEF IInv, TypeOK, MutexInv,
         CallInv, CountInv, Callers, InCondWait
<1>2. MutexInv'
      BY HandlesAssumption DEF IInv, TypeOK, MutexInv, CallInv, Callers
<1>3. CallInv'
      BY HandlesAssumption DEF IInv, TypeOK, MutexInv, CallInv
<1>4. CountInv'
      BY HandlesAssumption, BoundsAssumption DEF IInv, TypeOK, MutexInv,
         CallInv, CountInv, InCondWait
<1>5. WakeInv'
  <2>1. ASSUME NEW g \in Handles, wpc[g] = "sleep", platform = "WIN"
        PROVE  haveWaiters'["handler"] = TRUE
    <3>1. waitersCount = 1
          BY <2>1 DEF IInv, CountInv, InCondWait
    <3>2. waitersCount > 0
          BY <3>1
    <3>3. haveWaiters'["handler"] = (waitersCount > 0)
          BY Zenon DEF IInv, TypeOK, Callers
    <3> QED BY <3>2, <3>3, Zenon
  <2>2. mutex' = "handler" /\ \A g \in Handles : wpc'[g] # "increment"
        BY HandlesAssumption DEF IInv, MutexInv
  <2> QED BY <2>1, <2>2 DEF IInv, TypeOK, WakeInv, Callers
<1>6. SignalInv'
      BY HandlesAssumption DEF IInv, TypeOK, MutexInv, CallInv, WakeInv,
         SignalInv
<1> QED BY <1>1, <1>2, <1>3, <1>4, <1>5, <1>6 DEF IInv

\* All that sleep are woken.
LEMMA InterruptEndsKeeps ==
    ASSUME IInv, InterruptEnds PROVE IInv'
<1> USE DEF InterruptEnds, BroadcastAndRelease, WakeAll, cond, call, handler
<1>1. TypeOK'
  <2>1. broadcastEvent' \in BOOLEAN
        BY Zenon
  <2>2. wpc' \in [Handles -> {"idle", "enter", "increment", "sleep", "awake",
                             "decrement", "last", "reset", "done"}]
        BY DEF IInv, TypeOK
  <2> QED BY <2>1, <2>2 DEF IInv, TypeOK
<1>2. MutexInv'
      BY HandlesAssumption DEF IInv, TypeOK, MutexInv, CallInv, Callers
<1>3. CallInv'
      BY HandlesAssumption DEF IInv, TypeOK, MutexInv, CallInv
<1>4. CountInv'
      BY HandlesAssumption, BoundsAssumption DEF IInv, TypeOK, MutexInv,
         CallInv, CountInv, InCondWait
<1>5. WakeInv'
  <2>1. CASE platform = "UNIX"
        BY <2>1, HandlesAssumption DEF IInv, TypeOK, MutexInv, WakeInv
  <2>2. CASE platform = "WIN"
    <3>1. ASSUME NEW h \in Handles, wpc[h] = "sleep"
          PROVE  broadcastEvent' = TRUE
      <4>1. haveWaiters["handler"] = TRUE
            BY <2>2, <3>1 DEF IInv, WakeInv, Callers
      <4> QED BY <2>2, <4>1
    <3> QED BY <2>2, <3>1, HandlesAssumption
            DEF IInv, TypeOK, MutexInv, WakeInv, Callers
  <2> QED BY <2>1, <2>2, PlatformsAssumption DEF IInv, TypeOK
<1>6. SignalInv'
      BY HandlesAssumption DEF IInv, TypeOK, MutexInv, CallInv, WakeInv,
         SignalInv
<1> QED BY <1>1, <1>2, <1>3, <1>4, <1>5, <1>6 DEF IInv

\* Outside of the calls nobody sleeps.
LEMMA SetEndSignalKeeps ==
    ASSUME IInv, SetEndSignal PROVE IInv'
<1> USE DEF SetEndSignal, Script, OutsideScript, ReadCount, cond, call, handler
<1>1. TypeOK'
      BY HandlesAssumption, BoundsAssumption DEF IInv, TypeOK, MutexInv,
         CallInv, CountInv, Callers, InCondWait
<1>2. MutexInv'
      BY HandlesAssumption DEF IInv, TypeOK, MutexInv, CallInv, Callers
<1>3. CallInv'
      BY HandlesAssumption DEF IInv, TypeOK, MutexInv, CallInv
<1>4. CountInv'
      BY HandlesAssumption, BoundsAssumption DEF IInv, TypeOK, MutexInv,
         CallInv, CountInv, InCondWait
<1>5. WakeInv'
      BY HandlesAssumption DEF IInv, TypeOK, MutexInv, CallInv, CountInv,
         WakeInv, InCondWait, Callers
<1>6. SignalInv'
      BY HandlesAssumption DEF IInv, TypeOK, MutexInv, CallInv, WakeInv,
         SignalInv
<1> QED BY <1>1, <1>2, <1>3, <1>4, <1>5, <1>6 DEF IInv

\* Outside of the calls nobody sleeps.
LEMMA SetterReturnsKeeps ==
    ASSUME IInv, SetterReturns PROVE IInv'
<1> USE DEF SetterReturns, Script, BroadcastAndRelease, WakeAll, cond, call,
        handler
<1>1. TypeOK'
      BY HandlesAssumption, BoundsAssumption DEF IInv, TypeOK, MutexInv,
         CallInv, CountInv, Callers, InCondWait
<1>2. MutexInv'
      BY HandlesAssumption DEF IInv, TypeOK, MutexInv, CallInv, Callers
<1>3. CallInv'
      BY HandlesAssumption DEF IInv, TypeOK, MutexInv, CallInv
<1>4. CountInv'
      BY HandlesAssumption, BoundsAssumption DEF IInv, TypeOK, MutexInv,
         CallInv, CountInv, InCondWait
<1>5. WakeInv'
      BY HandlesAssumption DEF IInv, TypeOK, MutexInv, CallInv, CountInv,
         WakeInv, InCondWait, Callers
<1>6. SignalInv'
      BY HandlesAssumption DEF IInv, TypeOK, MutexInv, CallInv, WakeInv,
         SignalInv
<1> QED BY <1>1, <1>2, <1>3, <1>4, <1>5, <1>6 DEF IInv

\* On WIN a call waits for one handle at most.
LEMMA ProcessEventsKeeps ==
    ASSUME OneWaitOnWin, IInv, NEW hs \in SUBSET Handles,
           ProcessEvents(hs)
    PROVE  IInv'
<1> USE DEF ProcessEvents, Script, PrepareWait, cond, call, handler
<1>1. TypeOK'
      BY HandlesAssumption, BoundsAssumption DEF IInv, TypeOK, MutexInv,
         CallInv, CountInv, Callers, InCondWait
<1>2. MutexInv'
      BY HandlesAssumption DEF IInv, TypeOK, MutexInv, CallInv, Callers
<1>3. CallInv'
      BY HandlesAssumption DEF IInv, TypeOK, MutexInv, CallInv
<1>4. CountInv'
  <2>1. waiting = {} /\ waitersCount' = waitersCount /\ reg' = reg
        OBVIOUS
  <2>2. \A h \in Handles : ~InCondWait(h) /\ ~InCondWait(h)'
        BY <2>1 DEF IInv, TypeOK, CallInv, InCondWait
  <2>3. platform = "WIN" => \A g, h \in hs : g = h
    <3>1. IsFiniteSet(hs) /\ Cardinality(hs) \in Nat
          BY HandlesAssumption, FS_Subset, FS_CardinalityType
    <3>2. platform = "WIN" => Cardinality(hs) <= 1
          BY <3>1, HandlesAssumption DEF IInv, TypeOK, OneWaitOnWin
    <3> QED BY <3>1, <3>2, AtMostOne
  <2> QED BY <2>1, <2>2, <2>3 DEF IInv, TypeOK, CallInv, CountInv
<1>5. WakeInv'
      BY HandlesAssumption DEF IInv, TypeOK, MutexInv, CallInv, CountInv,
         WakeInv, InCondWait, Callers
<1>6. SignalInv'
      BY HandlesAssumption DEF IInv, TypeOK, MutexInv, CallInv, WakeInv,
         SignalInv
<1> QED BY <1>1, <1>2, <1>3, <1>4, <1>5, <1>6 DEF IInv

\* A wait that returns has seen the signal.
LEMMA WaitSignalsKeeps ==
    ASSUME IInv, WaitSignals PROVE IInv'
<1> USE DEF WaitSignals, Script, OutsideScript, cond, call, handler
<1>1. TypeOK'
      BY HandlesAssumption, BoundsAssumption DEF IInv, TypeOK, MutexInv,
         CallInv, CountInv, Callers, InCondWait
<1>2. MutexInv'
      BY HandlesAssumption DEF IInv, TypeOK, MutexInv, CallInv, Callers
<1>3. CallInv'
      BY HandlesAssumption DEF IInv, TypeOK, MutexInv, CallInv
<1>4. CountInv'
      BY HandlesAssumption, BoundsAssumption DEF IInv, TypeOK, MutexInv,
         CallInv, CountInv, InCondWait
<1>5. WakeInv'
      BY HandlesAssumption DEF IInv, TypeOK, MutexInv, CallInv, CountInv,
         WakeInv, InCondWait, Callers
<1>6. SignalInv'
      BY HandlesAssumption DEF IInv, TypeOK, MutexInv, CallInv, WakeInv,
         SignalInv
<1> QED BY <1>1, <1>2, <1>3, <1>4, <1>5, <1>6 DEF IInv

\* The call need not report the signal.
LEMMA OtherEventKeeps ==
    ASSUME IInv, OtherEvent PROVE IInv'
<1> USE DEF OtherEvent, Script, OutsideScript, cond, call, handler
<1>1. TypeOK'
      BY HandlesAssumption, BoundsAssumption DEF IInv, TypeOK, MutexInv,
         CallInv, CountInv, Callers, InCondWait
<1>2. MutexInv'
      BY HandlesAssumption DEF IInv, TypeOK, MutexInv, CallInv, Callers
<1>3. CallInv'
      BY HandlesAssumption DEF IInv, TypeOK, MutexInv, CallInv
<1>4. CountInv'
      BY HandlesAssumption, BoundsAssumption DEF IInv, TypeOK, MutexInv,
         CallInv, CountInv, InCondWait
<1>5. WakeInv'
      BY HandlesAssumption DEF IInv, TypeOK, MutexInv, CallInv, CountInv,
         WakeInv, InCondWait, Callers
<1>6. SignalInv'
      BY HandlesAssumption DEF IInv, TypeOK, MutexInv, CallInv, WakeInv,
         SignalInv
<1> QED BY <1>1, <1>2, <1>3, <1>4, <1>5, <1>6 DEF IInv

\* What has returned is not canceled.
LEMMA CancelNothingKeeps ==
    ASSUME IInv, NEW h \in Handles, CancelNothing(h) PROVE IInv'
<1> USE DEF CancelNothing, Script, OutsideScript, cond, call, handler
<1>1. TypeOK'
      BY HandlesAssumption, BoundsAssumption DEF IInv, TypeOK, MutexInv,
         CallInv, CountInv, Callers, InCondWait
<1>2. MutexInv'
      BY HandlesAssumption DEF IInv, TypeOK, MutexInv, CallInv, Callers
<1>3. CallInv'
      BY HandlesAssumption DEF IInv, TypeOK, MutexInv, CallInv
<1>4. CountInv'
      BY HandlesAssumption, BoundsAssumption DEF IInv, TypeOK, MutexInv,
         CallInv, CountInv, InCondWait
<1>5. WakeInv'
      BY HandlesAssumption DEF IInv, TypeOK, MutexInv, CallInv, CountInv,
         WakeInv, InCondWait, Callers
<1>6. SignalInv'
      BY HandlesAssumption DEF IInv, TypeOK, MutexInv, CallInv, WakeInv,
         SignalInv
<1> QED BY <1>1, <1>2, <1>3, <1>4, <1>5, <1>6 DEF IInv

\* The call reads the count of those that sleep.
LEMMA CancelWaitKeeps ==
    ASSUME IInv, NEW h \in Handles, CancelWait(h) PROVE IInv'
<1> USE DEF CancelWait, Script, OutsideScript, ReadCount, cond, call, handler
<1>1. TypeOK'
      BY HandlesAssumption, BoundsAssumption DEF IInv, TypeOK, MutexInv,
         CallInv, CountInv, Callers, InCondWait
<1>2. MutexInv'
      BY HandlesAssumption DEF IInv, TypeOK, MutexInv, CallInv, Callers
<1>3. CallInv'
      BY HandlesAssumption DEF IInv, TypeOK, MutexInv, CallInv
<1>4. CountInv'
      BY HandlesAssumption, BoundsAssumption DEF IInv, TypeOK, MutexInv,
         CallInv, CountInv, InCondWait
<1>5. WakeInv'
  <2>1. ASSUME NEW g \in Handles, wpc[g] = "sleep", platform = "WIN"
        PROVE  haveWaiters'["script"] = TRUE
    <3>1. waitersCount = 1
          BY <2>1 DEF IInv, CountInv, InCondWait
    <3>2. waitersCount > 0
          BY <3>1
    <3>3. haveWaiters'["script"] = (waitersCount > 0)
          BY Zenon DEF IInv, TypeOK, Callers
    <3> QED BY <3>2, <3>3, Zenon
  <2>2. mutex' = "script" /\ \A g \in Handles : wpc'[g] # "increment"
        BY HandlesAssumption DEF IInv, MutexInv
  <2> QED BY <2>1, <2>2 DEF IInv, TypeOK, WakeInv, Callers
<1>6. SignalInv'
      BY HandlesAssumption DEF IInv, TypeOK, MutexInv, CallInv, WakeInv,
         SignalInv
<1> QED BY <1>1, <1>2, <1>3, <1>4, <1>5, <1>6 DEF IInv

\* All that sleep are woken.
LEMMA CancelWaitReturnsKeeps ==
    ASSUME IInv, CancelWaitReturns PROVE IInv'
<1> USE DEF CancelWaitReturns, Script, BroadcastAndRelease, WakeAll, cond, call,
        handler
<1>1. TypeOK'
      BY HandlesAssumption, BoundsAssumption DEF IInv, TypeOK, MutexInv,
         CallInv, CountInv, Callers, InCondWait
<1>2. MutexInv'
      BY HandlesAssumption DEF IInv, TypeOK, MutexInv, CallInv, Callers
<1>3. CallInv'
      BY HandlesAssumption DEF IInv, TypeOK, MutexInv, CallInv
<1>4. CountInv'
      BY HandlesAssumption, BoundsAssumption DEF IInv, TypeOK, MutexInv,
         CallInv, CountInv, InCondWait
<1>5. WakeInv'
  <2>1. CASE platform = "UNIX"
        BY <2>1, HandlesAssumption DEF IInv, TypeOK, MutexInv, WakeInv
  <2>2. CASE platform = "WIN"
    <3>1. ASSUME NEW h \in Handles, wpc[h] = "sleep"
          PROVE  broadcastEvent' = TRUE
      <4>1. haveWaiters["script"] = TRUE
            BY <2>2, <3>1 DEF IInv, WakeInv, Callers
      <4> QED BY <2>2, <4>1
    <3> QED BY <2>2, <3>1, HandlesAssumption
            DEF IInv, TypeOK, MutexInv, WakeInv, Callers
  <2> QED BY <2>1, <2>2, PlatformsAssumption DEF IInv, TypeOK
<1>6. SignalInv'
      BY HandlesAssumption DEF IInv, TypeOK, MutexInv, CallInv, WakeInv,
         SignalInv
<1> QED BY <1>1, <1>2, <1>3, <1>4, <1>5, <1>6 DEF IInv

\* Only the waits are left.
LEMMA AllCanceledKeeps ==
    ASSUME IInv, AllCanceled PROVE IInv'
<1> USE DEF AllCanceled, Script, OutsideScript, cond, call, handler
<1>1. TypeOK'
      BY HandlesAssumption, BoundsAssumption DEF IInv, TypeOK, MutexInv,
         CallInv, CountInv, Callers, InCondWait
<1>2. MutexInv'
      BY HandlesAssumption DEF IInv, TypeOK, MutexInv, CallInv, Callers
<1>3. CallInv'
      BY HandlesAssumption DEF IInv, TypeOK, MutexInv, CallInv
<1>4. CountInv'
      BY HandlesAssumption, BoundsAssumption DEF IInv, TypeOK, MutexInv,
         CallInv, CountInv, InCondWait
<1>5. WakeInv'
      BY HandlesAssumption DEF IInv, TypeOK, MutexInv, CallInv, CountInv,
         WakeInv, InCondWait, Callers
<1>6. SignalInv'
      BY HandlesAssumption DEF IInv, TypeOK, MutexInv, CallInv, WakeInv,
         SignalInv
<1> QED BY <1>1, <1>2, <1>3, <1>4, <1>5, <1>6 DEF IInv

\* All waits have returned.
LEMMA CollectKeeps ==
    ASSUME IInv, Collect PROVE IInv'
<1> USE DEF Collect, Script, OutsideScript, cond, call, handler
<1>1. TypeOK'
      BY HandlesAssumption, BoundsAssumption DEF IInv, TypeOK, MutexInv,
         CallInv, CountInv, Callers, InCondWait
<1>2. MutexInv'
      BY HandlesAssumption DEF IInv, TypeOK, MutexInv, CallInv, Callers
<1>3. CallInv'
      BY HandlesAssumption DEF IInv, TypeOK, MutexInv, CallInv
<1>4. CountInv'
      BY HandlesAssumption, BoundsAssumption DEF IInv, TypeOK, MutexInv,
         CallInv, CountInv, InCondWait
<1>5. WakeInv'
      BY HandlesAssumption DEF IInv, TypeOK, MutexInv, CallInv, CountInv,
         WakeInv, InCondWait, Callers
<1>6. SignalInv'
      BY HandlesAssumption DEF IInv, TypeOK, MutexInv, CallInv, WakeInv,
         SignalInv
<1> QED BY <1>1, <1>2, <1>3, <1>4, <1>5, <1>6 DEF IInv

\* The handle of a callback stays with the call.
LEMMA EndWaitKeeps ==
    ASSUME IInv, NEW h \in Handles, EndWait(h) PROVE IInv'
<1> USE DEF EndWait, Script, cond, call, handler
<1>1. TypeOK'
  <2>1. callback' \subseteq waiting' /\ Cardinality(callback') <= 1
    <3>1. CASE endSignal # 0
      <4>1. callback' = {h} /\ h \in waiting'
            BY <3>1
      <4> QED BY <4>1, FS_Singleton
    <3>2. CASE endSignal = 0
          BY <3>2, FS_EmptySet DEF IInv, CallInv
    <3> QED BY <3>1, <3>2 DEF IInv, TypeOK
  <2>2. toCancel' \subseteq waiting' /\ waiting' \subseteq Handles
        BY DEF IInv, TypeOK, CallInv
  <2>3. spc' \in {"run", "end"}
        OBVIOUS
  <2> QED BY <2>1, <2>2, <2>3 DEF IInv, TypeOK
<1>2. MutexInv'
      BY HandlesAssumption DEF IInv, TypeOK, MutexInv, CallInv, Callers
<1>3. CallInv'
      BY HandlesAssumption DEF IInv, TypeOK, MutexInv, CallInv
<1>4. CountInv'
      BY HandlesAssumption, BoundsAssumption DEF IInv, TypeOK, MutexInv,
         CallInv, CountInv, InCondWait
<1>5. WakeInv'
      BY HandlesAssumption DEF IInv, TypeOK, MutexInv, CallInv, CountInv,
         WakeInv, InCondWait, Callers
<1>6. SignalInv'
      BY HandlesAssumption DEF IInv, TypeOK, MutexInv, CallInv, WakeInv,
         SignalInv
<1> QED BY <1>1, <1>2, <1>3, <1>4, <1>5, <1>6 DEF IInv

\* The next handle is ended.
LEMMA CallbackReturnsKeeps ==
    ASSUME IInv, CallbackReturns PROVE IInv'
<1> USE DEF CallbackReturns, Script, OutsideScript, cond, call, handler
<1>1. TypeOK'
  <2>1. Cardinality(callback') <= 1
        BY FS_EmptySet
  <2>2. toCancel' \subseteq waiting' /\ waiting' \subseteq Handles
        BY DEF IInv, TypeOK, CallInv
  <2>3. spc' \in {"run", "end"}
        OBVIOUS
  <2> QED BY <2>1, <2>2, <2>3 DEF IInv, TypeOK
<1>2. MutexInv'
      BY HandlesAssumption DEF IInv, TypeOK, MutexInv, CallInv, Callers
<1>3. CallInv'
      BY HandlesAssumption DEF IInv, TypeOK, MutexInv, CallInv
<1>4. CountInv'
      BY HandlesAssumption, BoundsAssumption DEF IInv, TypeOK, MutexInv,
         CallInv, CountInv, InCondWait
<1>5. WakeInv'
      BY HandlesAssumption DEF IInv, TypeOK, MutexInv, CallInv, CountInv,
         WakeInv, InCondWait, Callers
<1>6. SignalInv'
      BY HandlesAssumption DEF IInv, TypeOK, MutexInv, CallInv, WakeInv,
         SignalInv
<1> QED BY <1>1, <1>2, <1>3, <1>4, <1>5, <1>6 DEF IInv

\* No call is left.
LEMMA FreeInterruptKeeps ==
    ASSUME IInv, FreeInterrupt PROVE IInv'
<1> USE DEF FreeInterrupt, Script, OutsideScript, cond, call, handler
<1>1. TypeOK'
      BY HandlesAssumption, BoundsAssumption DEF IInv, TypeOK, MutexInv,
         CallInv, CountInv, Callers, InCondWait
<1>2. MutexInv'
      BY HandlesAssumption DEF IInv, TypeOK, MutexInv, CallInv, Callers
<1>3. CallInv'
      BY HandlesAssumption DEF IInv, TypeOK, MutexInv, CallInv
<1>4. CountInv'
      BY HandlesAssumption, BoundsAssumption DEF IInv, TypeOK, MutexInv,
         CallInv, CountInv, InCondWait
<1>5. WakeInv'
      BY HandlesAssumption DEF IInv, TypeOK, MutexInv, CallInv, CountInv,
         WakeInv, InCondWait, Callers
<1>6. SignalInv'
      BY HandlesAssumption DEF IInv, TypeOK, MutexInv, CallInv, WakeInv,
         SignalInv
<1> QED BY <1>1, <1>2, <1>3, <1>4, <1>5, <1>6 DEF IInv

-----------------------------------------------------------------------------

\* Nobody waits before the first call.
LEMMA Initially == Init => IInv
<1> SUFFICES ASSUME Init PROVE IInv
    OBVIOUS
<1>1. /\ broadcastEvent \in BOOLEAN /\ other \in BOOLEAN
      /\ suspended \in BOOLEAN
      /\ cancel \in [Handles -> BOOLEAN] /\ haveWaiters \in [Callers -> BOOLEAN]
      BY DEF Init
<1>2. TypeOK
      BY <1>1, BoundsAssumption, FS_EmptySet DEF Init, TypeOK
<1>3. MutexInv /\ CallInv /\ CountInv /\ WakeInv /\ SignalInv
      BY HandlesAssumption DEF Init, MutexInv, CallInv, CountInv, WakeInv,
         SignalInv, InCondWait
<1> QED BY <1>2, <1>3 DEF IInv

\* The steps of a wait.
LEMMA WaitKeeps ==
    ASSUME IInv, NEW h \in Handles, WaitStep(h) \/ WakeSpuriously(h)
    PROVE  IInv'
BY EnterKeeps, IncrementAndReleaseKeeps, WakeKeeps, ReadForDecrementKeeps,
   DecrementKeeps, IsLastKeeps, ResetEventKeeps, WakeSpuriouslyKeeps
   DEF WaitStep

\* What a call does by itself.
LEMMA CallKeeps == IInv /\ CallStep => IInv'
BY SetterReturnsKeeps, WaitSignalsKeeps, CancelWaitReturnsKeeps,
   AllCanceledKeeps, CollectKeeps, CallbackReturnsKeeps, CancelNothingKeeps,
   CancelWaitKeeps, EndWaitKeeps DEF CallStep

\* Steps of nobody.
LEMMA StutterKeeps == IInv /\ UNCHANGED vars => IInv'
BY DEF vars, cond, call, handler, IInv, TypeOK, MutexInv, CallInv, CountInv,
       WakeInv, SignalInv, InCondWait

\* The mutex has one owner, the count of the condition is that of the waits, and
\* whoever changes what they wait for is about to wake them.
THEOREM EndSignalInductive == ASSUME OneWaitOnWin PROVE Spec => []IInv
<1>1. IInv /\ [Next]_vars => IInv'
  <2> SUFFICES ASSUME IInv, [Next]_vars PROVE IInv'
      OBVIOUS
  <2>1. CASE \E h \in Handles : WaitStep(h) \/ WakeSpuriously(h)
        BY <2>1, WaitKeeps
  <2>2. CASE Signal \/ HandlerStep
        BY <2>2, SignalKeeps, SetByInterruptKeeps, InterruptEndsKeeps
           DEF HandlerStep
  <2>3. CASE CallStep \/ SetEndSignal \/ OtherEvent \/ FreeInterrupt
        BY <2>3, CallKeeps, SetEndSignalKeeps, OtherEventKeeps,
           FreeInterruptKeeps
  <2>4. CASE \E hs \in SUBSET Handles : ProcessEvents(hs)
        BY <2>4, ProcessEventsKeeps
  <2>5. CASE UNCHANGED vars
        BY <2>5, StutterKeeps
  <2> QED BY <2>1, <2>2, <2>3, <2>4, <2>5 DEF Next
<1> QED BY <1>1, Initially, PTL DEF Spec

\* No wait sleeps through the end signal or its own cancellation
\* (jshost.cpp:324-341, jlplatform.h:3617-3648).
THEOREM SleepersAreWoken == ASSUME OneWaitOnWin PROVE Spec => []NoLostWakeup
<1>1. IInv => NoLostWakeup
  <2> SUFFICES ASSUME IInv, NEW h \in Handles, wpc[h] = "sleep", WaitIsOver(h)
               PROVE  WakeIsComing
      BY DEF NoLostWakeup
  <2>1. endSignal # 0 \/ cancel[h] = TRUE
        BY DEF WaitIsOver
  <2>2. CASE platform = "WIN"
        BY <2>1, <2>2 DEF IInv, WakeInv, WakeIsComing
  <2>3. CASE platform = "UNIX"
        BY <2>1, <2>3 DEF IInv, WakeInv, WakeIsComing
  <2> QED BY <2>2, <2>3, PlatformsAssumption DEF IInv, TypeOK
<1> QED BY <1>1, EndSignalInductive, PTL

\* A call that no other event ended reports the end signal (jshost.cpp:344-349).
THEOREM TheSignalIsReported ==
    ASSUME OneWaitOnWin PROVE Spec => []EndsForTheSignal
<1>1. IInv => EndsForTheSignal
      BY DEF IInv, TypeOK, SignalInv, EndsForTheSignal
<1> QED BY <1>1, EndSignalInductive, PTL

\* With one wait to a call the count is right though WIN decrements it outside
\* of the mutex (jlplatform.h:3630).
THEOREM TheCountIsRight == ASSUME OneWaitOnWin PROVE Spec => []WaitersAreCounted
<1>1. IInv => WaitersAreCounted
  <2> DEFINE W == {h \in Handles : InCondWait(h)}
  <2> SUFFICES ASSUME IInv, platform = "WIN"
               PROVE  waitersCount = Cardinality(W)
      BY DEF WaitersAreCounted
  <2>1. CASE W = {}
        BY <2>1, FS_EmptySet DEF IInv, CountInv
  <2>2. CASE W # {}
    <3>1. PICK h \in Handles : InCondWait(h)
          BY <2>2
    <3>2. W = {h}
          BY <3>1 DEF IInv, CallInv, CountInv, InCondWait
    <3> QED BY <3>1, <3>2, FS_Singleton DEF IInv, CountInv
  <2> QED BY <2>1, <2>2
<1> QED BY <1>1, EndSignalInductive, PTL
=============================================================================
