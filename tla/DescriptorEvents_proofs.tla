----------------------- MODULE DescriptorEvents_proofs -----------------------
(***************************************************************************)
(* The waits for descriptors, for any handles, any number of arguments and  *)
(* any depth of calls.  That the handles become free again needs nothing;   *)
(* that a call waits with the pollable event clear and reports an event     *)
(* needs that callbacks of other handles do not call processEvents().       *)
(***************************************************************************)
EXTENDS DescriptorEvents, SequenceTheorems, TLAPS

TimersDoNotCall == "timerCalls" \notin Faults

\* Where a call is in its arguments.
CallsInv ==
    /\ \A i \in 1..Len(calls) :
         /\ \A j, k \in 1..Len(calls[i].args) :
              calls[i].args[j] = calls[i].args[k] => j = k
         /\ i > 1 \/ spc \in {"run", "reset"} =>
              calls[i].next <= Len(calls[i].args)
    /\ spc # "run" => calls # <<>>
    /\ spc = "reset" => Ending \in Handles
    /\ spc \in {"wait", "cancel", "collect"} => Top.next = 1

\* A call owes the end of the arguments from next on.  Every handle in use is
\* owed by one call, or abandoned.
Owes(c, h) == \E j \in c.next..Len(c.args) : c.args[j] = h

UseInv ==
    /\ \A h \in Handles :
         h \in inUse <=> \/ h \in abandoned
                         \/ \E i \in 1..Len(calls) : Owes(calls[i], h)
    /\ \A h \in Handles, i \in 1..Len(calls) :
         Owes(calls[i], h) =>
           /\ h \notin abandoned
           /\ \A k \in 1..Len(calls) : Owes(calls[k], h) => k = i

IInv == TypeOK /\ CallsInv /\ UseInv

\* Whoever sets the pollable event has a handle left whose end resets it.
CancelInv ==
    peCancel =>
      /\ spc \in {"collect", "end", "run", "reset"} /\ calls # <<>>
      /\ \E h \in Handles : Owes(Top, h)
      /\ spc = "run" => Ending \notin Handles

\* The wait of h has something to report.
Told(h) == /\ wpc[h] = "done"
           /\ "error" \in result[h] \/ HasEvent(result[h])

\* A call inside of another one was made for an event; the innermost one has
\* reported one or is to end the handle that has it.
EventInv ==
    /\ \A i \in 2..Len(calls) :
         calls[i].reported /\ calls[i].args[calls[i].next] \in Handles
    /\ spc = "run" /\ calls # <<>> /\ Ending \in Handles => Top.reported
    /\ spc # "wait" /\ calls # <<>> =>
         \/ Top.excused \/ Top.reported
         \/ \E h \in Handles : Told(h) /\ Owes(Top, h)
    /\ spc = "wait" =>
         \A h \in Args(Top) \cap Handles : wpc[h] = "done" => Told(h)

EInv == CancelInv /\ EventInv

-----------------------------------------------------------------------------
(* The stack of calls.                                                      *)

LEMMA CallFacts ==
    ASSUME NEW c \in Call
    PROVE  /\ Len(c.args) \in 1..MaxArgs /\ DOMAIN c.args = 1..Len(c.args)
           /\ \A j \in 1..Len(c.args) : c.args[j] \in All
           /\ c.next \in 1..MaxArgs + 1
           /\ c.reported \in BOOLEAN /\ c.excused \in BOOLEAN
<1> USE BoundsAssumption
<1>1. PICK n \in 1..MaxArgs : c.args \in [1..n -> All]
      BY DEF Call
<1>2. c.args \in Seq(All) /\ Len(c.args) = n
      BY <1>1
<1> QED BY <1>1, <1>2 DEF Call

\* The innermost call becomes c.
IsTopSet(c) ==
    /\ c \in Call /\ calls' \in Seq(Call)
    /\ Len(calls) >= 1 /\ Len(calls') = Len(calls)
    /\ Top = calls[1] /\ calls[1] \in Call
    /\ Head(calls') = c /\ calls'[1] = c
    /\ \A i \in 2..Len(calls) : calls'[i] = calls[i]

LEMMA SetTopFacts ==
    ASSUME calls \in Seq(Call), calls # <<>>, NEW c \in Call, SetTop(c)
    PROVE  IsTopSet(c)
<1>1. calls' = <<c>> \o Tail(calls) /\ Tail(calls) \in Seq(Call)
      BY DEF SetTop
<1>2. Len(Tail(calls)) = Len(calls) - 1 /\ Len(calls) \in Nat /\ Len(calls) >= 1
      BY <1>1
<1>3. /\ calls' \in Seq(Call) /\ Len(calls') = 1 + Len(Tail(calls))
      /\ calls'[1] = c
      /\ \A i \in 2..Len(calls) : calls'[i] = Tail(calls)[i - 1]
      BY <1>1, <1>2
<1>4. \A i \in 2..Len(calls) : Tail(calls)[i - 1] = calls[i]
      BY <1>2
<1>5. Head(calls') = calls'[1] /\ Head(calls) = calls[1] /\ calls[1] \in Call
      BY <1>2, <1>3
<1> QED BY <1>2, <1>3, <1>4, <1>5 DEF IsTopSet, Top

LEMMA TopFacts ==
    ASSUME IInv, calls # <<>>
    PROVE  /\ Len(calls) \in Nat /\ Len(calls) >= 1
           /\ Top = calls[1] /\ Top \in Call
BY DEF IInv, TypeOK, Top

\* A handle ends in the innermost call: D is that handle, or none.
LEMMA TopKeepsUse ==
    ASSUME IInv, NEW c, IsTopSet(c), NEW D, inUse' = inUse \ D,
           UNCHANGED abandoned,
           \A h \in Handles : Owes(Top, h) <=> Owes(c, h) \/ h \in D,
           \A h \in D : ~Owes(c, h)
    PROVE  UseInv'
<1> USE DEF IsTopSet
<1>1. \A h \in Handles : \A i \in 1..Len(calls) :
        Owes(calls'[i], h) <=> Owes(calls[i], h) /\ (h \in D => i # 1)
      BY DEF IInv, TypeOK
<1>2. \A h \in Handles : h \in D => Owes(calls[1], h)
      OBVIOUS
<1>3. Len(calls') = Len(calls) /\ 1 \in 1..Len(calls)
      BY DEF IInv, TypeOK
<1> HIDE DEF IsTopSet
<1>4. \A h \in Handles :
        h \in inUse' <=> \/ h \in abandoned'
                         \/ \E i \in 1..Len(calls') : Owes(calls'[i], h)
      BY <1>1, <1>2, <1>3 DEF IInv, UseInv
<1>5. \A h \in Handles, i \in 1..Len(calls') :
        Owes(calls'[i], h) =>
          /\ h \notin abandoned'
          /\ \A k \in 1..Len(calls') : Owes(calls'[k], h) => k = i
      BY <1>1, <1>3 DEF IInv, UseInv
<1> QED BY <1>4, <1>5 DEF UseInv

\* The next argument is no longer owed.
LEMMA NextOwes ==
    ASSUME IInv, calls # <<>>, Top.next <= Len(Top.args),
           NEW c, c.args = Top.args, c.next = Top.next + 1
    PROVE  /\ \A h : Owes(Top, h) <=> Owes(c, h) \/ h = Ending
           /\ ~Owes(c, Ending)
<1>1. /\ Top = calls[1] /\ 1 \in 1..Len(calls)
      /\ Top.next \in 1..Len(Top.args) /\ Len(Top.args) \in Nat
      BY TopFacts, CallFacts
<1>2. \A j \in 1..Len(Top.args) : Top.args[j] = Ending => j = Top.next
      BY <1>1 DEF IInv, CallsInv, Ending
<1> QED BY <1>1, <1>2 DEF Owes, Ending

-----------------------------------------------------------------------------
(* The handles in use.                                                      *)

LEMMA WaitsKeepUse ==
    ASSUME IInv,
           \/ \E h \in Handles :
                Arrive(h) \/ PollReturns(h) \/ PollFails(h) \/ Receive(h)
           \/ \E h \in Timers : TimerReturns(h)
    PROVE  IInv'
<1> USE DEF Arrive, PollReturns, PollFails, Receive, TimerReturns, Returns
<1>1. UNCHANGED <<peCancel, inUse, abandoned, spc, calls>>
      OBVIOUS
<1>2. wpc' \in [All -> {"idle", "wait", "done"}] /\ ready' \subseteq Handles
      BY DEF IInv, TypeOK, All
<1>3. result' \in [All -> Results]
  <2>1. \A w : w \subseteq {"event", "cancel", "error"} => w \in Results
        BY DEF Results
  <2> QED BY <2>1 DEF IInv, TypeOK, All
<1>4. TypeOK'
      BY <1>1, <1>2, <1>3 DEF IInv, TypeOK
<1>5. CallsInv' /\ UseInv'
      BY <1>1 DEF IInv, CallsInv, UseInv, Top, Ending
<1> QED BY <1>4, <1>5 DEF IInv

\* The innermost call goes on in the same argument.
LEMMA SameNextKeeps ==
    ASSUME IInv, NEW c, IsTopSet(c), c.args = Top.args, c.next = Top.next,
           UNCHANGED <<inUse, abandoned>>, TypeOK',
           spc \in {"run", "reset"} \/ spc' \notin {"run", "reset"}
             \/ c.next <= Len(c.args),
           spc' = "reset" => c.args[c.next] \in Handles,
           spc \in {"wait", "cancel", "collect"}
             \/ spc' \notin {"wait", "cancel", "collect"}
    PROVE  IInv'
<1>1. CallsInv'
  <2>1. /\ Top = calls[1] /\ Top' = c /\ 1 \in 1..Len(calls)
        /\ Len(calls') = Len(calls) /\ calls' # <<>> /\ calls # <<>>
        BY DEF IInv, TypeOK, IsTopSet, Top
  <2>2. \A i \in 1..Len(calls) :
          /\ calls'[i].args = calls[i].args /\ calls'[i].next = calls[i].next
          /\ i = 1 => calls'[i] = c
        BY <2>1 DEF IsTopSet, IInv, TypeOK
  <2>3. \A i \in 1..Len(calls') :
          /\ \A j, k \in 1..Len(calls'[i].args) :
               calls'[i].args[j] = calls'[i].args[k] => j = k
          /\ i > 1 => calls'[i].next <= Len(calls'[i].args)
        BY <2>1, <2>2 DEF IInv, CallsInv
  <2>4. spc' \in {"run", "reset"} => c.next <= Len(c.args)
        BY <2>1 DEF IInv, CallsInv
  <2>5. \A i \in 1..Len(calls') : i > 1 \/ calls'[i] = c
        BY <2>1, <2>2
  <2>6. spc' \in {"wait", "cancel", "collect"} => c.next = 1
        BY DEF IInv, CallsInv
  <2> QED BY <2>1, <2>3, <2>4, <2>5, <2>6 DEF CallsInv, Ending
<1>2. \A h \in Handles : Owes(Top, h) <=> Owes(c, h)
      BY DEF Owes
<1>3. UseInv'
      BY <1>2, TopKeepsUse, inUse' = inUse \ {}
<1> QED BY <1>1, <1>3 DEF IInv

\* Only the place of the script changes.
LEMMA SameCallKeeps ==
    ASSUME IInv, calls # <<>>, UNCHANGED <<inUse, abandoned, calls>>, TypeOK',
           spc \in {"run", "reset"} \/ spc' \notin {"run", "reset"}
             \/ Top.next <= Len(Top.args),
           spc' = "reset" => Ending \in Handles,
           spc \in {"wait", "cancel", "collect"}
             \/ spc' \notin {"wait", "cancel", "collect"}
    PROVE  IInv'
<1>1. CallsInv'
  <2>1. Top' = Top /\ Ending' = Ending
        BY DEF Top, Ending
  <2> QED BY <2>1, TopFacts DEF IInv, CallsInv
<1>2. UseInv'
      BY DEF IInv, UseInv
<1> QED BY <1>1, <1>2 DEF IInv

LEMMA WaitSignalsKeepsUse ==
    ASSUME IInv, WaitSignals PROVE IInv' /\ \E c : IsTopSet(c)
           /\ c = [Top EXCEPT !.excused =
                     \E h \in Args(Top) \cap Timers : wpc[h] = "done"]
<1> DEFINE c == [Top EXCEPT !.excused =
                   \E h \in Args(Top) \cap Timers : wpc[h] = "done"]
<1>1. /\ spc = "wait" /\ spc' = "cancel" /\ SetTop(c)
      /\ UNCHANGED <<peCancel, inUse, ready, wpc, result, abandoned>>
      BY DEF WaitSignals, Step
<1>2. calls # <<>> /\ Top \in Call
      BY <1>1, TopFacts DEF IInv, CallsInv
<1>3. c \in Call /\ c.args = Top.args /\ c.next = Top.next
      BY <1>2 DEF Call
<1> HIDE DEF c
<1>4. IsTopSet(c)
      BY <1>1, <1>2, <1>3, SetTopFacts DEF IInv, TypeOK
<1>5. TypeOK'
      BY <1>1, <1>4 DEF IInv, TypeOK, IsTopSet
<1>6. IInv'
      BY <1>1, <1>3, <1>4, <1>5, SameNextKeeps
<1> QED BY <1>4, <1>6 DEF c

LEMMA CancelWaitsKeepsUse ==
    ASSUME IInv, CancelWaits \/ Collect \/ EndWaitSets PROVE IInv'
<1> USE DEF CancelWaits, Collect, EndWaitSets, Step
<1>1. UNCHANGED <<inUse, ready, calls, abandoned>> /\ calls # <<>>
      BY DEF IInv, CallsInv
<1>2. peCancel' \in BOOLEAN
      BY DEF IInv, TypeOK, SetEvent
<1>3. /\ wpc' \in [All -> {"idle", "wait", "done"}]
      /\ result' \in [All -> Results]
  <2>1. {} \in Results
        BY DEF Results
  <2> QED BY <2>1 DEF IInv, TypeOK
<1>4. TypeOK'
      BY <1>1, <1>2, <1>3 DEF IInv, TypeOK
<1> QED BY <1>1, <1>4, SameCallKeeps

\* An argument has ended: the call goes on with the next one.
LEMMA NextArgumentKeeps ==
    ASSUME IInv, NEW c, IsTopSet(c), c.args = Top.args,
           c.next = Top.next + 1, Top.next <= Len(Top.args),
           inUse' = inUse \ {Ending}, UNCHANGED abandoned, TypeOK',
           spc' = "end"
    PROVE  IInv'
<1>1. calls # <<>>
      BY DEF IsTopSet, IInv, TypeOK
<1>2. CallsInv'
      BY DEF IInv, TypeOK, CallsInv, IsTopSet, Top, Ending
<1> DEFINE D == {Ending}
<1>3. /\ \A h \in Handles : Owes(Top, h) <=> Owes(c, h) \/ h \in D
      /\ \A h \in D : ~Owes(c, h)
      /\ inUse' = inUse \ D /\ UNCHANGED abandoned
      BY <1>1, NextOwes
<1> HIDE DEF D
<1>4. UseInv'
      BY <1>3, TopKeepsUse
<1> QED BY <1>2, <1>4 DEF IInv

LEMMA EndWaitResetsKeepsUse ==
    ASSUME IInv, EndWaitResets PROVE IInv'
<1>1. /\ spc = "reset" /\ peCancel' = FALSE
      /\ UNCHANGED <<ready, result, abandoned>>
      /\ calls # <<>> /\ Top \in Call /\ Top.next <= Len(Top.args)
      /\ Ending \in Handles
  <2>1. /\ spc = "reset" /\ peCancel' = FALSE
        /\ UNCHANGED <<ready, result, abandoned>>
        BY DEF EndWaitResets, WaitForPollableEvent
  <2>2. calls # <<>>
        BY <2>1 DEF IInv, CallsInv
  <2> QED BY <2>1, <2>2, TopFacts DEF IInv, CallsInv
<1>2. CASE HasEvent(result[Ending])
  <2> DEFINE c == [Top EXCEPT !.reported = TRUE]
  <2>1. spc' = "run" /\ SetTop(c) /\ UNCHANGED <<inUse, wpc, abandoned>>
        BY <1>2 DEF EndWaitResets
  <2>2. c \in Call /\ c.args = Top.args /\ c.next = Top.next
        BY <1>1 DEF Call
  <2> HIDE DEF c
  <2>3. IsTopSet(c)
        BY <1>1, <2>1, <2>2, SetTopFacts DEF IInv, TypeOK
  <2>4. TypeOK'
        BY <1>1, <2>1, <2>3 DEF IInv, TypeOK, IsTopSet
  <2> QED BY <1>1, <2>1, <2>2, <2>3, <2>4, SameNextKeeps
<1>3. CASE ~HasEvent(result[Ending])
  <2> DEFINE c == [Top EXCEPT !.next = @ + 1,
                              !.excused = @ \/ "error" \in result[Ending]]
  <2>1. /\ spc' = "end" /\ SetTop(c) /\ inUse' = inUse \ {Ending}
        /\ wpc' = [wpc EXCEPT ![Ending] = "idle"]
        BY <1>3 DEF EndWaitResets
  <2>2. c \in Call /\ c.args = Top.args /\ c.next = Top.next + 1
    <3>1. Top.next + 1 \in 1..MaxArgs + 1
          BY <1>1, CallFacts, BoundsAssumption
    <3> QED BY <1>1, <3>1 DEF Call
  <2> HIDE DEF c
  <2>3. IsTopSet(c)
        BY <1>1, <2>1, <2>2, SetTopFacts DEF IInv, TypeOK
  <2>4. TypeOK'
    <3>1. Ending \notin abandoned
      <4>1. Owes(calls[1], Ending) /\ 1 \in 1..Len(calls)
            BY <1>1, TopFacts, CallFacts DEF Owes, Ending
      <4> QED BY <1>1, <4>1 DEF IInv, UseInv
    <3> QED BY <1>1, <2>1, <2>3, <3>1 DEF IInv, TypeOK, IsTopSet
  <2> QED BY <1>1, <2>1, <2>2, <2>3, <2>4, NextArgumentKeeps
<1> QED BY <1>2, <1>3

LEMMA EndTimerKeepsUse ==
    ASSUME IInv, EndTimer PROVE IInv'
<1> DEFINE c == [Top EXCEPT !.reported = @ \/ "event" \in result[Ending]]
<1>1. /\ spc = "end" /\ spc' = "run" /\ SetTop(c)
      /\ Top.next <= Len(Top.args)
      /\ UNCHANGED <<peCancel, inUse, ready, wpc, result, abandoned>>
      BY DEF EndTimer, Step
<1>2. calls # <<>> /\ Top \in Call
      BY <1>1, TopFacts DEF IInv, CallsInv
<1>3. c \in Call /\ c.args = Top.args /\ c.next = Top.next
      BY <1>2, CallFacts DEF Call
<1> HIDE DEF c
<1>4. IsTopSet(c)
      BY <1>1, <1>2, <1>3, SetTopFacts DEF IInv, TypeOK
<1>5. TypeOK'
      BY <1>1, <1>4 DEF IInv, TypeOK, IsTopSet
<1> QED BY <1>1, <1>3, <1>4, <1>5, SameNextKeeps

LEMMA CallbackReturnsKeepsUse ==
    ASSUME IInv, CallbackReturns PROVE IInv'
<1>1. PICK ok \in BOOLEAN :
        /\ inUse' = inUse \ {Ending}
        /\ SetTop([Top EXCEPT !.next = @ + 1, !.excused = @ \/ ~ok])
      BY DEF CallbackReturns, Freed
<1> DEFINE c == [Top EXCEPT !.next = @ + 1, !.excused = @ \/ ~ok]
<1>2. /\ spc = "run" /\ spc' = "end" /\ calls # <<>>
      /\ wpc' = [wpc EXCEPT ![Ending] = "idle"]
      /\ UNCHANGED <<peCancel, ready, result, abandoned>>
      BY DEF CallbackReturns, Step
<1>3. Top \in Call /\ Top.next <= Len(Top.args) /\ Top = calls[1]
      /\ 1 \in 1..Len(calls)
      BY <1>2, TopFacts DEF IInv, CallsInv
<1>4. c \in Call /\ c.args = Top.args /\ c.next = Top.next + 1
  <2>1. Top.next + 1 \in 1..MaxArgs + 1
        BY <1>3, CallFacts, BoundsAssumption
  <2> QED BY <1>3, <2>1 DEF Call
<1>5. SetTop(c)
      BY <1>1
<1> HIDE DEF c
<1>6. IsTopSet(c)
      BY <1>2, <1>4, <1>5, SetTopFacts DEF IInv, TypeOK
<1>7. TypeOK'
  <2>1. Ending \notin abandoned
    <3>1. Owes(calls[1], Ending)
          BY <1>3, CallFacts DEF Owes, Ending
    <3> QED BY <1>3, <3>1 DEF IInv, TypeOK, UseInv
  <2> QED BY <1>1, <1>2, <1>6, <2>1 DEF IInv, TypeOK, IsTopSet
<1> QED BY <1>1, <1>2, <1>3, <1>4, <1>6, <1>7, NextArgumentKeeps

LEMMA PrepareThrowsKeepsUse ==
    ASSUME IInv, NEW args \in ArgLists, PrepareThrows(args) PROVE IInv'
<1>1. UNCHANGED <<peCancel, ready, wpc, result, spc, calls>>
      BY DEF PrepareThrows
<1>2. PICK left \in SUBSET Handles :
        /\ inUse' = inUse \cup left
        /\ abandoned' = abandoned \cup (left \ inUse)
      BY DEF PrepareThrows
<1>3. TypeOK'
      BY <1>1, <1>2 DEF IInv, TypeOK
<1>4. CallsInv'
      BY <1>1 DEF IInv, CallsInv, Top, Ending
<1>5. UseInv'
      BY <1>1, <1>2 DEF IInv, UseInv
<1> QED BY <1>3, <1>4, <1>5 DEF IInv

\* A call with the arguments args is pushed.
IsPushed(args) ==
    /\ calls' \in Seq(Call) /\ Len(calls') = Len(calls) + 1
    /\ calls'[1] = [args |-> args, next |-> 1, reported |-> FALSE,
                    excused |-> FALSE]
    /\ Head(calls') = calls'[1] /\ calls'[1] \in Call
    /\ \A i \in 1..Len(calls) : calls'[i + 1] = calls[i]

LEMMA PushFacts ==
    ASSUME IInv, NEW args \in ArgLists, ProcessEvents(args)
    PROVE  IsPushed(args)
<1> DEFINE c == [args |-> args, next |-> 1, reported |-> FALSE,
                 excused |-> FALSE]
<1>1. c \in Call
      BY BoundsAssumption DEF Call, ArgLists
<1>2. calls \in Seq(Call) /\ calls' = <<c>> \o calls
      BY DEF IInv, TypeOK, ProcessEvents
<1> HIDE DEF c
<1>3. /\ calls' \in Seq(Call) /\ Len(calls') = 1 + Len(calls)
      /\ calls'[1] = c /\ \A i \in 2..Len(calls) + 1 : calls'[i] = calls[i - 1]
      BY <1>1, <1>2
<1>4. Head(calls') = calls'[1] /\ Len(calls) \in Nat
      BY <1>2, <1>3
<1>5. \A i \in 1..Len(calls) : calls'[i + 1] = calls[i]
      BY <1>3, <1>4
<1> QED BY <1>1, <1>3, <1>4, <1>5 DEF IsPushed, c

LEMMA ProcessEventsKeepsUse ==
    ASSUME IInv, NEW args \in ArgLists, ProcessEvents(args) PROVE IInv'
<1>1. /\ spc = "run" /\ spc' = "wait" /\ CallAllowed
      /\ \A i, j \in DOMAIN args : i # j => args[i] # args[j]
      /\ \A i \in DOMAIN args : args[i] \notin inUse
      /\ inUse' = inUse \cup ({args[i] : i \in DOMAIN args} \cap Handles)
      /\ wpc' \in [All -> {"idle", "wait", "done"}]
      /\ UNCHANGED <<peCancel, ready, result, abandoned>>
      BY DEF ProcessEvents, Step, IInv, TypeOK
<1>2. IsPushed(args) /\ Len(calls) \in Nat
      BY PushFacts DEF IInv, TypeOK
<1>3. calls'[1].args = args /\ calls'[1].next = 1
      /\ DOMAIN args = 1..Len(args) /\ Len(args) \in Nat /\ Len(args) >= 1
  <2>1. calls'[1].args = args /\ calls'[1].next = 1
        BY <1>2 DEF IsPushed
  <2> QED BY <1>2, <2>1, CallFacts, BoundsAssumption DEF IsPushed
<1>4. Len(calls') <= MaxDepth
      BY <1>1, <1>2, BoundsAssumption DEF CallAllowed, IsPushed, IInv, TypeOK
<1>5. TypeOK'
      BY <1>1, <1>2, <1>4 DEF IInv, TypeOK, IsPushed
<1>6. \A i \in 1..Len(calls') :
        \/ i = 1
        \/ i > 1 /\ i - 1 \in 1..Len(calls) /\ calls'[i] = calls[i - 1]
      BY <1>2 DEF IsPushed
<1>7. CallsInv'
  <2>1. \A i \in 1..Len(calls') :
          /\ \A j, k \in 1..Len(calls'[i].args) :
               calls'[i].args[j] = calls'[i].args[k] => j = k
          /\ i > 1 => calls'[i].next <= Len(calls'[i].args)
    <3> TAKE i \in 1..Len(calls')
    <3>1. CASE i = 1
          BY <1>1, <1>3, <3>1
    <3>2. CASE i - 1 \in 1..Len(calls) /\ calls'[i] = calls[i - 1]
          BY <1>1, <3>2 DEF IInv, CallsInv
    <3> QED BY <1>6, <3>1, <3>2
  <2>2. calls' # <<>> /\ Top'.next = 1
        BY <1>2, <1>3 DEF IsPushed, Top
  <2> QED BY <1>1, <2>1, <2>2 DEF CallsInv
<1>8. UseInv'
  <2>1. \A h \in Handles :
          Owes(calls'[1], h) <=> \E j \in DOMAIN args : args[j] = h
        BY <1>3 DEF Owes
  <2>2. \A h \in Handles :
          h \in inUse' <=> h \in inUse \/ Owes(calls'[1], h)
        BY <1>1, <2>1
  <2>3. \A h \in Handles : Owes(calls'[1], h) => h \notin inUse
        BY <1>1, <2>1
  <2>4. \A h \in Handles : (\E i \in 1..Len(calls') : Owes(calls'[i], h))
          <=> Owes(calls'[1], h) \/ \E i \in 1..Len(calls) : Owes(calls[i], h)
    <3>1. 1 \in 1..Len(calls')
          BY <1>2 DEF IsPushed
    <3>2. \A i \in 1..Len(calls) :
            i + 1 \in 1..Len(calls') /\ calls'[i + 1] = calls[i]
          BY <1>2 DEF IsPushed
    <3> QED BY <1>6, <3>1, <3>2
  <2>5. \A h \in Handles :
          h \in inUse' <=> \/ h \in abandoned'
                           \/ \E i \in 1..Len(calls') : Owes(calls'[i], h)
        BY <1>1, <2>2, <2>4 DEF IInv, UseInv
  <2>6. \A h \in Handles, i \in 1..Len(calls) :
          Owes(calls[i], h) => h \in inUse /\ h \notin abandoned
        BY DEF IInv, UseInv
  <2>7. ASSUME NEW h \in Handles, NEW i \in 1..Len(calls'),
               Owes(calls'[i], h)
        PROVE  /\ h \notin abandoned'
               /\ \A k \in 1..Len(calls') : Owes(calls'[k], h) => k = i
    <3>1. CASE i = 1
      <4>1. h \notin inUse
            BY <2>3, <2>7, <3>1
      <4> QED BY <1>1, <1>6, <2>6, <3>1, <4>1 DEF IInv, TypeOK
    <3>2. CASE i > 1 /\ i - 1 \in 1..Len(calls) /\ calls'[i] = calls[i - 1]
      <4>1. /\ h \notin abandoned /\ ~Owes(calls'[1], h)
            BY <2>3, <2>6, <2>7, <3>2
      <4>2. \A k \in 1..Len(calls) : Owes(calls[k], h) => k = i - 1
            BY <2>7, <3>2 DEF IInv, UseInv
      <4> QED BY <1>1, <1>6, <3>2, <4>1, <4>2
    <3> QED BY <1>6, <3>1, <3>2
  <2> QED BY <2>5, <2>7 DEF UseInv
<1> QED BY <1>5, <1>7, <1>8 DEF IInv

\* The innermost call is left.
IsPopped ==
    /\ calls' \in Seq(Call) /\ Len(calls) \in Nat /\ Len(calls) >= 1
    /\ Len(calls') = Len(calls) - 1
    /\ \A i \in 1..Len(calls') : calls'[i] = calls[i + 1]
    /\ calls' # <<>> => Head(calls') = calls[2] /\ Len(calls) >= 2

LEMMA PopFacts ==
    ASSUME IInv, Return PROVE IsPopped
<1>1. calls \in Seq(Call) /\ calls # <<>> /\ calls' = Tail(calls)
      BY DEF IInv, TypeOK, CallsInv, Return, Step
<1>2. /\ calls' \in Seq(Call) /\ Len(calls) \in Nat /\ Len(calls) >= 1
      /\ Len(calls') = Len(calls) - 1
      /\ \A i \in 1..Len(calls') : calls'[i] = calls[i + 1]
      BY <1>1
<1>3. calls' # <<>> => Head(calls') = calls'[1] /\ 1 \in 1..Len(calls')
      BY <1>2
<1> QED BY <1>2, <1>3 DEF IsPopped

LEMMA ReturnKeepsUse ==
    ASSUME IInv, Return PROVE IInv'
<1>1. /\ spc = "end" /\ spc' = "run" /\ Top.next > Len(Top.args)
      /\ UNCHANGED <<peCancel, inUse, ready, wpc, abandoned>>
      /\ result' \in [All -> Results]
  <2>1. {} \in Results
        BY DEF Results
  <2> QED BY <2>1 DEF Return, Step, IInv, TypeOK
<1>2. IsPopped
      BY PopFacts
<1>3. TypeOK'
  <2>1. Len(calls') <= MaxDepth /\ calls' \in Seq(Call)
        BY <1>2, BoundsAssumption DEF IInv, TypeOK, IsPopped
  <2> QED BY <1>1, <2>1 DEF IInv, TypeOK
<1>4. \A i \in 1..Len(calls') :
        i + 1 \in 1..Len(calls) /\ i + 1 > 1 /\ calls'[i] = calls[i + 1]
      BY <1>2 DEF IsPopped
<1>5. CallsInv'
      BY <1>1, <1>4 DEF IInv, CallsInv
<1>6. UseInv'
  <2>1. \A h : ~Owes(calls[1], h)
    <3>1. Top = calls[1] /\ Top \in Call /\ calls # <<>>
          BY <1>1, TopFacts DEF IInv, CallsInv
    <3> QED BY <1>1, <3>1, CallFacts DEF Owes
  <2>2. \A i \in 1..Len(calls) :
          \/ i = 1
          \/ i - 1 \in 1..Len(calls') /\ calls'[i - 1] = calls[i]
        BY <1>2 DEF IsPopped
  <2>3. \A h \in Handles : (\E i \in 1..Len(calls') : Owes(calls'[i], h))
          <=> \E i \in 1..Len(calls) : Owes(calls[i], h)
        BY <1>4, <2>1, <2>2
  <2>4. \A h \in Handles :
          h \in inUse' <=> \/ h \in abandoned'
                           \/ \E i \in 1..Len(calls') : Owes(calls'[i], h)
        BY <1>1, <2>3 DEF IInv, UseInv
  <2>5. ASSUME NEW h \in Handles, NEW i \in 1..Len(calls'),
               Owes(calls'[i], h)
        PROVE  /\ h \notin abandoned'
               /\ \A k \in 1..Len(calls') : Owes(calls'[k], h) => k = i
    <3>1. /\ h \notin abandoned
          /\ \A k \in 1..Len(calls) : Owes(calls[k], h) => k = i + 1
          BY <1>4, <2>5 DEF IInv, UseInv
    <3>2. \A k \in 1..Len(calls') : Owes(calls'[k], h) => k + 1 = i + 1
          BY <1>4, <3>1
    <3> QED BY <1>1, <3>1, <3>2
  <2> QED BY <2>4, <2>5 DEF UseInv
<1> QED BY <1>3, <1>5, <1>6 DEF IInv

LEMMA InitiallyUse == Init => IInv
<1> SUFFICES ASSUME Init PROVE IInv
    OBVIOUS
<1> USE DEF Init
<1>1. TypeOK
  <2>1. {} \in Results /\ calls \in Seq(Call) /\ Len(calls) = 0
        BY DEF Results
  <2>2. peCancel \in BOOLEAN
        OBVIOUS
  <2> QED BY <2>1, <2>2, BoundsAssumption DEF TypeOK
<1>2. CallsInv /\ UseInv
      BY DEF CallsInv, UseInv
<1> QED BY <1>1, <1>2 DEF IInv

LEMMA StepKeepsUse == IInv /\ [Next]_vars => IInv'
<1> SUFFICES ASSUME IInv, [Next]_vars PROVE IInv'
    OBVIOUS
<1>1. CASE CallStep
      BY <1>1, WaitSignalsKeepsUse, CancelWaitsKeepsUse,
         EndWaitResetsKeepsUse, EndTimerKeepsUse, CallbackReturnsKeepsUse,
         ReturnKeepsUse
      DEF CallStep
<1>2. CASE \E args \in ArgLists : ProcessEvents(args) \/ PrepareThrows(args)
      BY <1>2, ProcessEventsKeepsUse, PrepareThrowsKeepsUse
<1>3. CASE UNCHANGED vars
      BY <1>3 DEF vars, IInv, TypeOK, CallsInv, UseInv, Top, Ending
<1> QED BY <1>1, <1>2, <1>3, WaitsKeepUse DEF Next

-----------------------------------------------------------------------------
(* The pollable event and what is reported.                                 *)

\* The innermost call becomes c.  What a handle had to tell is reported, or the
\* handle is still to be ended.
LEMMA TopKeepsEvents ==
    ASSUME IInv, EventInv, NEW c, IsTopSet(c),
           spc # "wait", spc' # "wait",
           spc' = "run" /\ c.args[c.next] \in Handles => c.reported,
           Top.excused \/ Top.reported => c.excused \/ c.reported,
           \A h \in Handles : Told(h) /\ Owes(Top, h) =>
             c.excused \/ c.reported \/ (Told(h)' /\ Owes(c, h))
    PROVE  EventInv'
<1>1. /\ Top = calls[1] /\ Top' = c /\ Ending' = c.args[c.next]
      /\ Len(calls') = Len(calls) /\ calls # <<>>
      BY DEF IInv, TypeOK, IsTopSet, Top, Ending
<1>2. \A i \in 2..Len(calls') :
        calls'[i].reported /\ calls'[i].args[calls'[i].next] \in Handles
      BY <1>1 DEF EventInv, IsTopSet
<1>3. \/ c.excused \/ c.reported
      \/ \E h \in Handles : Told(h)' /\ Owes(c, h)
      BY <1>1 DEF EventInv
<1> QED BY <1>1, <1>2, <1>3 DEF EventInv

\* What the waits do is seen by nobody but the handle.
LEMMA WaitsKeepEvents ==
    ASSUME IInv, EInv,
           \/ \E h \in Handles :
                Arrive(h) \/ PollReturns(h) \/ PollFails(h) \/ Receive(h)
           \/ \E h \in Timers : TimerReturns(h)
    PROVE  EInv'
<1>1. UNCHANGED <<peCancel, inUse, abandoned, spc, calls>>
      BY DEF Arrive, PollReturns, PollFails, Receive, TimerReturns, Returns
<1>2. CancelInv'
      BY <1>1 DEF EInv, CancelInv, Top, Ending
<1>3. \A h \in Handles : Told(h) => Told(h)'
      BY HandlesAssumption
      DEF Arrive, PollReturns, PollFails, Receive, TimerReturns, Returns,
          Told, IInv, TypeOK, All
<1>4. peCancel = FALSE =>
        \A h \in Handles : wpc'[h] = "done" => Told(h)' \/ wpc[h] = "done"
      BY HandlesAssumption
      DEF Arrive, PollReturns, PollFails, Receive, TimerReturns, Returns,
          Told, HasEvent, IInv, TypeOK, All
<1>5. spc = "wait" => peCancel = FALSE
      BY DEF IInv, TypeOK, EInv, CancelInv
<1>6. UNCHANGED <<Top, Ending>>
      BY <1>1 DEF Top, Ending
<1>7. EventInv'
      BY <1>1, <1>3, <1>4, <1>5, <1>6 DEF EInv, EventInv, Args
<1> QED BY <1>2, <1>7 DEF EInv

\* The wait of an argument has returned: a timer, or a handle that tells why.
LEMMA WaitSignalsKeepsEvents ==
    ASSUME IInv, EInv, WaitSignals PROVE EInv'
<1>1. PICK c : /\ IsTopSet(c)
               /\ c = [Top EXCEPT !.excused =
                         \E h \in Args(Top) \cap Timers : wpc[h] = "done"]
      BY WaitSignalsKeepsUse
<1>2. /\ spc = "wait" /\ spc' = "cancel"
      /\ UNCHANGED <<peCancel, wpc, result>>
      /\ \E h \in Args(Top) : wpc[h] = "done"
      BY DEF WaitSignals, Step
<1>3. /\ Top = calls[1] /\ Top \in Call /\ Top' = c /\ Top.next = 1
      /\ Len(calls') = Len(calls)
      BY <1>1, <1>2 DEF IInv, CallsInv, IsTopSet, Top
<1>4. /\ c.args = Top.args /\ c.next = Top.next /\ c.reported = Top.reported
      /\ (\E h \in Args(Top) \cap Timers : wpc[h] = "done") => c.excused
      BY <1>1, <1>3 DEF Call
<1>5. CancelInv'
      BY <1>2 DEF EInv, CancelInv, IInv, TypeOK
<1>6. c.excused \/ \E h \in Handles : Told(h) /\ Owes(c, h)
  <2>1. PICK h \in Args(Top) : wpc[h] = "done"
        BY <1>2
  <2>2. PICK j \in 1..Len(Top.args) : Top.args[j] = h
        BY <1>3, CallFacts DEF Args
  <2>3. Owes(c, h) /\ h \in All
        BY <1>3, <1>4, <2>2, CallFacts DEF Owes
  <2>4. h \in Handles => Told(h)
        BY <1>2, <2>1 DEF EInv, EventInv
  <2>5. h \in Timers => c.excused
        BY <1>4, <2>1
  <2> QED BY <2>3, <2>4, <2>5 DEF All
<1>7. \A i \in 2..Len(calls') :
        calls'[i].reported /\ calls'[i].args[calls'[i].next] \in Handles
      BY <1>1, <1>3 DEF IsTopSet, EInv, EventInv
<1>8. \A h : Told(h) => Told(h)'
      BY <1>2 DEF Told
<1>9. EventInv'
      BY <1>2, <1>3, <1>6, <1>7, <1>8 DEF EventInv
<1> QED BY <1>5, <1>9 DEF EInv

\* The event is set for a handle of the call.
LEMMA CancelWaitsKeepsEvents ==
    ASSUME IInv, EInv, CancelWaits PROVE EInv'
<1>1. /\ spc = "cancel" /\ spc' = "collect" /\ UNCHANGED calls
      /\ peCancel' => peCancel \/ \E h \in Args(Top) \cap Handles : TRUE
      /\ \A h \in Handles : wpc'[h] = wpc[h] /\ result'[h] = result[h]
      BY HandlesAssumption DEF CancelWaits, Step, SetEvent, All
<1>2. /\ calls # <<>> /\ Top \in Call /\ Top.next = 1
      /\ Top' = Top /\ Ending' = Ending
      BY <1>1, TopFacts DEF IInv, CallsInv, Top, Ending
<1>3. \A h \in Args(Top) : Owes(Top, h)
      BY <1>2, CallFacts DEF Args, Owes
<1>4. CancelInv'
      BY <1>1, <1>2, <1>3 DEF EInv, CancelInv
<1>5. \A h \in Handles : Told(h) => Told(h)'
      BY <1>1 DEF Told
<1>6. EventInv'
      BY <1>1, <1>2, <1>5 DEF EInv, EventInv
<1> QED BY <1>4, <1>6 DEF EInv

LEMMA CollectKeepsEvents ==
    ASSUME IInv, EInv, Collect \/ EndWaitSets PROVE EInv'
<1>1. /\ UNCHANGED <<wpc, result, calls>>
      /\ \/ spc = "collect" /\ spc' = "end" /\ UNCHANGED peCancel
         \/ /\ spc = "end" /\ spc' = "reset" /\ Ending \in Handles
            /\ Top.next <= Len(Top.args)
      BY DEF Collect, EndWaitSets, Step
<1>2. /\ calls # <<>> /\ Top \in Call
      /\ Top' = Top /\ Ending' = Ending
      BY <1>1, TopFacts DEF IInv, CallsInv, Top, Ending
<1>3. spc = "end" => Owes(Top, Ending)
      BY <1>1, <1>2, CallFacts DEF Owes, Ending
<1>4. CancelInv'
      BY <1>1, <1>2, <1>3 DEF EInv, CancelInv
<1>5. \A h \in Handles : Told(h) => Told(h)'
      BY <1>1 DEF Told
<1>6. EventInv'
      BY <1>1, <1>2, <1>5 DEF EInv, EventInv
<1> QED BY <1>4, <1>6 DEF EInv

\* endWait() of a handle leaves the event clear, and reports what there is.
LEMMA EndWaitResetsKeepsEvents ==
    ASSUME IInv, EInv, EndWaitResets PROVE EInv'
<1>1. /\ spc = "reset" /\ peCancel' = FALSE /\ UNCHANGED result
      BY DEF EndWaitResets, WaitForPollableEvent
<1>2. /\ calls # <<>> /\ Top \in Call /\ Ending \in Handles
      /\ Top.next <= Len(Top.args)
      BY <1>1, TopFacts DEF IInv, CallsInv
<1>3. CancelInv'
      BY <1>1 DEF CancelInv
<1>4. CASE HasEvent(result[Ending])
  <2> DEFINE c == [Top EXCEPT !.reported = TRUE]
  <2>1. spc' = "run" /\ SetTop(c)
        BY <1>4 DEF EndWaitResets
  <2>2. c \in Call /\ c.reported
        BY <1>2 DEF Call
  <2> HIDE DEF c
  <2>3. IsTopSet(c)
        BY <1>2, <2>1, <2>2, SetTopFacts DEF IInv, TypeOK
  <2>4. EventInv'
        BY <1>1, <2>1, <2>2, <2>3, TopKeepsEvents DEF EInv
  <2> QED BY <1>3, <2>4 DEF EInv
<1>5. CASE ~HasEvent(result[Ending])
  <2> DEFINE c == [Top EXCEPT !.next = @ + 1,
                              !.excused = @ \/ "error" \in result[Ending]]
  <2>1. /\ spc' = "end" /\ SetTop(c)
        /\ wpc' = [wpc EXCEPT ![Ending] = "idle"]
        BY <1>5 DEF EndWaitResets
  <2>2. /\ c \in Call /\ c.args = Top.args /\ c.next = Top.next + 1
        /\ c.reported = Top.reported
        /\ c.excused = (Top.excused \/ "error" \in result[Ending])
    <3>1. Top.next + 1 \in 1..MaxArgs + 1
          BY <1>2, CallFacts, BoundsAssumption
    <3> QED BY <1>2, <3>1 DEF Call
  <2> HIDE DEF c
  <2>3. IsTopSet(c)
        BY <1>2, <2>1, <2>2, SetTopFacts DEF IInv, TypeOK
  <2>4. \A h : Owes(Top, h) <=> Owes(c, h) \/ h = Ending
        BY <1>2, <2>2, NextOwes
  <2>5. \A h \in Handles : h # Ending /\ Told(h) => Told(h)'
        BY <1>1, <2>1 DEF Told, IInv, TypeOK, All
  <2>6. Told(Ending) => c.excused
        BY <1>5, <2>2 DEF Told
  <2>7. Top.excused \/ Top.reported => c.excused \/ c.reported
        BY <2>2
  <2>8. \A h \in Handles : Told(h) /\ Owes(Top, h) =>
          c.excused \/ c.reported \/ (Told(h)' /\ Owes(c, h))
        BY <2>4, <2>5, <2>6
  <2>9. EventInv'
        BY <1>1, <2>1, <2>3, <2>7, <2>8, TopKeepsEvents DEF EInv
  <2> QED BY <1>3, <2>9 DEF EInv
<1> QED BY <1>4, <1>5

LEMMA EndTimerKeepsEvents ==
    ASSUME IInv, EInv, EndTimer PROVE EInv'
<1> DEFINE c == [Top EXCEPT !.reported = @ \/ "event" \in result[Ending]]
<1>1. /\ spc = "end" /\ spc' = "run" /\ SetTop(c) /\ Ending \in Timers
      /\ UNCHANGED <<peCancel, wpc, result>>
      BY DEF EndTimer, Step
<1>2. calls # <<>> /\ Top \in Call
      BY <1>1, TopFacts DEF IInv, CallsInv
<1>3. /\ c \in Call /\ c.args = Top.args /\ c.next = Top.next
      /\ Top.excused => c.excused
      /\ Top.reported => c.reported
      BY <1>2, CallFacts DEF Call
<1> HIDE DEF c
<1>4. IsTopSet(c)
      BY <1>1, <1>2, <1>3, SetTopFacts DEF IInv, TypeOK
<1>5. /\ Top' = c /\ calls' # <<>> /\ Ending' = Ending
      /\ Ending \notin Handles /\ c.args[c.next] \notin Handles
      BY <1>1, <1>3, <1>4, HandlesAssumption
      DEF IsTopSet, Top, Ending, IInv, TypeOK
<1>6. \A h : (Owes(Top, h) <=> Owes(c, h)) /\ (Told(h) => Told(h)')
      BY <1>1, <1>3 DEF Owes, Told
<1>7. CancelInv'
      BY <1>1, <1>5, <1>6 DEF EInv, CancelInv
<1>8. EventInv'
  <2>1. spc # "wait" /\ spc' # "wait"
        BY <1>1
  <2>2. Top.excused \/ Top.reported => c.excused \/ c.reported
        BY <1>3
  <2>3. \A h \in Handles : Told(h) /\ Owes(Top, h) =>
          c.excused \/ c.reported \/ (Told(h)' /\ Owes(c, h))
        BY <1>6
  <2> QED BY <1>4, <1>5, <2>1, <2>2, <2>3, TopKeepsEvents DEF EInv
<1> QED BY <1>7, <1>8 DEF EInv

\* Behind a callback of a timer the event may be set for a later handle; behind
\* that of a handle it is clear, and the event is reported.
LEMMA CallbackReturnsKeepsEvents ==
    ASSUME IInv, EInv, CallbackReturns PROVE EInv'
<1>1. PICK ok \in BOOLEAN :
        SetTop([Top EXCEPT !.next = @ + 1, !.excused = @ \/ ~ok])
      BY DEF CallbackReturns
<1> DEFINE c == [Top EXCEPT !.next = @ + 1, !.excused = @ \/ ~ok]
<1>2. /\ spc = "run" /\ spc' = "end" /\ calls # <<>>
      /\ wpc' = [wpc EXCEPT ![Ending] = "idle"]
      /\ UNCHANGED <<peCancel, result>>
      BY DEF CallbackReturns, Step
<1>3. Top \in Call /\ Top.next <= Len(Top.args)
      BY <1>2, TopFacts DEF IInv, CallsInv
<1>4. /\ c \in Call /\ c.args = Top.args /\ c.next = Top.next + 1
      /\ Top.excused => c.excused
      /\ Top.reported => c.reported
  <2>1. Top.next + 1 \in 1..MaxArgs + 1
        BY <1>3, CallFacts, BoundsAssumption
  <2> QED BY <1>3, <2>1 DEF Call
<1>5. SetTop(c)
      BY <1>1
<1> HIDE DEF c
<1>6. IsTopSet(c)
      BY <1>2, <1>4, <1>5, SetTopFacts DEF IInv, TypeOK
<1>7. Top' = c /\ calls' # <<>>
      BY <1>6 DEF IsTopSet, Top, IInv, TypeOK
<1>8. \A h : Owes(Top, h) <=> Owes(c, h) \/ h = Ending
      BY <1>2, <1>3, <1>4, NextOwes
<1>9. CancelInv'
      BY <1>2, <1>7, <1>8 DEF EInv, CancelInv
<1>10. \A h \in Handles : h # Ending /\ Told(h) => Told(h)'
      BY <1>2 DEF Told, IInv, TypeOK, All
<1>11. Ending \in Handles => Top.reported
      BY <1>2 DEF EInv, EventInv
<1>12. \A h \in Handles : Told(h) /\ Owes(Top, h) =>
         c.excused \/ c.reported \/ (Told(h)' /\ Owes(c, h))
      BY <1>4, <1>8, <1>10, <1>11
<1>13. EventInv'
  <2>1. spc # "wait" /\ spc' # "wait" /\ spc' # "run"
        BY <1>2
  <2>2. Top.excused \/ Top.reported => c.excused \/ c.reported
        BY <1>4
  <2> QED BY <1>6, <1>12, <2>1, <2>2, TopKeepsEvents DEF EInv
<1> QED BY <1>9, <1>13 DEF EInv

\* A call is made when the event is clear.
LEMMA ProcessEventsKeepsEvents ==
    ASSUME TimersDoNotCall, IInv, EInv, NEW args \in ArgLists,
           ProcessEvents(args)
    PROVE  EInv'
<1>1. /\ spc = "run" /\ spc' = "wait" /\ UNCHANGED peCancel
      /\ calls # <<>> => Ending \in Handles
      BY DEF ProcessEvents, Step, CallAllowed, TimersDoNotCall
<1>2. CancelInv'
      BY <1>1 DEF EInv, CancelInv
<1>3. IsPushed(args) /\ Len(calls) \in Nat
      BY PushFacts DEF IInv, TypeOK
<1>4. \A i \in 2..Len(calls') :
        calls'[i].reported /\ calls'[i].args[calls'[i].next] \in Handles
  <2> TAKE i \in 2..Len(calls')
  <2>1. i - 1 \in 1..Len(calls) /\ calls'[i] = calls[i - 1]
        BY <1>3 DEF IsPushed
  <2>2. CASE i = 2
    <3>1. calls # <<>> /\ Top = calls[1] /\ calls'[i] = Top
          BY <1>3, <2>1, <2>2, TopFacts DEF IsPushed
    <3> QED BY <1>1, <3>1 DEF EInv, EventInv, Ending
  <2>3. CASE i # 2
        BY <2>1, <2>3 DEF EInv, EventInv
  <2> QED BY <2>2, <2>3
<1>5. \A h \in Args(Top') \cap Handles : wpc'[h] # "done"
  <2>1. Top' = calls'[1]
        BY <1>3 DEF IsPushed, Top
  <2> QED BY <2>1 DEF ProcessEvents, All
<1>6. EventInv'
      BY <1>1, <1>4, <1>5 DEF EventInv
<1> QED BY <1>2, <1>6 DEF EInv

\* The call that is left was made for an event that the one around it reports.
LEMMA ReturnKeepsEvents ==
    ASSUME IInv, EInv, Return PROVE EInv'
<1>1. /\ spc = "end" /\ spc' = "run" /\ Top.next > Len(Top.args)
      /\ UNCHANGED peCancel
      BY DEF Return, Step
<1>2. IsPopped
      BY PopFacts
<1>3. peCancel = FALSE
  <2>1. Top \in Call
        BY <1>1, TopFacts DEF IInv, CallsInv
  <2>2. \A h : ~Owes(Top, h)
        BY <1>1, <2>1, CallFacts DEF Owes
  <2> QED BY <2>2 DEF IInv, TypeOK, EInv, CancelInv
<1>4. CancelInv'
      BY <1>1, <1>3 DEF CancelInv
<1>5. \A i \in 1..Len(calls') :
        calls'[i].reported /\ calls'[i].args[calls'[i].next] \in Handles
      BY <1>2 DEF IsPopped, EInv, EventInv
<1>6. calls' # <<>> => Top'.reported
      BY <1>2 DEF IsPopped, Top, EInv, EventInv
<1>7. EventInv'
      BY <1>1, <1>5, <1>6 DEF EventInv
<1> QED BY <1>4, <1>7 DEF EInv

LEMMA StepKeepsEvents ==
    ASSUME TimersDoNotCall PROVE IInv /\ EInv /\ [Next]_vars => EInv'
<1> SUFFICES ASSUME IInv, EInv, [Next]_vars PROVE EInv'
    OBVIOUS
<1>1. CASE CallStep
      BY <1>1, WaitSignalsKeepsEvents, CancelWaitsKeepsEvents,
         CollectKeepsEvents, EndWaitResetsKeepsEvents, EndTimerKeepsEvents,
         CallbackReturnsKeepsEvents, ReturnKeepsEvents
      DEF CallStep
<1>2. CASE \E args \in ArgLists : ProcessEvents(args)
      BY <1>2, ProcessEventsKeepsEvents
<1>3. CASE \E args \in ArgLists : PrepareThrows(args)
  <2>1. UNCHANGED <<peCancel, wpc, result, spc, calls>>
        BY <1>3 DEF PrepareThrows
  <2> QED BY <2>1 DEF EInv, CancelInv, EventInv, Top, Ending, Told, Args
<1>4. CASE UNCHANGED vars
      BY <1>4 DEF vars, EInv, CancelInv, EventInv, Top, Ending, Told, Args
<1> QED BY <1>1, <1>2, <1>3, <1>4, WaitsKeepEvents DEF Next

LEMMA InitiallyEvents == Init => EInv
<1> SUFFICES ASSUME Init PROVE EInv
    OBVIOUS
<1> USE DEF Init
<1>1. CancelInv
      BY DEF CancelInv
<1>2. EventInv
      BY DEF EventInv
<1> QED BY <1>1, <1>2 DEF EInv
-----------------------------------------------------------------------------
(* Theorems.                                                                *)

\* The invariant of the handles in use, whatever fails.
THEOREM HandlesInductive == Spec => []IInv
BY InitiallyUse, StepKeepsUse, PTL DEF Spec

\* When no call runs, the handles in use are those that a call left behind
\* that threw before it waited: every other one was freed by endWait().
THEOREM HandlesBecomeFree == Spec => []HandlesAreRecycled
<1>1. IInv => HandlesAreRecycled
  <2> SUFFICES ASSUME IInv, calls = <<>> PROVE inUse = abandoned
      BY DEF HandlesAreRecycled
  <2>1. \A h \in Handles : h \in inUse <=> h \in abandoned
        BY DEF IInv, UseInv
  <2> QED BY <2>1 DEF IInv, TypeOK
<1> QED BY <1>1, HandlesInductive, PTL

\* The invariant of the pollable event.
THEOREM EventsInductive ==
    ASSUME TimersDoNotCall PROVE Spec => [](IInv /\ EInv)
<1>1. Init => IInv /\ EInv
      BY InitiallyUse, InitiallyEvents
<1>2. (IInv /\ EInv) /\ [Next]_vars => (IInv /\ EInv)'
      BY StepKeepsUse, StepKeepsEvents
<1> QED BY <1>1, <1>2, PTL DEF Spec

\* A call starts its polls with the event that cancels all polls clear.
THEOREM PollsForItsOwnEvents ==
    ASSUME TimersDoNotCall PROVE Spec => []WaitsWithEventClear
<1>1. EInv => WaitsWithEventClear
      BY DEF EInv, CancelInv, WaitsWithEventClear
<1> QED BY <1>1, EventsInductive, PTL

\* A call that returns has reported an event of a descriptor, unless a timer
\* ended its wait or something threw: the end of another call's handles takes
\* no event from it.
THEOREM CallsReportAnEvent ==
    ASSUME TimersDoNotCall PROVE Spec => []ReportsAnEvent
<1>1. IInv /\ EInv => ReportsAnEvent
  <2> SUFFICES ASSUME IInv, EInv, spc = "end", Top.next > Len(Top.args)
               PROVE  Top.excused \/ Top.reported
      BY DEF ReportsAnEvent
  <2>1. calls # <<>> /\ Top \in Call
        BY TopFacts DEF IInv, CallsInv
  <2>2. \A h : ~Owes(Top, h)
        BY <2>1, CallFacts DEF Owes
  <2> QED BY <2>1, <2>2 DEF EInv, EventInv
<1> QED BY <1>1, EventsInductive, PTL

\* Polls run only while the innermost call waits, and are its own.
PollInv ==
    \A h \in Handles : wpc[h] = "wait" =>
        spc \in {"wait", "cancel", "collect"} /\ h \in Args(Top)

\* "be sure that PR_Poll returns before reseting the pollable event else lock"
\* (descriptor.cpp): no poll of any call, of an outer one either, is running
\* when a handle ends.
THEOREM PollsAreOverAtTheReset == Spec => []ResetAfterPolls
<1>1. Init => PollInv
      BY DEF Init, PollInv, All
<1>2. IInv /\ PollInv /\ [Next]_vars => PollInv'
  <2> SUFFICES ASSUME IInv, PollInv, [Next]_vars PROVE PollInv'
      OBVIOUS
  <2>1. CASE UNCHANGED vars
        BY <2>1 DEF vars, PollInv, Top
  <2>2. CASE \/ \E h \in Handles :
                  Arrive(h) \/ PollReturns(h) \/ PollFails(h) \/ Receive(h)
             \/ \E h \in Timers : TimerReturns(h)
    <3>1. /\ UNCHANGED <<spc, calls>>
          /\ \A h \in Handles : wpc'[h] = "wait" => wpc[h] = "wait"
          BY <2>2 DEF Arrive, PollReturns, PollFails, Receive, TimerReturns,
             Returns, IInv, TypeOK, All
    <3> QED BY <3>1 DEF PollInv, Top
  <2>3. CASE \E args \in ArgLists : PrepareThrows(args)
        BY <2>3 DEF PrepareThrows, PollInv, Top
  <2>4. CASE \E args \in ArgLists : ProcessEvents(args)
    <3> PICK args \in ArgLists : ProcessEvents(args)
        BY <2>4
    <3>1. /\ spc = "run" /\ spc' = "wait"
          /\ wpc' = [h \in All |->
                       IF h \in Args(calls'[1]) THEN "wait" ELSE wpc[h]]
          BY DEF ProcessEvents, Step
    <3>2. calls' # <<>> /\ Head(calls') = calls'[1]
          BY DEF ProcessEvents, IInv, TypeOK
    <3>3. \A h \in Handles : wpc'[h] = "wait" => h \in Args(calls'[1])
      <4>1. \A h \in Handles : wpc[h] # "wait"
            BY <3>1 DEF PollInv
      <4> QED BY <3>1, <4>1 DEF All
    <3>4. Top' = calls'[1]
          BY <3>2 DEF Top
    <3> QED BY <3>1, <3>3, <3>4 DEF PollInv, Args
  <2>5. CASE WaitSignals
    <3> DEFINE c == [Top EXCEPT !.excused =
                       \E h \in Args(Top) \cap Timers : wpc[h] = "done"]
    <3>1. calls # <<>> /\ Top \in Call
          BY <2>5, TopFacts DEF WaitSignals, Step, IInv, CallsInv
    <3>2. SetTop(c) /\ UNCHANGED wpc /\ spc = "wait" /\ spc' = "cancel"
          BY <2>5 DEF WaitSignals, Step
    <3>3. c \in Call /\ c.args = Top.args
          BY <3>1 DEF Call
    <3>4. Head(calls') = c
          BY <3>1, <3>2, <3>3, SetTopFacts DEF IInv, TypeOK, IsTopSet
    <3> HIDE DEF c
    <3>5. Args(Top)' = Args(Top)
          BY <3>3, <3>4 DEF Args, Top
    <3> QED BY <3>2, <3>5 DEF PollInv
  <2>6. CASE CancelWaits
    <3>1. /\ UNCHANGED calls /\ spc = "cancel" /\ spc' = "collect"
          /\ \A h \in Handles : wpc'[h] = "wait" => wpc[h] = "wait"
          BY <2>6 DEF CancelWaits, Step, All
    <3> QED BY <3>1 DEF PollInv, Top
  <2>7. CASE Collect
    <3>1. UNCHANGED wpc /\ spc = "collect" /\ AllReturned(Top)
          BY <2>7 DEF Collect, Step
    <3> QED BY <3>1 DEF PollInv, AllReturned
  <2>8. CASE \/ EndWaitSets \/ EndWaitResets \/ EndTimer \/ CallbackReturns
             \/ Return
    <3>1. spc \in {"run", "end", "reset"}
          BY <2>8, Zenon DEF EndWaitSets, EndWaitResets, EndTimer,
             CallbackReturns, Return, Step
    <3>2. wpc' = wpc \/ wpc' = [wpc EXCEPT ![Ending] = "idle"]
          BY <2>8, Zenon DEF EndWaitSets, EndWaitResets, EndTimer,
             CallbackReturns, Return
    <3>3. \A h \in Handles : wpc'[h] # "wait"
          BY <3>1, <3>2 DEF PollInv, IInv, TypeOK, All
    <3> QED BY <3>3 DEF PollInv
  <2> QED BY <2>1, <2>2, <2>3, <2>4, <2>5, <2>6, <2>7, <2>8
          DEF Next, CallStep
<1>3. PollInv => ResetAfterPolls
      BY DEF PollInv, ResetAfterPolls
<1> QED BY <1>1, <1>2, <1>3, HandlesInductive, PTL DEF Spec

=============================================================================
