--------------------------- MODULE DescriptorEvents ---------------------------
(***************************************************************************)
(* Descriptor.events() (src/src/jsio/descriptor.cpp, struct IOProcessEvent):*)
(* handles whose waits poll sockets, pipes and files.  All of them are      *)
(* canceled by one pollable event of the module, which is level triggered:  *)
(* it ends every poll until endWait() resets it.                            *)
(*                                                                          *)
(* processEvents() may be called again by a callback, while the handles     *)
(* behind it in the call's arguments are canceled but not ended; a stack of *)
(* calls keeps them.  What a handle's descriptors have to tell is one flag  *)
(* per handle; "timers" stand for the handles of other kinds.  The threads  *)
(* and tokens of the call are those of ProcessEvents.tla.                   *)
(***************************************************************************)
EXTENDS Integers, Sequences, FiniteSets

CONSTANTS
    Handles,        \* what Descriptor.events() returned
    Timers,         \* handles of other kinds
    MaxArgs,        \* arguments of a call
    MaxDepth,       \* calls within calls
    Faults          \* "prepare": a prepareWait() may fail
                    \* "poll": PR_Poll() may fail
                    \* "timerCalls": the callback of a timer calls
                    \*               processEvents() while descriptor handles
                    \*               behind it are to be ended

ASSUME HandlesAssumption ==
    IsFiniteSet(Handles \cup Timers) /\ Handles \cap Timers = {}
ASSUME BoundsAssumption == MaxArgs \in Nat \ {0} /\ MaxDepth \in Nat \ {0}
ASSUME FaultsAssumption == Faults \subseteq {"prepare", "poll", "timerCalls"}

VARIABLES
    peCancel,   \* the pollable event is set
    inUse,      \* the handles with a _pollDesc
    ready,      \* the handles that have a descriptor with an event
    wpc,        \* the waits
    result,     \* what PR_Poll() told: event, cancel or error
    abandoned,  \* history: what calls that threw have left in use
    spc,        \* the script
    calls       \* its calls of processEvents(), the innermost first

vars == <<peCancel, inUse, ready, wpc, result, abandoned, spc, calls>>

All == Handles \cup Timers
Results == SUBSET {"event", "cancel", "error"}

\* args: the arguments; next: the one to end; reported: eventsMask is not 0;
\* excused: a timer ended the wait, or something threw.
Call == [args : UNION {[1..n -> All] : n \in 1..MaxArgs},
         next : 1..MaxArgs + 1, reported : BOOLEAN, excused : BOOLEAN]

TypeOK ==
    /\ peCancel \in BOOLEAN
    /\ inUse \subseteq Handles /\ ready \subseteq Handles
    /\ abandoned \subseteq inUse
    /\ wpc \in [All -> {"idle", "wait", "done"}]
    /\ result \in [All -> Results]
    /\ spc \in {"run", "wait", "cancel", "collect", "end", "reset"}
    /\ calls \in Seq(Call) /\ Len(calls) <= MaxDepth

Init ==
    /\ peCancel = FALSE /\ inUse = {} /\ ready = {}
    /\ wpc = [h \in All |-> "idle"] /\ result = [h \in All |-> {}]
    /\ abandoned = {} /\ spc = "run" /\ calls = <<>>

Top == Head(calls)
Args(c) == {c.args[i] : i \in DOMAIN c.args}
Ending == Top.args[Top.next]
SetTop(c) == calls' = <<c>> \o Tail(calls)

-----------------------------------------------------------------------------
(* The waits.                                                               *)

\* Something happens on a descriptor.
Arrive(h) ==
    /\ h \notin ready /\ ready' = ready \cup {h}
    /\ UNCHANGED <<peCancel, inUse, wpc, result, spc, calls, abandoned>>

Returns(h, what) ==
    /\ wpc[h] = "wait"
    /\ wpc' = [wpc EXCEPT ![h] = "done"]
    /\ result' = [result EXCEPT ![h] = what]
    /\ UNCHANGED <<peCancel, inUse, ready, spc, calls, abandoned>>

\* startWait(): PR_Poll() returns and tells what it found.
PollReturns(h) ==
    LET found == {w \in {"event", "cancel"} :
                    IF w = "event" THEN h \in ready ELSE peCancel}
    IN  found # {} /\ Returns(h, found)

PollFails(h) == "poll" \in Faults /\ Returns(h, {"error"})

TimerReturns(h) == Returns(h, {"event"})

-----------------------------------------------------------------------------
(* processEvents()                                                          *)

Step(from, to) == spc = from /\ spc' = to

\* prepareWait() of args[i] fails: the handle is in use, or for a fault of its own.
FailsAt(args, i) ==
    /\ args[i] \in Handles
    /\ \/ args[i] \in inUse
       \/ \E j \in 1..(i - 1) : args[j] = args[i]
       \/ "prepare" \in Faults

CallAllowed ==
    calls # <<>> => Len(calls) < MaxDepth
                    /\ (Ending \in Handles \/ "timerCalls" \in Faults)

\* Throws: the handles prepared before stay in use.
PrepareThrows(args) ==
    /\ spc = "run" /\ CallAllowed
    /\ \E i \in DOMAIN args :
        /\ FailsAt(args, i)
        /\ \A j \in 1..(i - 1) : args[j] \notin inUse
        /\ LET left == {args[j] : j \in 1..i} \cap Handles
           IN  /\ inUse' = inUse \cup left
               /\ abandoned' = abandoned \cup (left \ inUse)
    /\ UNCHANGED <<peCancel, ready, wpc, result, spc, calls>>

ProcessEvents(args) ==
    /\ Step("run", "wait") /\ CallAllowed
    /\ \A i, j \in DOMAIN args : i # j => args[i] # args[j]
    /\ \A i \in DOMAIN args : wpc[args[i]] = "idle" /\ args[i] \notin inUse
    /\ inUse' = inUse \cup ({args[i] : i \in DOMAIN args} \cap Handles)
    /\ calls' = <<[args |-> args, next |-> 1, reported |-> FALSE,
                   excused |-> FALSE]>> \o calls
    /\ wpc' = [h \in All |-> IF h \in Args(calls'[1]) THEN "wait" ELSE wpc[h]]
    /\ UNCHANGED <<peCancel, ready, result, abandoned>>

WaitSignals ==
    /\ Step("wait", "cancel")
    /\ \E h \in Args(Top) : wpc[h] = "done"
    /\ SetTop([Top EXCEPT !.excused =
                 \E h \in Args(Top) \cap Timers : wpc[h] = "done"])
    /\ UNCHANGED <<peCancel, inUse, ready, wpc, result, abandoned>>

\* Mutant: cancelWait() does not set the pollable event.
SetNothing(hs) == UNCHANGED peCancel
SetEvent(hs) == peCancel' = (peCancel \/ hs # {})

\* cancelWait() of the waits that have not returned.  Those of the timers
\* return; a poll sees the event.
CancelWaits ==
    LET left == {h \in Args(Top) : wpc[h] = "wait"}
    IN  /\ Step("cancel", "collect")
        /\ SetEvent(left \cap Handles)
        /\ wpc' = [h \in All |->
                     IF h \in left \cap Timers THEN "done" ELSE wpc[h]]
        /\ result' = [h \in All |->
                     IF h \in left \cap Timers THEN {} ELSE result[h]]
        /\ UNCHANGED <<inUse, ready, calls, abandoned>>

AllReturned(c) == \A h \in Args(c) : wpc[h] = "done"

Collect ==
    /\ Step("collect", "end")
    /\ AllReturned(Top)
    /\ UNCHANGED <<peCancel, inUse, ready, wpc, result, calls, abandoned>>

\* endWait() of a descriptor handle sets the event first, so that the wait for
\* the event that resets it does not block.
EndWaitSets ==
    /\ Step("end", "reset")
    /\ Top.next <= Len(Top.args) /\ Ending \in Handles
    /\ peCancel' = TRUE
    /\ UNCHANGED <<inUse, ready, wpc, result, calls, abandoned>>

HasEvent(what) == "event" \in what /\ "cancel" \notin what

\* Mutant: the event stays set.
NotReset == UNCHANGED peCancel
WaitForPollableEvent == peCancel /\ peCancel' = FALSE

\* With an event, the callbacks of the descriptors run, which are the script.
EndWaitResets ==
    /\ spc = "reset"
    /\ WaitForPollableEvent
    /\ IF HasEvent(result[Ending])
         THEN /\ spc' = "run"
              /\ SetTop([Top EXCEPT !.reported = TRUE])
              /\ UNCHANGED <<inUse, wpc, abandoned>>
         ELSE /\ spc' = "end"
              /\ SetTop([Top EXCEPT !.next = @ + 1,
                           !.excused = @ \/ "error" \in result[Ending]])
              /\ inUse' = inUse \ {Ending}
              /\ wpc' = [wpc EXCEPT ![Ending] = "idle"]
    /\ UNCHANGED <<ready, result, abandoned>>

EndTimer ==
    /\ Step("end", "run")
    /\ Top.next <= Len(Top.args) /\ Ending \in Timers
    /\ SetTop([Top EXCEPT !.reported = @ \/ "event" \in result[Ending]])
    /\ UNCHANGED <<peCancel, inUse, ready, wpc, result, abandoned>>

\* The script reads what there is, in a callback or later.
Receive(h) ==
    /\ spc = "run" /\ h \in ready /\ ready' = ready \ {h}
    /\ UNCHANGED <<peCancel, inUse, wpc, result, spc, calls, abandoned>>

\* Mutant: the path of an exception does not free _pollDesc.
FreedWhen(ok) == IF ok THEN {Ending} ELSE {}
Freed(ok) == {Ending}

CallbackReturns ==
    /\ Step("run", "end") /\ calls # <<>>
    /\ \E ok \in BOOLEAN :
        /\ inUse' = inUse \ Freed(ok)
        /\ SetTop([Top EXCEPT !.next = @ + 1, !.excused = @ \/ ~ok])
    /\ wpc' = [wpc EXCEPT ![Ending] = "idle"]
    /\ UNCHANGED <<peCancel, ready, result, abandoned>>

Return ==
    /\ Step("end", "run")
    /\ Top.next > Len(Top.args)
    /\ calls' = Tail(calls)
    /\ result' = [h \in All |-> IF h \in Args(Top) THEN {} ELSE result[h]]
    /\ UNCHANGED <<peCancel, inUse, ready, wpc, abandoned>>

-----------------------------------------------------------------------------

ArgLists == UNION {[1..n -> All] : n \in 1..MaxArgs}

\* What a call does by itself.
CallStep ==
    \/ WaitSignals \/ CancelWaits \/ Collect \/ EndWaitSets \/ EndWaitResets
    \/ EndTimer \/ CallbackReturns \/ Return

Next ==
    \/ \E h \in Handles : Arrive(h) \/ PollReturns(h) \/ PollFails(h) \/ Receive(h)
    \/ \E h \in Timers : TimerReturns(h)
    \/ \E args \in ArgLists : ProcessEvents(args) \/ PrepareThrows(args)
    \/ CallStep

Spec == Init /\ [][Next]_vars

\* Threads run and callbacks return.  No event need arrive.
Fairness == /\ WF_vars(CallStep)
            /\ \A h \in Handles : WF_vars(PollReturns(h))

FairSpec == Spec /\ Fairness

-----------------------------------------------------------------------------
(* Properties.                                                              *)

\* "be sure that PR_Poll returns before reseting the pollable event else lock":
\* no poll of any call is still to see the event when endWait() resets it.
ResetAfterPolls ==
    spc = "reset" => \A h \in Handles : wpc[h] # "wait"

\* A call waits with the event clear: its polls end for its own events only.
WaitsWithEventClear == spc = "wait" => ~peCancel

\* The innermost call has reported a descriptor's event when it returns, unless
\* a timer ended its wait or something threw.
ReportsAnEvent ==
    (spc = "end" /\ Top.next > Len(Top.args))
        => Top.excused \/ Top.reported

\* "recycle upe event": a handle is in use only during its call.  What is left
\* in use between calls was left by calls that threw before they waited.
HandlesAreRecycled == calls = <<>> => inUse = abandoned

\* An event of a descriptor gets the call that polls it on, to its callback or
\* back to the script.
EventEndsCall ==
    (spc = "wait" /\ \E h \in Args(Top) \cap Handles : h \in ready)
        ~> spc = "run"
=============================================================================
