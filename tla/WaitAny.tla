------------------------------- MODULE WaitAny -------------------------------
(***************************************************************************)
(* What processEvents() promises to script, without threads and             *)
(* semaphores: a call blocks until the event of one of its handles has      *)
(* occurred, other events may still occur until the wait is over, then the  *)
(* handles whose event occurred, and only they, are dispatched in the order *)
(* of the arguments, and the call returns the set of their positions.       *)
(* Calls nest through the callbacks that dispatching runs.                  *)
(***************************************************************************)
EXTENDS Integers, Sequences

CONSTANTS Handles, MaxItem, MaxDepth

VARIABLES
    phase,   \* "script", "waiting", "dispatching" or "ended"
    depth,   \* number of calls in progress
    args,    \* the arguments of each of them
    events,  \* the positions of the arguments whose event occurred
    next,    \* the next position to dispatch
    report   \* the positions reported so far

vars == <<phase, depth, args, events, next, report>>

Slots == 1..MaxItem
ArgLists == UNION {[1..n -> Handles] : n \in Slots}

Init ==
    /\ phase = "script"
    /\ depth = 0
    /\ args = [d \in 1..MaxDepth |-> <<>>]
    /\ events = [d \in 1..MaxDepth |-> {}]
    /\ next = [d \in 1..MaxDepth |-> 1]
    /\ report = [d \in 1..MaxDepth |-> {}]

\* Script calls processEvents(a).
Call(a) ==
    /\ phase = "script"
    /\ depth < MaxDepth
    /\ phase' = "waiting"
    /\ depth' = depth + 1
    /\ args' = [args EXCEPT ![depth + 1] = a]
    /\ UNCHANGED <<events, next, report>>

\* The event of an argument occurs.
Occur(i) ==
    /\ phase = "waiting"
    /\ i \notin events[depth]
    /\ events' = [events EXCEPT ![depth] = @ \cup {i}]
    /\ UNCHANGED <<phase, depth, args, next, report>>

\* The wait is over: one event has occurred at least.
Wake ==
    /\ phase = "waiting"
    /\ events[depth] # {}
    /\ phase' = "dispatching"
    /\ UNCHANGED <<depth, args, events, next, report>>

\* The next handle in order: one whose event occurred is reported, and its
\* callback may run script.
Dispatch ==
    /\ phase = "dispatching"
    /\ next[depth] <= Len(args[depth])
    /\ next' = [next EXCEPT ![depth] = @ + 1]
    /\ IF next[depth] \in events[depth]
       THEN /\ report' = [report EXCEPT ![depth] = @ \cup {next[depth]}]
            /\ phase' \in {"dispatching", "script"}
       ELSE UNCHANGED <<report, phase>>
    /\ UNCHANGED <<depth, args, events>>

\* The callback ends.
Resume ==
    /\ phase = "script"
    /\ depth > 0
    /\ phase' = "dispatching"
    /\ UNCHANGED <<depth, args, events, next, report>>

\* The call returns report[depth], the positions of all events.
Return ==
    /\ phase = "dispatching"
    /\ next[depth] > Len(args[depth])
    /\ report[depth] = events[depth]
    /\ phase' = "script"
    /\ depth' = depth - 1
    /\ args' = [args EXCEPT ![depth] = <<>>]
    /\ events' = [events EXCEPT ![depth] = {}]
    /\ next' = [next EXCEPT ![depth] = 1]
    /\ report' = [report EXCEPT ![depth] = {}]

\* The runtime is destroyed.
End ==
    /\ phase = "script"
    /\ depth = 0
    /\ phase' = "ended"
    /\ UNCHANGED <<depth, args, events, next, report>>

Next ==
    \/ \E a \in ArgLists : Call(a)
    \/ \E i \in Slots : Occur(i)
    \/ Wake \/ Dispatch \/ Resume \/ Return \/ End

Spec == Init /\ [][Next]_vars

=============================================================================
