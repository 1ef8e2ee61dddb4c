--------------------------- MODULE MCProcessEvents ---------------------------
(* ProcessEvents implements WaitAny, for TLC.                               *)
EXTENDS ProcessEvents

\* The script thread as WaitAny sees it.
Phase ==
    CASE main = "script" -> "script"
      [] main \in {"endWait", "done"} -> "dispatching"
      [] main \in {"release", "wakeWorker", "join", "released"} -> "ended"
      [] OTHER -> "waiting"

\* The events of a call: what ended the waits of its arguments.
Events == [d \in 1..MaxDepth |->
             IF d <= depth THEN {i \in DOMAIN args[d] : happened[args[d][i]]}
                           ELSE {}]

\* Of a call the positions before idx are dispatched once it has woken.
NextToDispatch ==
    [d \in 1..MaxDepth |->
       IF d = depth /\ Phase = "waiting" THEN 1 ELSE idx[d]]

WaitAnySpec ==
    INSTANCE WaitAny WITH
        phase <- Phase,
        args <- [d \in 1..MaxDepth |-> args[d]],
        events <- Events,
        next <- NextToDispatch,
        report <- [d \in 1..MaxDepth |-> mask[d]]

\* The multiplexer with its threads, semaphores and cancellations behaves like
\* the one-step description of processEvents() in WaitAny.
ImplementsWaitAny == WaitAnySpec!Spec

=============================================================================
