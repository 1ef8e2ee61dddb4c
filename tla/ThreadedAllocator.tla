-------------------------- MODULE ThreadedAllocator --------------------------
(***************************************************************************)
(* The threaded memory deallocator of the host (src/src/host/host2.cpp):    *)
(* _free() does not free a block, it pushes it on a chain that runs through *)
(* the first word of the blocks; a low-priority thread frees the chain.     *)
(* There is no lock: freeHead() never frees the head of the chain, so that  *)
(* a push can happen at any time, and the destructor frees what is left.    *)
(*                                                                          *)
(* One action is one access to a static member or to the first word of a    *)
(* block, in program order: the members are volatile, but for the pointer   *)
(* _head, whose store follows the link it publishes on the compilers the    *)
(* project builds with.  Sizes are abstracted: any block may be a big one.  *)
(***************************************************************************)
EXTENDS Integers

CONSTANTS
    Blocks,     \* the memory blocks of the base allocator
    Freers,     \* the threads that call _free()
    Owner,      \* the one that constructs and destroys the allocator
    MAX_LOAD

ASSUME OwnerAssumption == Owner \in Freers
ASSUME MaxLoadAssumption == MAX_LOAD \in Nat \ {0, 1}

NULL == "NULL"
Worker == "worker"
ASSUME NamesAssumption == NULL \notin Blocks /\ Worker \notin Freers

VARIABLES
    \* the base allocator and the blocks
    blk,        \* "free", "live": the program's, "queued": passed to _free(),
                \* "twice": freed although it was free
    link,       \* the first word of a block
    \* the static members
    head, headLength, load, sem, threadAction, canTrigger, skipCleanup,
    raced,      \* history: the thread ran before the constructor had ended
    \* the threads
    pc, ptr,    \* of a freer: the argument of _free()
    it          \* of a thread inside freeHead(): next block to look at

memVars == <<blk, link>>
loadVars == <<headLength, load>>
syncVars == <<sem, threadAction, canTrigger>>
flags == <<skipCleanup, raced>>
locals == <<ptr, it>>
vars == <<memVars, head, loadVars, syncVars, flags, pc, locals>>

FreerPC == {"construct", "first", "run", "test", "push", "setHead", "count",
            "trigger", "untrigger", "process", "post",
            "exit", "postExit", "join", "done"}
HeadPC == {"reset", "readHead", "cut", "walk"}
WorkerPC == {"arm", "acquire", "dispatch", "cleanup", "loop", "unarm",
             "exited"} \cup HeadPC
PC == FreerPC \cup WorkerPC \cup {"freeLast"}
Threads == Freers \cup {Worker}

TypeOK ==
    /\ blk \in [Blocks -> {"free", "live", "queued", "twice"}]
    /\ link \in [Blocks -> Blocks \cup {NULL}]
    /\ head \in Blocks \cup {NULL}
    /\ headLength \in Nat
    /\ load \in Nat
    /\ sem \in Nat
    /\ threadAction \in {"exit", "process"}
    /\ canTrigger \in BOOLEAN
    /\ skipCleanup \in BOOLEAN
    /\ raced \in BOOLEAN
    /\ pc \in [Threads -> PC]
    /\ ptr \in [Freers -> Blocks \cup {NULL}]
    /\ it \in [Threads -> Blocks \cup {NULL}]

\* The constructor up to JLThreadStart(); the program owns any blocks.
Init ==
    /\ blk \in [Blocks -> {"free", "live"}]
    /\ \E b \in Blocks : blk[b] = "free"
    /\ link = [b \in Blocks |-> NULL]
    /\ head = NULL
    /\ headLength = 0
    /\ load = 0
    /\ sem = 0
    /\ threadAction = "exit"
    /\ canTrigger = FALSE
    /\ skipCleanup = FALSE
    /\ raced = FALSE
    /\ pc = [t \in Threads |-> IF t = Worker THEN "arm"
                               ELSE IF t = Owner THEN "construct" ELSE "run"]
    /\ ptr = [f \in Freers |-> NULL]
    /\ it = [t \in Threads |-> NULL]

Goto(t, l) == pc' = [pc EXCEPT ![t] = l]

\* free() of the base allocator.
BaseFree(b) ==
    blk' = [blk EXCEPT ![b] = IF @ \in {"live", "queued"} THEN "free"
                                                          ELSE "twice"]

-----------------------------------------------------------------------------
(* The constructor, after the thread was started.                           *)

ClearTrigger ==
    /\ pc[Owner] = "construct"
    /\ canTrigger' = FALSE
    /\ Goto(Owner, "first")
    /\ UNCHANGED <<memVars, head, loadVars, sem, threadAction, flags,
                   locals>>

\* Only then other threads know the allocator.
Constructed == pc[Owner] \notin {"construct", "first"}

\* Mutant: the constructor leaves the head null.
FirstFreeNot(b) ==
    /\ pc[Owner] = "first"
    /\ blk[b] = "free"
    /\ Goto(Owner, "run")
    /\ UNCHANGED <<memVars, head, loadVars, syncVars, flags, locals>>

\* _free(_malloc(0)): the head must not be null when freeHead() runs.
FirstFree(b) ==
    /\ pc[Owner] = "first"
    /\ blk[b] = "free"
    /\ blk' = [blk EXCEPT ![b] = "queued"]
    /\ ptr' = [ptr EXCEPT ![Owner] = b]
    /\ Goto(Owner, "push")
    /\ UNCHANGED <<link, head, loadVars, syncVars, flags, it>>

-----------------------------------------------------------------------------
(* The program: _malloc() and the like, _free(), setSkipCleanup().          *)

Malloc(b) ==
    /\ blk[b] = "free"
    /\ blk' = [blk EXCEPT ![b] = "live"]
    /\ UNCHANGED <<link, head, loadVars, syncVars, flags, pc, locals>>

SetSkipCleanup ==
    /\ pc[Owner] = "run"
    /\ skipCleanup' = TRUE
    /\ UNCHANGED <<memVars, head, loadVars, syncVars, raced, pc, locals>>

Free(f, b) ==
    /\ pc[f] = "run"
    /\ Constructed
    /\ blk[b] = "live"
    /\ blk' = [blk EXCEPT ![b] = "queued"]
    /\ ptr' = [ptr EXCEPT ![f] = b]
    /\ Goto(f, "test")
    /\ UNCHANGED <<link, head, loadVars, syncVars, flags, it>>

\* The thread cannot keep pace, or the block is big: it is freed at once.
FreeNow(f) ==
    /\ pc[f] = "test"
    /\ BaseFree(ptr[f])
    /\ ptr' = [ptr EXCEPT ![f] = NULL]
    /\ Goto(f, "run")
    /\ UNCHANGED <<link, head, loadVars, syncVars, flags, it>>

FreeLater(f) ==
    /\ pc[f] = "test"
    /\ load < MAX_LOAD
    /\ Goto(f, "push")
    /\ UNCHANGED <<memVars, head, loadVars, syncVars, flags, locals>>

\* Mutant: the block is not linked to the chain.
PushUnlinked(f) ==
    /\ pc[f] = "push"
    /\ Goto(f, "setHead")
    /\ UNCHANGED <<memVars, head, loadVars, syncVars, flags, locals>>

Push(f) ==
    /\ pc[f] = "push"
    /\ link' = [link EXCEPT ![ptr[f]] = head]
    /\ Goto(f, "setHead")
    /\ UNCHANGED <<blk, head, loadVars, syncVars, flags, locals>>

SetHead(f) ==
    /\ pc[f] = "setHead"
    /\ head' = ptr[f]
    /\ ptr' = [ptr EXCEPT ![f] = NULL]
    /\ Goto(f, "count")
    /\ UNCHANGED <<memVars, loadVars, syncVars, flags, it>>

Count(f) ==
    /\ pc[f] = "count"
    /\ headLength' = headLength + 1
    /\ Goto(f, "trigger")
    /\ UNCHANGED <<memVars, head, load, syncVars, flags, locals>>

TestTrigger(f) ==
    /\ pc[f] = "trigger"
    /\ Goto(f, IF canTrigger THEN "untrigger" ELSE "run")
    /\ UNCHANGED <<memVars, head, loadVars, syncVars, flags, locals>>

Untrigger(f) ==
    /\ pc[f] = "untrigger"
    /\ canTrigger' = FALSE
    /\ Goto(f, "process")
    /\ UNCHANGED <<memVars, head, loadVars, sem, threadAction, flags,
                   locals>>

SetProcess(f) ==
    /\ pc[f] = "process"
    /\ threadAction' = "process"
    /\ Goto(f, "post")
    /\ UNCHANGED <<memVars, head, loadVars, sem, canTrigger, flags,
                   locals>>

PostProcess(f) ==
    /\ pc[f] = "post"
    /\ sem' = sem + 1
    /\ Goto(f, "run")
    /\ UNCHANGED <<memVars, head, loadVars, threadAction, canTrigger,
                   flags, locals>>

-----------------------------------------------------------------------------
(* freeHead(), called by the thread and by the destructor.                  *)

ResetLength(t) ==
    /\ pc[t] = "reset"
    /\ headLength' = 0
    /\ Goto(t, "readHead")
    /\ UNCHANGED <<memVars, head, load, syncVars, flags, locals>>

\* next = _head
ReadHead(t) ==
    /\ pc[t] = "readHead"
    /\ it' = [it EXCEPT ![t] = head]
    /\ Goto(t, "cut")
    /\ UNCHANGED <<memVars, head, loadVars, syncVars, flags, ptr>>

\* Mutant: the head keeps its link to the blocks that will be freed.
CutNot(t) ==
    /\ pc[t] = "cut"
    /\ it' = [it EXCEPT ![t] = link[it[t]]]
    /\ Goto(t, "walk")
    /\ UNCHANGED <<memVars, head, loadVars, syncVars, flags, ptr>>

\* it = *next, *next = nullptr: the chain behind the head is taken.
Cut(t) ==
    /\ pc[t] = "cut"
    /\ it' = [it EXCEPT ![t] = link[it[t]]]
    /\ link' = [link EXCEPT ![it[t]] = NULL]
    /\ Goto(t, "walk")
    /\ UNCHANGED <<blk, head, loadVars, syncVars, flags, ptr>>

\* Mutant: only one block of the chain is freed.
FreeNextOnly(t) ==
    /\ pc[t] = "walk"
    /\ it[t] # NULL
    /\ BaseFree(it[t])
    /\ it' = [it EXCEPT ![t] = NULL]
    /\ UNCHANGED <<link, head, loadVars, syncVars, flags, pc, ptr>>

FreeNext(t) ==
    /\ pc[t] = "walk"
    /\ it[t] # NULL
    /\ BaseFree(it[t])
    /\ it' = [it EXCEPT ![t] = link[it[t]]]
    /\ UNCHANGED <<link, head, loadVars, syncVars, flags, pc, ptr>>

-----------------------------------------------------------------------------
(* memoryFreeThreadProc().                                                  *)

\* Mutant: the flag is not set again.
ArmNot ==
    /\ pc[Worker] = "arm"
    /\ raced' = (raced \/ pc[Owner] = "construct")
    /\ Goto(Worker, "acquire")
    /\ UNCHANGED <<memVars, head, loadVars, syncVars, skipCleanup, locals>>

Arm ==
    /\ pc[Worker] = "arm"
    /\ canTrigger' = TRUE
    /\ raced' = (raced \/ pc[Owner] = "construct")
    /\ Goto(Worker, "acquire")
    /\ UNCHANGED <<memVars, head, loadVars, sem, threadAction, skipCleanup,
                   locals>>

Acquire ==
    /\ pc[Worker] = "acquire"
    /\ sem > 0
    /\ sem' = sem - 1
    /\ Goto(Worker, "dispatch")
    /\ UNCHANGED <<memVars, head, loadVars, threadAction, canTrigger,
                   flags, locals>>

\* Then the thread sleeps for 5 ms, unless it has to exit.
Dispatch ==
    /\ pc[Worker] = "dispatch"
    /\ Goto(Worker, IF threadAction = "exit" THEN "unarm" ELSE "cleanup")
    /\ UNCHANGED <<memVars, head, loadVars, syncVars, flags, locals>>

Cleanup ==
    /\ pc[Worker] = "cleanup"
    /\ IF skipCleanup THEN Goto(Worker, "arm") /\ UNCHANGED load
                      ELSE Goto(Worker, "loop") /\ load' = 1
    /\ UNCHANGED <<memVars, head, headLength, syncVars, flags, locals>>

Loop ==
    /\ pc[Worker] = "loop"
    /\ Goto(Worker, IF headLength # 0 THEN "reset" ELSE "arm")
    /\ UNCHANGED <<memVars, head, loadVars, syncVars, flags, locals>>

\* The chain is freed.
MoreLoad ==
    /\ pc[Worker] = "walk"
    /\ it[Worker] = NULL
    /\ load' = load + 1
    /\ Goto(Worker, "loop")
    /\ UNCHANGED <<memVars, head, headLength, syncVars, flags, locals>>

Unarm ==
    /\ pc[Worker] = "unarm"
    /\ canTrigger' = FALSE
    /\ Goto(Worker, "exited")
    /\ UNCHANGED <<memVars, head, loadVars, sem, threadAction, flags,
                   locals>>

-----------------------------------------------------------------------------
(* The destructor: nobody frees blocks any more.                            *)

\* Mutant: the order to exit is not given.
DestroyNoOrder ==
    /\ \A f \in Freers : pc[f] = "run"
    /\ pc' = [t \in Threads |-> IF t = Owner THEN "postExit"
                                ELSE IF t \in Freers THEN "done" ELSE pc[t]]
    /\ UNCHANGED <<memVars, head, loadVars, syncVars, flags, locals>>

Destroy ==
    /\ \A f \in Freers : pc[f] = "run"
    /\ threadAction' = "exit"
    /\ pc' = [t \in Threads |-> IF t = Owner THEN "postExit"
                                ELSE IF t \in Freers THEN "done" ELSE pc[t]]
    /\ UNCHANGED <<memVars, head, loadVars, sem, canTrigger, flags,
                   locals>>

PostExit ==
    /\ pc[Owner] = "postExit"
    /\ sem' = sem + 1
    /\ Goto(Owner, "join")
    /\ UNCHANGED <<memVars, head, loadVars, threadAction, canTrigger,
                   flags, locals>>

Join ==
    /\ pc[Owner] = "join"
    /\ pc[Worker] = "exited"
    /\ Goto(Owner, IF skipCleanup THEN "done" ELSE "reset")
    /\ UNCHANGED <<memVars, head, loadVars, syncVars, flags, locals>>

\* After freeHead() the head itself is freed.
FreeLast ==
    /\ pc[Owner] = "walk"
    /\ it[Owner] = NULL
    /\ BaseFree(head)
    /\ Goto(Owner, "done")
    /\ UNCHANGED <<link, head, loadVars, syncVars, flags, locals>>

-----------------------------------------------------------------------------

FreeSteps(f) ==
    \/ FreeNow(f) \/ FreeLater(f) \/ Push(f) \/ SetHead(f) \/ Count(f)
    \/ TestTrigger(f) \/ Untrigger(f) \/ SetProcess(f) \/ PostProcess(f)

FreeHead(t) == ResetLength(t) \/ ReadHead(t) \/ Cut(t) \/ FreeNext(t)

WorkerStep ==
    \/ Arm \/ Acquire \/ Dispatch \/ Cleanup \/ Loop \/ MoreLoad \/ Unarm
    \/ FreeHead(Worker)

OwnerStep ==
    \/ ClearTrigger \/ \E b \in Blocks : FirstFree(b)
    \/ PostExit \/ Join \/ FreeLast \/ FreeHead(Owner)

Program ==
    \/ \E b \in Blocks : Malloc(b)
    \/ \E f \in Freers, b \in Blocks : Free(f, b)
    \/ SetSkipCleanup
    \/ Destroy

Next == Program \/ WorkerStep \/ OwnerStep \/ \E f \in Freers : FreeSteps(f)

Spec == Init /\ [][Next]_vars

\* Threads run; nothing makes the program allocate or free.
Fairness == /\ WF_vars(WorkerStep)
            /\ WF_vars(OwnerStep)
            /\ \A f \in Freers : WF_vars(FreeSteps(f))

FairSpec == Spec /\ Fairness

-----------------------------------------------------------------------------
(* Properties.                                                              *)

\* No block is given back to the base allocator twice.
NoDoubleFree == \A b \in Blocks : blk[b] # "twice"

\* freeHead() only dereferences blocks that were passed to _free() and were
\* not freed yet; in particular the head is never null.
NoUseAfterFree ==
    \A t \in Threads :
        /\ pc[t] = "cut" => it[t] \in Blocks
        /\ pc[t] \in {"cut", "walk"} /\ it[t] # NULL => blk[it[t]] = "queued"

\* The links of the blocks of S lead to blocks of S, or end.
Closed(S) == \A c \in S : link[c] # NULL => link[c] \in S

\* The blocks of the chain that begins at b: the least set that is closed and
\* has b; none if b is null.
Chain(b) ==
    {c \in Blocks :
        \A S \in SUBSET Blocks : Closed(S) /\ b \in S \cup {NULL} => c \in S}

\* Every block passed to _free() is on its way: on the chain, taken off the
\* chain by freeHead(), or still in the hands of _free().  None is lost.
NoBlockLost ==
    \A b \in Blocks : blk[b] = "queued" =>
        \/ pc[Owner] # "done" /\ b \in Chain(head)
        \/ \E t \in Threads : pc[t] = "walk" /\ b \in Chain(it[t])
        \/ \E f \in Freers : ptr[f] = b
        \/ skipCleanup

\* A thread that sleeps on its semaphore can be woken by the next _free(),
\* unless it ran before the constructor had cleared the flag.
SleeperCanBeWoken ==
    (/\ pc[Worker] = "acquire"
     /\ ~raced
     /\ sem = 0
     /\ \A f \in Freers : pc[f] = "run")
        => canTrigger

\* A small block is freed at once only while the thread has things to free
\* ("too many things to free, the thread can not keep pace").
SynchronousOnlyUnderLoad ==
    load >= MAX_LOAD => pc[Worker] # "acquire"

\* The destructor ends: the thread is woken, finds its order and exits.
DestructorEnds == pc[Owner] = "postExit" ~> pc[Owner] = "done"

\* What is behind the head when the thread begins freeHead() is freed.
ChainIsFreed ==
    \A b \in Blocks :
        (pc[Worker] = "reset" /\ b \in Chain(head) \ {head}) ~> blk[b] = "free"
=============================================================================
