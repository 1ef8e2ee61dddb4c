----------------------------- MODULE SharedMemory -----------------------------
(***************************************************************************)
(* SharedMemory (src/src/jsio/sharedMemory.cpp): objects of several programs*)
(* that share the memory of a name.  A named semaphore guards the memory and*)
(* tells whoever creates it from those that open it; a count in the memory  *)
(* tells the last one, which removes both names.                            *)
(*                                                                          *)
(* The names are those of POSIX systems, external: a removed name is free   *)
(* for another semaphore or memory while those that have the old one keep   *)
(* it.  What the memory holds is the number of the last write.  read(),     *)
(* write(), clear() and content differ in nothing else.                     *)
(***************************************************************************)
EXTENDS Integers, FiniteSets

CONSTANTS
    Objects,    \* an object each, of any of the programs
    MaxOpen,    \* constructions
    MaxWrite,   \* writes
    MaxCrash,   \* programs that are killed
    Faults      \* "held": a program may be killed while it has the semaphore
                \* "attach": the memory cannot be opened or attached
                \* "define": the buffer interface cannot be set
                \* "length": the length that read() is given is no number

ASSUME ObjectsAssumption == IsFiniteSet(Objects)
ASSUME BoundsAssumption ==
    MaxOpen \in Nat /\ MaxWrite \in Nat /\ MaxCrash \in Nat
ASSUME FaultsAssumption ==
    Faults \subseteq {"held", "attach", "define", "length"}

VARIABLES
    semName, memName,   \* what the names name, 0 for nothing
    value,              \* of each semaphore
    accessCount, data,  \* struct MemHeader of each memory
    pc, sem, mem,       \* of each object
    number,             \* of its construction, and of what that makes
    isCreation, isLast,
    opens, crashes,
    written, lastWrite, \* history: writes, the last one to this name
    abandoned,          \* history: semaphores that a throw or a kill left taken
    leaked,             \* history: an object that threw was counted before
    raced               \* history: Overlap

names == <<semName, memName>>
memory == <<accessCount, data>>
object == <<sem, mem, number, isCreation, isLast>>
bounds == <<opens, crashes, written>>
history == <<lastWrite, abandoned, leaked, raced>>
vars == <<names, value, memory, pc, object, bounds, history>>

Ids == 1..MaxOpen
Attached == {p \in Objects : pc[p] \in {"post", "open", "locked", "detach"}}
Holding == {"attach", "count", "post", "locked", "detach", "closePost"}
HasSemaphore == Holding \cup {"wait", "open"}
Semaphores ==
    ({semName} \cup {sem[p] : p \in {q \in Objects : pc[q] \in HasSemaphore}})
      \ {0}

TypeOK ==
    /\ semName \in Ids \cup {0} /\ memName \in Ids \cup {0}
    /\ value \in [Ids -> 0..1]
    /\ accessCount \in [Ids -> Int] /\ data \in [Ids -> 0..MaxWrite]
    /\ pc \in [Objects -> {"closed", "exists", "wait", "attach", "count",
                           "post", "open", "locked", "detach", "closePost",
                           "deleteMem", "deleteSem"}]
    /\ sem \in [Objects -> Ids \cup {0}] /\ mem \in [Objects -> Ids \cup {0}]
    /\ number \in [Objects -> Ids \cup {0}]
    /\ isCreation \in [Objects -> BOOLEAN] /\ isLast \in [Objects -> BOOLEAN]
    /\ opens \in 0..MaxOpen /\ crashes \in 0..MaxCrash
    /\ written \in 0..MaxWrite /\ lastWrite \in 0..MaxWrite
    /\ abandoned \subseteq Ids /\ leaked \in BOOLEAN /\ raced \in BOOLEAN

Init ==
    /\ semName = 0 /\ memName = 0
    /\ value = [s \in Ids |-> 0]
    /\ accessCount = [m \in Ids |-> 0] /\ data = [m \in Ids |-> 0]
    /\ pc = [p \in Objects |-> "closed"]
    /\ sem = [p \in Objects |-> 0] /\ mem = [p \in Objects |-> 0]
    /\ number = [p \in Objects |-> 0]
    /\ isCreation = [p \in Objects |-> FALSE]
    /\ isLast = [p \in Objects |-> FALSE]
    /\ opens = 0 /\ crashes = 0 /\ written = 0 /\ lastWrite = 0
    /\ abandoned = {} /\ leaked = FALSE /\ raced = FALSE

Goes(p, from, to) == pc[p] = from /\ pc' = [pc EXCEPT ![p] = to]
Acquire(p) ==
    value[sem[p]] > 0 /\ value' = [value EXCEPT ![sem[p]] = @ - 1]

\* Mutant: the semaphore is not posted.
Keep(s) == UNCHANGED value
Post(s) == value' = [value EXCEPT ![s] = @ + 1]

\* The variables of a constructor or of an object that is gone.
Forget(p) ==
    /\ sem' = [sem EXCEPT ![p] = 0] /\ mem' = [mem EXCEPT ![p] = 0]
    /\ number' = [number EXCEPT ![p] = 0]
    /\ isCreation' = [isCreation EXCEPT ![p] = FALSE]
    /\ isLast' = [isLast EXCEPT ![p] = FALSE]

\* The semaphore stays taken, which blocks whoever acquires it.
Abandon(p) == abandoned' = abandoned \cup {sem[p]}

\* Two overlaps that the protocol leaves open: a program has got the semaphore
\* before the one that has created it, and a program has opened the name while
\* the last one closes, from where that finds itself the last to where both
\* names are removed.
OvertakesCreator ==
    \E p, q \in Objects :
        /\ pc[p] = "wait" /\ isCreation[p] = TRUE
        /\ pc[q] = "attach" /\ sem[q] = sem[p]
Remover(p) ==
    \/ pc[p] = "closePost" /\ isLast[p] = TRUE
    \/ pc[p] \in {"deleteMem", "deleteSem"}
OpensBesideRemover ==
    \E p, q \in Objects : Remover(p) /\ pc[q] = "wait"
Overlap == OvertakesCreator \/ OpensBesideRemover
NoteOverlap == raced' = IF Overlap' THEN TRUE ELSE raced

-----------------------------------------------------------------------------
(* The constructor.                                                         *)

\* PR_OpenSemaphore() with PR_SEM_EXCL | PR_SEM_CREATE
CreateSemaphore(p) ==
    /\ opens < MaxOpen /\ opens' = opens + 1
    /\ number' = [number EXCEPT ![p] = opens']
    /\ IF semName = 0
         THEN /\ Goes(p, "closed", "wait")
              /\ semName' = opens'
              /\ value' = [value EXCEPT ![semName'] = 1]
              /\ sem' = [sem EXCEPT ![p] = semName']
              /\ isCreation' = [isCreation EXCEPT ![p] = TRUE]
         ELSE /\ Goes(p, "closed", "exists")
              /\ UNCHANGED <<semName, value, sem, isCreation>>
    /\ UNCHANGED <<memName, memory, mem, isLast, crashes, written, history>>

\* PR_OpenSemaphore() of one that exists: it may no longer.
OpenSemaphore(p) ==
    /\ Goes(p, "exists", IF semName = 0 THEN "closed" ELSE "wait")
    /\ sem' = [sem EXCEPT ![p] = semName]
    /\ isCreation' = [isCreation EXCEPT ![p] = FALSE]
    /\ UNCHANGED <<names, value, memory, mem, number, isLast, bounds, lastWrite,
                   abandoned, leaked>>
    /\ NoteOverlap

WaitToOpen(p) ==
    /\ Goes(p, "wait", "attach") /\ Acquire(p)
    /\ UNCHANGED <<names, memory, object, bounds, lastWrite, abandoned, leaked>>
    /\ NoteOverlap

\* Mutant: whoever opens the memory initialises it.
AlwaysCreated(p) == TRUE
Created(p) == isCreation[p]

\* A memory that is made holds zeros.
OpenMemory(p) ==
    /\ Goes(p, "attach", "count")
    /\ IF memName = 0
         THEN /\ memName' = number[p] /\ lastWrite' = 0
              /\ accessCount' = [accessCount EXCEPT ![memName'] = 0]
              /\ data' = [data EXCEPT ![memName'] = 0]
         ELSE UNCHANGED <<memName, memory, lastWrite>>
    /\ mem' = [mem EXCEPT ![p] = memName']
    /\ number' = [number EXCEPT ![p] = 0]
    /\ UNCHANGED <<semName, value, sem, isCreation, isLast, bounds, abandoned,
                   leaked, raced>>

CountIn(p) ==
    /\ Goes(p, "count", "post")
    /\ IF Created(p)
         THEN /\ accessCount' = [accessCount EXCEPT ![mem[p]] = 0]
              /\ data' = [data EXCEPT ![mem[p]] = 0]
         ELSE /\ accessCount' = [accessCount EXCEPT ![mem[p]] = @ + 1]
              /\ UNCHANGED data
    /\ isCreation' = [isCreation EXCEPT ![p] = FALSE]
    /\ UNCHANGED <<names, value, sem, mem, number, isLast, bounds, history>>

\* The constructor throws: the semaphore is not posted.  The memory may have
\* been made.
AttachFails(p) ==
    /\ "attach" \in Faults /\ pc[p] \in {"attach", "count"}
    /\ Goes(p, pc[p], "closed") /\ Abandon(p) /\ Forget(p)
    /\ UNCHANGED <<names, value, memory, bounds, lastWrite, leaked, raced>>

PostOpen(p) ==
    /\ Goes(p, "post", "open") /\ Post(sem[p])
    /\ UNCHANGED <<names, memory, object, bounds, history>>

\* The constructor throws behind the post: it closes what it has opened, but
\* the object stays in the count.
PostOpenThrows(p) ==
    /\ "define" \in Faults
    /\ Goes(p, "post", "closed") /\ Post(sem[p])
    /\ leaked' = TRUE /\ Forget(p)
    /\ UNCHANGED <<names, memory, bounds, lastWrite, abandoned, raced>>

-----------------------------------------------------------------------------
(* read(), write(), clear() and content.                                    *)

Lock(p) ==
    /\ Goes(p, "open", "locked") /\ Acquire(p)
    /\ UNCHANGED <<names, memory, object, bounds, history>>

WriteAndUnlock(p) ==
    /\ Goes(p, "locked", "open") /\ Post(sem[p])
    /\ written < MaxWrite /\ written' = written + 1
    /\ data' = [data EXCEPT ![mem[p]] = written'] /\ lastWrite' = written'
    /\ UNCHANGED <<names, accessCount, object, opens, crashes, abandoned,
                   leaked, raced>>

ReadAndUnlock(p) ==
    /\ Goes(p, "locked", "open") /\ Post(sem[p])
    /\ UNCHANGED <<names, memory, object, bounds, history>>

\* read() converts the length it is given when it has locked the memory.
ReadThrows(p) ==
    /\ "length" \in Faults
    /\ Goes(p, "locked", "open") /\ Abandon(p)
    /\ UNCHANGED <<names, value, memory, object, bounds, lastWrite, leaked,
                   raced>>

-----------------------------------------------------------------------------
(* CloseSharedMemory(): close() and the finalizer.                          *)

WaitToClose(p) ==
    /\ Goes(p, "open", "detach") /\ Acquire(p)
    /\ UNCHANGED <<names, memory, object, bounds, history>>

\* Mutant: the count is compared after it is decremented.
ComparedLate(m) == accessCount[m] - 1 = 0
NoOther(m) == accessCount[m] = 0

\* Mutant: the count is not decremented.
SameCount(m) == UNCHANGED accessCount
CountDown(m) == accessCount' = [accessCount EXCEPT ![m] = @ - 1]

Detach(p) ==
    /\ Goes(p, "detach", "closePost")
    /\ isLast' = [isLast EXCEPT ![p] = NoOther(mem[p])]
    /\ CountDown(mem[p])
    /\ mem' = [mem EXCEPT ![p] = 0]
    /\ UNCHANGED <<names, value, data, sem, number, isCreation, bounds,
                   lastWrite, abandoned, leaked>>
    /\ NoteOverlap

PostClose(p) ==
    /\ Goes(p, "closePost", IF isLast[p] THEN "deleteMem" ELSE "closed")
    /\ Post(sem[p])
    /\ sem' = [sem EXCEPT ![p] = 0]
    /\ UNCHANGED <<names, memory, mem, number, isCreation, isLast, bounds,
                   history>>

\* Without the name there is nothing to delete, and close() throws.  The object
\* then keeps what it has closed; nothing uses it again.
DeleteMemory(p) ==
    /\ Goes(p, "deleteMem", IF memName = 0 THEN "closed" ELSE "deleteSem")
    /\ memName' = 0 /\ Forget(p)
    /\ UNCHANGED <<semName, value, memory, bounds, history>>

DeleteSemaphore(p) ==
    /\ Goes(p, "deleteSem", "closed")
    /\ semName' = 0
    /\ UNCHANGED <<memName, value, memory, object, bounds, history>>

\* The program is killed: nothing is closed.
Crash(p) ==
    /\ crashes < MaxCrash /\ crashes' = crashes + 1
    /\ pc[p] # "closed" /\ pc' = [pc EXCEPT ![p] = "closed"]
    /\ IF pc[p] \in Holding THEN "held" \in Faults /\ Abandon(p)
                            ELSE UNCHANGED abandoned
    /\ Forget(p)
    /\ UNCHANGED <<names, value, memory, opens, written, lastWrite, leaked,
                   raced>>

-----------------------------------------------------------------------------

Step(p) ==
    \/ CreateSemaphore(p) \/ OpenSemaphore(p) \/ WaitToOpen(p) \/ OpenMemory(p)
    \/ CountIn(p) \/ AttachFails(p) \/ PostOpen(p) \/ PostOpenThrows(p)
    \/ Lock(p) \/ WriteAndUnlock(p) \/ ReadAndUnlock(p) \/ ReadThrows(p)
    \/ WaitToClose(p) \/ Detach(p) \/ PostClose(p) \/ DeleteMemory(p)
    \/ DeleteSemaphore(p) \/ Crash(p)

Next == \E p \in Objects : Step(p)

Spec == Init /\ [][Next]_vars

-----------------------------------------------------------------------------
(* Properties.                                                              *)

\* "This class manages shared memory between two or more process": the objects
\* of a name have the same memory, the one the name still names, and one
\* semaphore, unless one of the two overlaps has happened.
OneMemory ==
    raced = FALSE =>
        \A p \in Attached : mem[p] = memName /\ sem[p] = semName

\* Every object finds in the memory what was last written to the name, unless
\* one of the two overlaps has happened.
ContentIsShared ==
    raced = FALSE => \A p \in Attached : data[mem[p]] = lastWrite

\* `new File(fileName).exist, false, 'SharedMemory file has been removed'`:
\* when the last object has closed, both names are free again, unless one of
\* the two overlaps has happened, a program was killed, or one threw with the
\* semaphore in its hands or when it was counted already.
LastOneRemoves ==
    (/\ raced = FALSE /\ crashes = 0 /\ abandoned = {} /\ leaked = FALSE
     /\ \A p \in Objects : pc[p] = "closed") => semName = 0 /\ memName = 0

\* One object at a time has a semaphore, and what it does with it ends with a
\* post, but for the throws and the kills that abandon it.  This holds of every
\* semaphore that a name or an object refers to, overlaps or not.
LockIsHeld ==
    \A s \in Semaphores \ abandoned :
        value[s] + Cardinality({p \in Objects :
                        sem[p] = s /\ pc[p] \in Holding}) = 1
=============================================================================
