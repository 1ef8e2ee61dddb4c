---------------------- MODULE ThreadedAllocator_proofs ----------------------
(***************************************************************************)
(* With one thread that calls _free(), the lock-free chain of blocks is     *)
(* safe for every number of blocks and every MAX_LOAD: the proof that no    *)
(* block is freed twice and that freeHead() never follows a null or stale   *)
(* pointer.                                                                 *)
(*                                                                          *)
(* The argument is local: every block of the chain has exactly one          *)
(* reference, the head, the variable of a running freeHead() or the first   *)
(* word of one other block of the chain, and a block still in the hands of  *)
(* _free() has none.  Freeing a block moves its one reference on.           *)
(*                                                                          *)
(* Then, for any number of threads that call _free(): the sleeping thread   *)
(* can be woken.  And for one such thread again: no block is lost.          *)
(***************************************************************************)
EXTENDS ThreadedAllocator, TLAPS

\* The blocks passed to _free() that are no longer in its hands.
Chained == {b \in Blocks : blk[b] = "queued" /\ b # ptr[Owner]}

\* Where the threads can be, and when the members are set.
ControlInv ==
    /\ pc[Owner] \in FreerPC \cup HeadPC
    /\ pc[Worker] \in WorkerPC
    /\ pc[Owner] \in HeadPC \cup {"done"} => pc[Worker] = "exited"
    /\ ptr[Owner] # NULL <=> pc[Owner] \in {"test", "push", "setHead"}
    /\ head = NULL => pc[Owner] \in {"construct", "first", "push", "setHead"}
    /\ head = NULL => headLength = 0 /\ pc[Worker] \notin HeadPC

\* What the references of the chain point to, each to a block of its own.
RefInv ==
    /\ head # NULL /\ pc[Owner] # "done" => head \in Chained
    /\ ptr[Owner] # NULL => blk[ptr[Owner]] = "queued"
    /\ pc[Owner] = "setHead" => link[ptr[Owner]] = head
    /\ \A t \in Threads : pc[t] = "cut" => it[t] \in Chained
    /\ \A t \in Threads : pc[t] = "walk" /\ it[t] # NULL
                            => it[t] \in Chained /\ it[t] # head
    /\ \A c \in Chained : link[c] # NULL =>
          /\ link[c] \in Chained
          /\ link[c] # head
          /\ \A t \in Threads : pc[t] = "walk" => link[c] # it[t]
    /\ \A c, d \in Chained : link[c] = link[d] /\ link[c] # NULL => c = d

IInv == TypeOK /\ NoDoubleFree /\ ControlInv /\ RefInv

-----------------------------------------------------------------------------

(* The inductive invariant holds when the allocator has been constructed.     *)
LEMMA Init_IInv == ASSUME Freers = {Owner} PROVE Init => IInv
<1> SUFFICES ASSUME Init PROVE IInv
  OBVIOUS
<1>1. Owner # Worker /\ Threads = {Owner, Worker}
  BY NamesAssumption, OwnerAssumption DEF Threads
<1>2. TypeOK
  BY <1>1 DEF Init, TypeOK, PC, FreerPC, WorkerPC, HeadPC
<1>3. NoDoubleFree
  BY DEF Init, NoDoubleFree
<1>4. ControlInv
  BY <1>1, OwnerAssumption
     DEF Init, ControlInv, FreerPC, WorkerPC, HeadPC
<1>5. Chained = {}
  BY DEF Init, Chained
<1>6. RefInv
  BY <1>1, <1>5, OwnerAssumption DEF Init, RefInv
<1> QED
  BY <1>2, <1>3, <1>4, <1>6 DEF IInv

\* The steps that only move a thread on or set a member other than the head:
\* no thread begins or ends to walk.
LEMMA QuietStep ==
    ASSUME Freers = {Owner}, IInv,
           memVars' = memVars, head' = head, ptr' = ptr, it' = it,
           \A t \in Threads : pc'[t] \in {"cut", "walk", "setHead", "done"}
                                => pc'[t] = pc[t] \/ (pc'[t] = "done"),
           pc[Owner] = "done" => pc'[Owner] = "done"
    PROVE  RefInv'
<1>1. Chained' = Chained
  BY DEF memVars, Chained
<1>2. Owner \in Threads
  BY OwnerAssumption DEF Threads
<1> QED
  BY <1>1, <1>2 DEF IInv, RefInv, memVars

(* The steps that move a program counter, a semaphore or a flag, and leave the *)
(* memory, its links and the list heads alone, keep the inductive invariant.  *)
LEMMA ControlSteps ==
    ASSUME Freers = {Owner}, IInv,
           \/ ClearTrigger \/ SetSkipCleanup \/ FreeLater(Owner)
           \/ Count(Owner) \/ TestTrigger(Owner) \/ Untrigger(Owner) \/ SetProcess(Owner)
           \/ PostProcess(Owner) \/ Arm \/ Acquire \/ Dispatch \/ Cleanup \/ Loop \/ MoreLoad
           \/ Unarm \/ Destroy \/ PostExit \/ Join
    PROVE  IInv'
<1> USE DEF Goto
<1>1. Owner # Worker /\ Threads = {Owner, Worker} /\ Owner \in Freers
  BY NamesAssumption, OwnerAssumption DEF Threads
<1>2. memVars' = memVars /\ head' = head /\ ptr' = ptr /\ it' = it
  BY DEF ClearTrigger, SetSkipCleanup, FreeLater, Count, TestTrigger,
       Untrigger, SetProcess, PostProcess, Arm, Acquire, Dispatch, Cleanup,
       Loop, MoreLoad, Unarm, Destroy, PostExit, Join, locals
<1>3. NoDoubleFree'
  BY <1>2 DEF IInv, NoDoubleFree, memVars
<1>4. /\ pc' \in [Threads -> PC]
      /\ \A t \in Threads : pc'[t] \in {"cut", "walk", "setHead", "done"}
                              => pc'[t] = pc[t] \/ pc'[t] = "done"
      /\ pc[Owner] = "done" => pc'[Owner] = "done"
  <2>1. CASE ClearTrigger
    BY <2>1, <1>1 DEF ClearTrigger, IInv, TypeOK, PC, FreerPC, WorkerPC, HeadPC
  <2>2. CASE SetSkipCleanup
    BY <2>2, <1>1 DEF SetSkipCleanup, IInv, TypeOK, PC, FreerPC, WorkerPC,
         HeadPC
  <2>3. CASE FreeLater(Owner)
    BY <2>3, <1>1 DEF FreeLater, IInv, TypeOK, PC, FreerPC, WorkerPC, HeadPC
  <2>4. CASE Count(Owner)
    BY <2>4, <1>1 DEF Count, IInv, TypeOK, PC, FreerPC, WorkerPC, HeadPC
  <2>5. CASE TestTrigger(Owner)
    BY <2>5, <1>1 DEF TestTrigger, IInv, TypeOK, PC, FreerPC, WorkerPC, HeadPC
  <2>6. CASE Untrigger(Owner)
    BY <2>6, <1>1 DEF Untrigger, IInv, TypeOK, PC, FreerPC, WorkerPC, HeadPC
  <2>7. CASE SetProcess(Owner)
    BY <2>7, <1>1 DEF SetProcess, IInv, TypeOK, PC, FreerPC, WorkerPC, HeadPC
  <2>8. CASE PostProcess(Owner)
    BY <2>8, <1>1 DEF PostProcess, IInv, TypeOK, PC, FreerPC, WorkerPC, HeadPC
  <2>9. CASE Arm
    BY <2>9, <1>1 DEF Arm, IInv, TypeOK, PC, FreerPC, WorkerPC, HeadPC
  <2>10. CASE Acquire
    BY <2>10, <1>1 DEF Acquire, IInv, TypeOK, PC, FreerPC, WorkerPC, HeadPC
  <2>11. CASE Dispatch
    BY <2>11, <1>1 DEF Dispatch, IInv, TypeOK, PC, FreerPC, WorkerPC, HeadPC
  <2>12. CASE Cleanup
    BY <2>12, <1>1 DEF Cleanup, IInv, TypeOK, PC, FreerPC, WorkerPC, HeadPC
  <2>13. CASE Loop
    BY <2>13, <1>1 DEF Loop, IInv, TypeOK, PC, FreerPC, WorkerPC, HeadPC
  <2>14. CASE MoreLoad
    BY <2>14, <1>1 DEF MoreLoad, IInv, TypeOK, PC, FreerPC, WorkerPC, HeadPC
  <2>15. CASE Unarm
    BY <2>15, <1>1 DEF Unarm, IInv, TypeOK, PC, FreerPC, WorkerPC, HeadPC
  <2>16. CASE Destroy
    BY <2>16, <1>1 DEF Destroy, IInv, TypeOK, PC, FreerPC, WorkerPC, HeadPC
  <2>17. CASE PostExit
    BY <2>17, <1>1 DEF PostExit, IInv, TypeOK, PC, FreerPC, WorkerPC, HeadPC
  <2>18. CASE Join
    BY <2>18, <1>1 DEF Join, IInv, TypeOK, PC, FreerPC, WorkerPC, HeadPC
  <2> QED
    BY <2>1, <2>2, <2>3, <2>4, <2>5, <2>6, <2>7, <2>8, <2>9, <2>10, <2>11,
         <2>12, <2>13, <2>14, <2>15, <2>16, <2>17, <2>18
<1>5. RefInv'
  BY <1>2, <1>4, QuietStep
<1>6. ControlInv'
  <2>1. CASE ClearTrigger
    <3>1. /\ pc[Owner] = "construct" /\ pc'[Owner] \in {"first"}
          /\ pc'[Worker] = pc[Worker] /\ headLength' = headLength
      BY <2>1, <1>1 DEF ClearTrigger, IInv, TypeOK, loadVars
    <3> QED
      BY <1>2, <3>1 DEF IInv, ControlInv, FreerPC, WorkerPC, HeadPC
  <2>2. CASE SetSkipCleanup
    BY <2>2, <1>1, <1>2 DEF SetSkipCleanup, IInv, TypeOK, ControlInv, FreerPC,
         WorkerPC, HeadPC
  <2>3. CASE FreeLater(Owner)
    BY <2>3, <1>1, <1>2 DEF FreeLater, IInv, TypeOK, ControlInv, FreerPC,
         WorkerPC, HeadPC
  <2>4. CASE Count(Owner)
    BY <2>4, <1>1, <1>2 DEF Count, IInv, TypeOK, ControlInv, FreerPC,
         WorkerPC, HeadPC
  <2>5. CASE TestTrigger(Owner)
    BY <2>5, <1>1, <1>2 DEF TestTrigger, IInv, TypeOK, ControlInv, FreerPC,
         WorkerPC, HeadPC
  <2>6. CASE Untrigger(Owner)
    BY <2>6, <1>1, <1>2 DEF Untrigger, IInv, TypeOK, ControlInv, FreerPC,
         WorkerPC, HeadPC
  <2>7. CASE SetProcess(Owner)
    BY <2>7, <1>1, <1>2 DEF SetProcess, IInv, TypeOK, ControlInv, FreerPC,
         WorkerPC, HeadPC
  <2>8. CASE PostProcess(Owner)
    BY <2>8, <1>1, <1>2 DEF PostProcess, IInv, TypeOK, ControlInv, FreerPC,
         WorkerPC, HeadPC
  <2>9. CASE Arm
    <3>1. /\ pc[Worker] = "arm" /\ pc'[Worker] \in {"acquire"}
          /\ pc'[Owner] = pc[Owner] /\ headLength' = headLength
      BY <2>9, <1>1 DEF Arm, IInv, TypeOK, loadVars
    <3> QED
      BY <1>2, <3>1 DEF IInv, ControlInv, FreerPC, WorkerPC, HeadPC
  <2>10. CASE Acquire
    <3>1. /\ pc[Worker] = "acquire" /\ pc'[Worker] \in {"dispatch"}
          /\ pc'[Owner] = pc[Owner] /\ headLength' = headLength
      BY <2>10, <1>1 DEF Acquire, IInv, TypeOK, loadVars
    <3> QED
      BY <1>2, <3>1 DEF IInv, ControlInv, FreerPC, WorkerPC, HeadPC
  <2>11. CASE Dispatch
    <3>1. /\ pc[Worker] = "dispatch" /\ pc'[Worker] \in {"unarm", "cleanup"}
          /\ pc'[Owner] = pc[Owner] /\ headLength' = headLength
      BY <2>11, <1>1 DEF Dispatch, IInv, TypeOK, loadVars
    <3> QED
      BY <1>2, <3>1 DEF IInv, ControlInv, FreerPC, WorkerPC, HeadPC
  <2>12. CASE Cleanup
    BY <2>12, <1>1, <1>2 DEF Cleanup, IInv, TypeOK, ControlInv, FreerPC,
         WorkerPC, HeadPC
  <2>13. CASE Loop
    <3>1. /\ pc[Worker] = "loop"
          /\ pc'[Worker] = (IF headLength # 0 THEN "reset" ELSE "arm")
          /\ pc'[Owner] = pc[Owner] /\ headLength' = headLength
      BY <2>13, <1>1 DEF Loop, IInv, TypeOK, loadVars
    <3>2. headLength # 0 => head # NULL
      BY DEF IInv, ControlInv
    <3> QED
      BY <1>2, <3>1, <3>2 DEF IInv, ControlInv, FreerPC, WorkerPC, HeadPC
  <2>14. CASE MoreLoad
    BY <2>14, <1>1, <1>2 DEF MoreLoad, IInv, TypeOK, ControlInv, FreerPC,
         WorkerPC, HeadPC
  <2>15. CASE Unarm
    <3>1. /\ pc[Worker] = "unarm" /\ pc'[Worker] \in {"exited"}
          /\ pc'[Owner] = pc[Owner] /\ headLength' = headLength
      BY <2>15, <1>1 DEF Unarm, IInv, TypeOK, loadVars
    <3> QED
      BY <1>2, <3>1 DEF IInv, ControlInv, FreerPC, WorkerPC, HeadPC
  <2>16. CASE Destroy
    BY <2>16, <1>1, <1>2 DEF Destroy, IInv, TypeOK, ControlInv, FreerPC,
         WorkerPC, HeadPC
  <2>17. CASE PostExit
    BY <2>17, <1>1, <1>2 DEF PostExit, IInv, TypeOK, ControlInv, FreerPC,
         WorkerPC, HeadPC
  <2>18. CASE Join
    BY <2>18, <1>1, <1>2 DEF Join, IInv, TypeOK, ControlInv, FreerPC,
         WorkerPC, HeadPC
  <2> QED
    BY <2>1, <2>2, <2>3, <2>4, <2>5, <2>6, <2>7, <2>8, <2>9, <2>10, <2>11,
         <2>12, <2>13, <2>14, <2>15, <2>16, <2>17, <2>18
<1>7. TypeOK'
  <2>1. headLength' \in Nat /\ load' \in Nat /\ sem' \in Nat
    BY DEF ClearTrigger, SetSkipCleanup, FreeLater, Count, TestTrigger,
           Untrigger, SetProcess, PostProcess, Arm, Acquire, Dispatch, Cleanup,
           Loop, MoreLoad, Unarm, Destroy, PostExit, Join, IInv, TypeOK,
           loadVars, syncVars, flags
  <2>2. /\ threadAction' \in {"exit", "process"}
        /\ canTrigger' \in BOOLEAN /\ skipCleanup' \in BOOLEAN
        /\ raced' \in BOOLEAN
    BY DEF ClearTrigger, SetSkipCleanup, FreeLater, Count, TestTrigger,
           Untrigger, SetProcess, PostProcess, Arm, Acquire, Dispatch, Cleanup,
           Loop, MoreLoad, Unarm, Destroy, PostExit, Join, IInv, TypeOK,
           loadVars, syncVars, flags
  <2> QED
    BY <1>2, <1>4, <2>1, <2>2 DEF IInv, TypeOK, memVars
<1> QED
  BY <1>3, <1>5, <1>6, <1>7 DEF IInv

\* _malloc(): a free block is not on the chain.
LEMMA MallocStep ==
    ASSUME Freers = {Owner}, IInv, NEW b \in Blocks, Malloc(b)
    PROVE  IInv'
<1>1. /\ blk' = [blk EXCEPT ![b] = "live"] /\ blk[b] = "free"
      /\ link' = link /\ head' = head /\ ptr' = ptr /\ it' = it /\ pc' = pc
      /\ headLength' = headLength
  BY DEF Malloc, loadVars, locals
<1>2. Owner \in Threads
  BY OwnerAssumption DEF Threads
<1>3. TypeOK'
  BY <1>1 DEF Malloc, IInv, TypeOK, loadVars, syncVars, flags
<1>4. NoDoubleFree' /\ ControlInv'
  BY <1>1 DEF IInv, TypeOK, NoDoubleFree, ControlInv
<1>5. Chained' = Chained
  BY <1>1 DEF IInv, TypeOK, Chained
<1>6. ptr'[Owner] # NULL => blk'[ptr'[Owner]] = "queued"
  BY <1>1, OwnerAssumption DEF IInv, TypeOK, RefInv
<1>7. RefInv'
  BY <1>1, <1>5, <1>6 DEF IInv, RefInv
<1> QED
  BY <1>3, <1>4, <1>7 DEF IInv

\* A block comes into the hands of _free(): it was not on the chain.
LEMMA TakeStep ==
    ASSUME Freers = {Owner}, IInv, NEW b \in Blocks,
           FirstFree(b) \/ Free(Owner, b)
    PROVE  IInv'
<1> USE DEF Goto
<1>1. Owner # Worker /\ Threads = {Owner, Worker} /\ Owner \in Freers
  BY NamesAssumption, OwnerAssumption DEF Threads
<1>2. /\ blk' = [blk EXCEPT ![b] = "queued"] /\ blk[b] \in {"free", "live"}
      /\ link' = link /\ head' = head /\ it' = it
      /\ ptr' = [ptr EXCEPT ![Owner] = b] /\ headLength' = headLength
      /\ pc[Owner] \in {"first", "run"}
  BY DEF FirstFree, Free, loadVars
<1>3. /\ pc'[Worker] = pc[Worker]
      /\ pc'[Owner] = (IF pc[Owner] = "first" THEN "push" ELSE "test")
      /\ pc' \in [Threads -> PC]
  BY <1>1 DEF FirstFree, Free, IInv, TypeOK, PC, FreerPC
<1>4. TypeOK'
  BY <1>2, <1>3 DEF FirstFree, Free, IInv, TypeOK, loadVars, syncVars, flags
<1>5. NoDoubleFree'
  BY <1>2 DEF IInv, TypeOK, NoDoubleFree
<1>6. ptr[Owner] = NULL /\ ptr'[Owner] = b /\ b # NULL
  BY <1>1, <1>2, NamesAssumption DEF IInv, TypeOK, ControlInv
<1>7. ControlInv'
  BY <1>1, <1>2, <1>3, <1>6 DEF IInv, ControlInv, FreerPC, HeadPC, WorkerPC
<1>8. Chained' = Chained /\ b \notin Chained
  BY <1>2, <1>6, NamesAssumption DEF IInv, TypeOK, Chained
<1>9. /\ head # NULL => head \in Chained
      /\ ptr[Owner] = NULL
  BY <1>2, <1>6 DEF IInv, RefInv
<1>10. blk'[b] = "queued"
  BY <1>2 DEF IInv, TypeOK
<1>11. \A t \in Threads : pc'[t] \in {"cut", "walk", "setHead"} => pc'[t] = pc[t]
  BY <1>1, <1>3
<1>12. RefInv'
  BY <1>1, <1>2, <1>3, <1>6, <1>8, <1>9, <1>10, <1>11 DEF IInv, RefInv
<1> QED
  BY <1>4, <1>5, <1>7, <1>12 DEF IInv

\* A block that is freed at once is not on the chain.
LEMMA FreeNowStep ==
    ASSUME Freers = {Owner}, IInv, FreeNow(Owner)
    PROVE  IInv'
<1> USE DEF Goto
<1>1. Owner # Worker /\ Threads = {Owner, Worker} /\ Owner \in Freers
  BY NamesAssumption, OwnerAssumption DEF Threads
<1> DEFINE b == ptr[Owner]
<1>2. b \in Blocks /\ blk[b] = "queued" /\ pc[Owner] = "test"
  BY <1>1, NamesAssumption DEF FreeNow, IInv, TypeOK, ControlInv, RefInv
<1>3. /\ blk' = [blk EXCEPT ![b] = "free"]
      /\ link' = link /\ head' = head /\ it' = it
      /\ ptr' = [ptr EXCEPT ![Owner] = NULL] /\ headLength' = headLength
  BY <1>2 DEF FreeNow, BaseFree, loadVars, IInv, TypeOK
<1>4. /\ pc'[Worker] = pc[Worker] /\ pc'[Owner] = "run"
      /\ pc' \in [Threads -> PC]
  BY <1>1 DEF FreeNow, IInv, TypeOK, PC, FreerPC
<1>5. TypeOK'
  BY <1>2, <1>3, <1>4 DEF FreeNow, IInv, TypeOK, loadVars, syncVars, flags
<1>6. NoDoubleFree'
  BY <1>3 DEF IInv, TypeOK, NoDoubleFree
<1>7. ptr'[Owner] = NULL
  BY <1>1, <1>3 DEF IInv, TypeOK
<1>8. ControlInv'
  BY <1>1, <1>2, <1>3, <1>4, <1>7
     DEF IInv, ControlInv, FreerPC, HeadPC, WorkerPC
<1>9. Chained' = Chained
  BY <1>2, <1>3, <1>7, NamesAssumption DEF IInv, TypeOK, Chained
<1>10. RefInv'
  BY <1>1, <1>2, <1>3, <1>4, <1>7, <1>9 DEF IInv, RefInv
<1> QED
  BY <1>5, <1>6, <1>8, <1>10 DEF IInv

\* *ptr = _head: the block is not on the chain yet.
LEMMA PushStep ==
    ASSUME Freers = {Owner}, IInv, Push(Owner)
    PROVE  IInv'
<1> USE DEF Goto
<1>1. Owner # Worker /\ Threads = {Owner, Worker} /\ Owner \in Freers
  BY NamesAssumption, OwnerAssumption DEF Threads
<1> DEFINE b == ptr[Owner]
<1>2. b \in Blocks /\ pc[Owner] = "push"
  BY <1>1, NamesAssumption DEF Push, IInv, TypeOK, ControlInv
<1>3. /\ link' = [link EXCEPT ![b] = head]
      /\ blk' = blk /\ head' = head /\ it' = it /\ ptr' = ptr
      /\ headLength' = headLength
  BY DEF Push, loadVars, locals
<1>4. /\ pc'[Worker] = pc[Worker] /\ pc'[Owner] = "setHead"
      /\ pc' \in [Threads -> PC]
  BY <1>1 DEF Push, IInv, TypeOK, PC, FreerPC
<1>5. TypeOK'
  BY <1>2, <1>3, <1>4 DEF Push, IInv, TypeOK, loadVars, syncVars, flags
<1>6. NoDoubleFree'
  BY <1>3 DEF IInv, NoDoubleFree
<1>7. ControlInv'
  BY <1>1, <1>2, <1>3, <1>4 DEF IInv, ControlInv, FreerPC, HeadPC, WorkerPC
<1>8. Chained' = Chained /\ b \notin Chained
  BY <1>3 DEF Chained
<1>9. link'[b] = head /\ \A c \in Chained : link'[c] = link[c]
  BY <1>2, <1>3, <1>8 DEF IInv, TypeOK, Chained
<1>10. RefInv'
  BY <1>1, <1>2, <1>3, <1>4, <1>8, <1>9 DEF IInv, RefInv
<1> QED
  BY <1>5, <1>6, <1>7, <1>10 DEF IInv

\* _head = ptr: the block takes over the only reference to the old head.
LEMMA SetHeadStep ==
    ASSUME Freers = {Owner}, IInv, SetHead(Owner)
    PROVE  IInv'
<1> USE DEF Goto
<1>1. Owner # Worker /\ Threads = {Owner, Worker} /\ Owner \in Freers
  BY NamesAssumption, OwnerAssumption DEF Threads
<1> DEFINE b == ptr[Owner]
<1>2. b \in Blocks /\ b # NULL /\ pc[Owner] = "setHead"
  BY <1>1, NamesAssumption DEF SetHead, IInv, TypeOK, ControlInv
<1>3. /\ head' = b
      /\ blk' = blk /\ link' = link /\ it' = it
      /\ ptr' = [ptr EXCEPT ![Owner] = NULL] /\ headLength' = headLength
  BY DEF SetHead, loadVars, memVars
<1>4. /\ pc'[Worker] = pc[Worker] /\ pc'[Owner] = "count"
      /\ pc' \in [Threads -> PC]
  BY <1>1 DEF SetHead, IInv, TypeOK, PC, FreerPC
<1>5. TypeOK'
  BY <1>2, <1>3, <1>4 DEF SetHead, IInv, TypeOK, loadVars, syncVars, flags
<1>6. NoDoubleFree'
  BY <1>3 DEF IInv, NoDoubleFree
<1>7. ptr'[Owner] = NULL
  BY <1>1, <1>3 DEF IInv, TypeOK
<1>8. ControlInv'
  BY <1>1, <1>2, <1>3, <1>4, <1>7
     DEF IInv, ControlInv, FreerPC, HeadPC, WorkerPC
<1>9. Chained' = Chained \cup {b} /\ b \notin Chained
  BY <1>2, <1>3, <1>7, NamesAssumption DEF IInv, TypeOK, RefInv, Chained
<1>10. link[b] = head /\ (head # NULL => head \in Chained)
  BY <1>2 DEF IInv, RefInv
<1>11. \A t \in Threads : pc'[t] \in {"cut", "walk"} => pc'[t] = pc[t]
  BY <1>1, <1>4
<1>12. \A c \in Chained' : link'[c] # NULL =>
          /\ link'[c] \in Chained'
          /\ link'[c] # head'
          /\ \A t \in Threads : pc'[t] = "walk" => link'[c] # it'[t]
  BY <1>3, <1>9, <1>10, <1>11 DEF IInv, RefInv
<1>13. \A c, d \in Chained' : link'[c] = link'[d] /\ link'[c] # NULL => c = d
  BY <1>3, <1>9, <1>10 DEF IInv, RefInv
<1>14. \A t \in Threads :
          /\ pc'[t] = "cut" => it'[t] \in Chained'
          /\ pc'[t] = "walk" /\ it'[t] # NULL
               => it'[t] \in Chained' /\ it'[t] # head'
  BY <1>3, <1>9, <1>11 DEF IInv, RefInv
<1>15. RefInv'
  BY <1>3, <1>4, <1>7, <1>9, <1>12, <1>13, <1>14 DEF RefInv
<1> QED
  BY <1>5, <1>6, <1>8, <1>15 DEF IInv

\* Inside freeHead() the head is set, and only one thread is inside.
LEMMA InFreeHead ==
    ASSUME Freers = {Owner}, IInv, NEW t \in Threads, pc[t] \in HeadPC
    PROVE  /\ head # NULL /\ head \in Chained /\ ptr[Owner] \in Blocks \cup {NULL}
           /\ \A u \in Threads : u # t => pc[u] \notin HeadPC
<1>1. Owner # Worker /\ Threads = {Owner, Worker}
  BY NamesAssumption, OwnerAssumption DEF Threads
<1>2. CASE t = Owner
  <2>1. pc[Owner] \in HeadPC /\ pc[Worker] = "exited"
    BY <1>2 DEF IInv, ControlInv
  <2> QED
    BY <1>1, <1>2, <2>1, OwnerAssumption
       DEF IInv, TypeOK, ControlInv, RefInv, HeadPC
<1>3. CASE t = Worker
  <2>1. pc[Owner] \notin HeadPC \cup {"done"}
    BY <1>3 DEF IInv, ControlInv, HeadPC
  <2> QED
    BY <1>1, <1>3, <2>1, OwnerAssumption
       DEF IInv, TypeOK, ControlInv, RefInv, HeadPC
<1> QED
  BY <1>1, <1>2, <1>3

\* _headLength = 0 and next = _head.
LEMMA ReadHeadStep ==
    ASSUME Freers = {Owner}, IInv, NEW t \in Threads,
           ResetLength(t) \/ ReadHead(t)
    PROVE  IInv'
<1> USE DEF Goto
<1>1. Owner # Worker /\ Threads = {Owner, Worker} /\ Owner \in Freers
  BY NamesAssumption, OwnerAssumption DEF Threads
<1>2. pc[t] \in HeadPC
  BY DEF ResetLength, ReadHead, HeadPC
<1>3. /\ head # NULL /\ head \in Chained
      /\ \A u \in Threads : u # t => pc[u] \notin HeadPC
  BY <1>2, InFreeHead
<1>4. /\ blk' = blk /\ link' = link /\ head' = head /\ ptr' = ptr
      /\ Chained' = Chained
  BY DEF ResetLength, ReadHead, memVars, locals, Chained
<1>5. /\ pc' \in [Threads -> PC] /\ pc'[t] \in {"readHead", "cut"}
      /\ \A u \in Threads : u # t => pc'[u] = pc[u] /\ it'[u] = it[u]
      /\ pc'[t] = "cut" => it'[t] = head
  BY DEF ResetLength, ReadHead, locals, IInv, TypeOK, PC, WorkerPC, HeadPC
<1>6. TypeOK'
  BY <1>4, <1>5
     DEF ResetLength, ReadHead, locals, IInv, TypeOK, loadVars, syncVars, flags
<1>7. NoDoubleFree'
  BY <1>4 DEF IInv, NoDoubleFree
<1>8. ControlInv'
  BY <1>1, <1>2, <1>3, <1>4, <1>5
     DEF IInv, ControlInv, FreerPC, HeadPC, WorkerPC
<1>9. \A u \in Threads : pc'[u] = "walk" => pc[u] = "walk" /\ it'[u] = it[u]
  BY <1>5
<1>10. \A u \in Threads : pc'[u] = "cut" => it'[u] \in Chained
  BY <1>3, <1>5 DEF IInv, RefInv
<1>11. pc'[Owner] \in {"setHead", "done"} => pc'[Owner] = pc[Owner]
  BY <1>1, <1>5
<1>12. RefInv'
  BY <1>4, <1>9, <1>10, <1>11, <1>3 DEF IInv, RefInv
<1> QED
  BY <1>6, <1>7, <1>8, <1>12 DEF IInv

\* it = *next, *next = nullptr: the reference moves into the variable.
LEMMA CutStep ==
    ASSUME Freers = {Owner}, IInv, NEW t \in Threads, Cut(t)
    PROVE  IInv'
<1> USE DEF Goto
<1>1. Owner # Worker /\ Threads = {Owner, Worker} /\ Owner \in Freers
  BY NamesAssumption, OwnerAssumption DEF Threads
<1>2. pc[t] \in HeadPC /\ pc[t] = "cut"
  BY DEF Cut, HeadPC
<1>3. /\ head # NULL /\ head \in Chained
      /\ \A u \in Threads : u # t => pc[u] \notin HeadPC
  BY <1>2, InFreeHead
<1> DEFINE c == it[t]
<1>4. c \in Chained /\ c \in Blocks /\ c # ptr[Owner]
  BY <1>2 DEF IInv, RefInv, Chained
<1>5. /\ blk' = blk /\ head' = head /\ ptr' = ptr /\ headLength' = headLength
      /\ link' = [link EXCEPT ![c] = NULL]
      /\ it' = [it EXCEPT ![t] = link[c]]
      /\ Chained' = Chained
  BY DEF Cut, loadVars, Chained
<1>6. /\ pc' \in [Threads -> PC] /\ pc'[t] = "walk" /\ it'[t] = link[c]
      /\ \A u \in Threads : u # t => pc'[u] = pc[u] /\ it'[u] = it[u]
  BY <1>5 DEF Cut, IInv, TypeOK, PC, WorkerPC, HeadPC
<1>7. TypeOK'
  BY <1>4, <1>5, <1>6 DEF Cut, IInv, TypeOK, loadVars, syncVars, flags
<1>8. NoDoubleFree'
  BY <1>5 DEF IInv, NoDoubleFree
<1>9. ControlInv'
  BY <1>1, <1>2, <1>3, <1>5, <1>6
     DEF IInv, ControlInv, FreerPC, HeadPC, WorkerPC
<1>10. \A u \in Threads : pc'[u] \in {"cut", "walk"} => u = t
  BY <1>3, <1>6 DEF HeadPC
<1>11. \A d \in Blocks : link'[d] = IF d = c THEN NULL ELSE link[d]
  BY <1>4, <1>5 DEF IInv, TypeOK
<1>12. /\ pc'[Owner] = "setHead" => pc[Owner] = "setHead"
       /\ ptr'[Owner] # c
  BY <1>1, <1>4, <1>5, <1>6
<1>13. pc'[Owner] = "setHead" => link'[ptr'[Owner]] = head'
  BY <1>1, <1>5, <1>11, <1>12, NamesAssumption
     DEF IInv, TypeOK, ControlInv, RefInv
<1>14. link[c] # NULL => link[c] \in Chained /\ link[c] # head
  BY <1>4 DEF IInv, RefInv
<1>15. \A d \in Chained : link'[d] # NULL =>
          link'[d] = link[d] /\ d # c /\ link[d] # link[c]
  BY <1>4, <1>11 DEF IInv, RefInv, Chained
<1>16. RefInv'
  BY <1>3, <1>5, <1>6, <1>10, <1>13, <1>14, <1>15 DEF IInv, RefInv
<1> QED
  BY <1>7, <1>8, <1>9, <1>16 DEF IInv

\* A block is freed; its one reference moves to the next block.
LEMMA FreeNextStep ==
    ASSUME Freers = {Owner}, IInv, NEW t \in Threads, FreeNext(t)
    PROVE  IInv'
<1>1. Owner # Worker /\ Threads = {Owner, Worker} /\ Owner \in Freers
  BY NamesAssumption, OwnerAssumption DEF Threads
<1>2. pc[t] \in HeadPC /\ pc[t] = "walk" /\ it[t] # NULL
  BY DEF FreeNext, HeadPC
<1>3. /\ head # NULL /\ head \in Chained
      /\ \A u \in Threads : u # t => pc[u] \notin HeadPC
  BY <1>2, InFreeHead
<1> DEFINE c == it[t]
<1>4. c \in Chained /\ c # head /\ c \in Blocks /\ c # ptr[Owner]
      /\ blk[c] = "queued"
  BY <1>2 DEF IInv, RefInv, Chained
<1>5. /\ blk' = [blk EXCEPT ![c] = "free"]
      /\ link' = link /\ head' = head /\ ptr' = ptr
      /\ headLength' = headLength /\ pc' = pc
      /\ it' = [it EXCEPT ![t] = link[c]]
  BY <1>4 DEF FreeNext, BaseFree, loadVars, IInv, TypeOK
<1>6. /\ it'[t] = link[c]
      /\ \A u \in Threads : u # t => it'[u] = it[u]
  BY <1>5 DEF IInv, TypeOK
<1>7. TypeOK'
  BY <1>4, <1>5, <1>6 DEF FreeNext, IInv, TypeOK, loadVars, syncVars, flags
<1>8. NoDoubleFree'
  BY <1>5 DEF IInv, TypeOK, NoDoubleFree
<1>9. ControlInv'
  BY <1>5 DEF IInv, ControlInv
<1>10. \A u \in Threads : pc'[u] \in {"cut", "walk"} => u = t
  BY <1>3, <1>5 DEF HeadPC
<1>11. Chained' = Chained \ {c}
  BY <1>4, <1>5 DEF IInv, TypeOK, Chained
<1>12. link[c] # NULL => link[c] \in Chained /\ link[c] # head /\ link[c] # c
  BY <1>2, <1>4 DEF IInv, RefInv
<1>13. \A d \in Chained \ {c} : link[d] # NULL =>
          /\ link[d] \in Chained \ {c}
          /\ link[d] # head
          /\ link[d] # link[c]
  BY <1>2, <1>4 DEF IInv, RefInv
<1>14. ptr'[Owner] # NULL => blk'[ptr'[Owner]] = "queued"
  BY <1>4, <1>5, OwnerAssumption DEF IInv, TypeOK, RefInv
<1>15. RefInv'
  <2>1. head' # NULL /\ pc'[Owner] # "done" => head' \in Chained'
    BY <1>3, <1>4, <1>5, <1>11
  <2>2. pc'[Owner] = "setHead" => link'[ptr'[Owner]] = head'
    BY <1>5 DEF IInv, RefInv
  <2>3. \A u \in Threads : pc'[u] = "cut" => it'[u] \in Chained'
    BY <1>2, <1>5, <1>10
  <2>4. \A u \in Threads : pc'[u] = "walk" /\ it'[u] # NULL
                              => it'[u] \in Chained' /\ it'[u] # head'
    BY <1>5, <1>6, <1>10, <1>11, <1>12
  <2>5. \A d \in Chained' : link'[d] # NULL =>
          /\ link'[d] \in Chained'
          /\ link'[d] # head'
          /\ \A u \in Threads : pc'[u] = "walk" => link'[d] # it'[u]
    BY <1>5, <1>6, <1>10, <1>11, <1>13
  <2>6. \A d, e \in Chained' :
            link'[d] = link'[e] /\ link'[d] # NULL => d = e
    BY <1>5, <1>11 DEF IInv, RefInv
  <2> QED
    BY <1>14, <2>1, <2>2, <2>3, <2>4, <2>5, <2>6 DEF RefInv
<1> QED
  BY <1>7, <1>8, <1>9, <1>15 DEF IInv

\* The destructor frees the head: nothing looks at the chain any more.
LEMMA FreeLastStep ==
    ASSUME Freers = {Owner}, IInv, FreeLast
    PROVE  IInv'
<1> USE DEF Goto
<1>1. Owner # Worker /\ Threads = {Owner, Worker} /\ Owner \in Freers
  BY NamesAssumption, OwnerAssumption DEF Threads
<1>2. pc[Owner] \in HeadPC /\ pc[Owner] = "walk" /\ it[Owner] = NULL
  BY DEF FreeLast, HeadPC
<1>3. head # NULL /\ head \in Chained /\ pc[Worker] = "exited"
  BY <1>1, <1>2, InFreeHead DEF IInv, ControlInv
<1>4. head \in Blocks /\ blk[head] = "queued" /\ ptr[Owner] = NULL
  BY <1>2, <1>3 DEF Chained, IInv, ControlInv
<1>5. /\ blk' = [blk EXCEPT ![head] = "free"]
      /\ link' = link /\ head' = head /\ ptr' = ptr /\ it' = it
      /\ headLength' = headLength
  BY <1>4 DEF FreeLast, BaseFree, loadVars, locals, IInv, TypeOK
<1>6. /\ pc' \in [Threads -> PC] /\ pc'[Owner] = "done"
      /\ pc'[Worker] = "exited"
  BY <1>1, <1>3 DEF FreeLast, IInv, TypeOK, PC, FreerPC
<1>7. TypeOK'
  BY <1>4, <1>5, <1>6 DEF FreeLast, IInv, TypeOK, loadVars, syncVars, flags, locals
<1>8. NoDoubleFree'
  BY <1>5 DEF IInv, TypeOK, NoDoubleFree
<1>9. ControlInv'
  BY <1>1, <1>3, <1>4, <1>5, <1>6
     DEF IInv, ControlInv, FreerPC, HeadPC, WorkerPC
<1>10. Chained' = Chained \ {head}
  BY <1>4, <1>5 DEF IInv, TypeOK, Chained
<1>11. \A t \in Threads : pc'[t] \notin {"cut", "walk"}
  BY <1>1, <1>6
<1>12. RefInv'
  BY <1>4, <1>5, <1>6, <1>10, <1>11 DEF IInv, RefInv
<1> QED
  BY <1>7, <1>8, <1>9, <1>12 DEF IInv

-----------------------------------------------------------------------------

\* Every step of the system keeps the invariant.
LEMMA StepIInv ==
    ASSUME Freers = {Owner}, IInv, [Next]_vars
    PROVE  IInv'
<1>1. Owner \in Threads /\ Worker \in Threads
  BY OwnerAssumption DEF Threads
<1>2. CASE Program
  BY <1>2, MallocStep, TakeStep, ControlSteps DEF Program
<1>3. CASE WorkerStep
  <2>1. CASE FreeHead(Worker)
    BY <2>1, <1>1, ReadHeadStep, CutStep, FreeNextStep DEF FreeHead
  <2> QED
    BY <1>3, <2>1, ControlSteps DEF WorkerStep
<1>4. CASE OwnerStep
  <2>1. CASE FreeHead(Owner)
    BY <2>1, <1>1, ReadHeadStep, CutStep, FreeNextStep DEF FreeHead
  <2> QED
    BY <1>4, <2>1, ControlSteps, TakeStep, FreeLastStep DEF OwnerStep
<1>5. CASE \E f \in Freers : FreeSteps(f)
  <2>1. FreeSteps(Owner)
    BY <1>5
  <2> QED
    BY <2>1, FreeNowStep, PushStep, SetHeadStep, ControlSteps DEF FreeSteps
<1>6. CASE UNCHANGED vars
  BY <1>6 DEF vars, memVars, loadVars, syncVars, flags, locals, IInv, TypeOK,
              NoDoubleFree, ControlInv, RefInv, Chained
<1> QED
  BY <1>2, <1>3, <1>4, <1>5, <1>6 DEF Next

\* The invariant of the chain holds in every reachable state.
THEOREM AllocatorInductive == ASSUME Freers = {Owner} PROVE Spec => []IInv
<1>1. Init => IInv
  BY Init_IInv
<1>2. IInv /\ [Next]_vars => IInv'
  BY StepIInv
<1> QED
  BY <1>1, <1>2, PTL DEF Spec

\* No block is given back to the base allocator twice, neither by the thread,
\* nor by _free(), nor by the destructor.
THEOREM FreedOnce == ASSUME Freers = {Owner} PROVE Spec => []NoDoubleFree
<1>1. IInv => NoDoubleFree
  BY DEF IInv
<1> QED
  BY <1>1, AllocatorInductive, PTL

\* freeHead() follows no null pointer and reads no block that was freed.
THEOREM ChainIsLive == ASSUME Freers = {Owner} PROVE Spec => []NoUseAfterFree
<1>1. IInv => NoUseAfterFree
  BY DEF IInv, RefInv, Chained, NoUseAfterFree
<1> QED
  BY <1>1, AllocatorInductive, PTL

\* Every reachable state has its type.
THEOREM AllocatorTypes == ASSUME Freers = {Owner} PROVE Spec => []TypeOK
<1>1. IInv => TypeOK
  BY DEF IInv
<1> QED
  BY <1>1, AllocatorInductive, PTL

-----------------------------------------------------------------------------
(* The lost wakeup.  Here any number of threads may call _free(): the flag    *)
(* _canTriggerThread is tested and cleared without a lock, and still the      *)
(* thread is never left asleep.                                              *)

\* While the thread waits on its semaphore, whoever cleared the flag is about
\* to post it or has posted it; the constructor cleared it before the thread
\* set it, unless the thread was too fast (raced).
WakeInv ==
    /\ pc \in [Threads -> PC] /\ sem \in Nat
    /\ canTrigger \in BOOLEAN /\ raced \in BOOLEAN
    /\ pc[Worker] = "acquire" /\ ~raced => pc[Owner] # "construct"
    /\ pc[Worker] = "acquire" /\ ~raced /\ ~canTrigger =>
          sem > 0 \/ \E f \in Freers : pc[f] \in {"process", "post"}

LEMMA Init_WakeInv == Init => WakeInv
<1> SUFFICES ASSUME Init PROVE WakeInv
  OBVIOUS
<1>1. Worker \in Threads /\ Owner \in Threads /\ Owner # Worker
  BY NamesAssumption, OwnerAssumption DEF Threads
<1>2. pc \in [Threads -> PC]
  BY DEF Init, PC, FreerPC, WorkerPC
<1> QED
  BY <1>1, <1>2 DEF Init, WakeInv

\* A step that moves one thread to another place and changes neither the
\* semaphore, nor the flag, nor the history: the thread may not be the one
\* that owes a post, and it may not begin to wait.
LEMMA MoveKeepsWake ==
    ASSUME WakeInv, NEW t \in Threads, NEW l \in PC, Goto(t, l),
           sem' = sem, canTrigger' = canTrigger, raced' = raced,
           pc[t] = "post" => l = "post",
           pc[t] = "process" => l \in {"process", "post"},
           t = Worker => l # "acquire", l # "construct"
    PROVE  WakeInv'
<1>1. /\ pc' \in [Threads -> PC] /\ pc'[t] = l
      /\ \A u \in Threads : u # t => pc'[u] = pc[u]
  BY DEF Goto, WakeInv
<1>2. Worker \in Threads /\ Owner \in Threads /\ \A f \in Freers : f \in Threads
  BY OwnerAssumption DEF Threads
<1>3. pc'[Worker] = "acquire" => pc[Worker] = "acquire"
  BY <1>1, <1>2
<1>4. pc'[Owner] = "construct" => pc[Owner] = "construct"
  BY <1>1, <1>2
<1>5. ASSUME NEW f \in Freers, pc[f] \in {"process", "post"}
      PROVE  pc'[f] \in {"process", "post"}
  BY <1>1, <1>2, <1>5
<1> QED
  BY <1>1, <1>3, <1>4, <1>5 DEF WakeInv

\* _free(), but for the steps that touch the flag and the semaphore.
LEMMA FreerKeepsWake ==
    ASSUME WakeInv, NEW f \in Freers,
           \/ \E b \in Blocks : Free(f, b)
           \/ FreeNow(f) \/ FreeLater(f) \/ Push(f) \/ SetHead(f) \/ Count(f)
           \/ TestTrigger(f) \/ SetProcess(f)
    PROVE  WakeInv'
<1>1. f \in Threads /\ f # Worker
  BY NamesAssumption DEF Threads
<1>2. sem' = sem /\ canTrigger' = canTrigger /\ raced' = raced
  BY DEF Free, FreeNow, FreeLater, Push, SetHead, Count, TestTrigger,
         SetProcess, syncVars, flags
<1>3. CASE SetProcess(f)
  BY <1>1, <1>2, <1>3, MoveKeepsWake DEF SetProcess, PC, FreerPC
<1>4. CASE TestTrigger(f)
  <2> DEFINE l == IF canTrigger THEN "untrigger" ELSE "run"
  <2>1. l \in PC /\ Goto(f, l) /\ l # "construct" /\ pc[f] = "trigger"
    BY <1>4 DEF TestTrigger, PC, FreerPC
  <2> QED
    BY <1>1, <1>2, <2>1, MoveKeepsWake
<1>5. CASE \/ \E b \in Blocks : Free(f, b)
           \/ FreeNow(f) \/ FreeLater(f) \/ Push(f) \/ SetHead(f) \/ Count(f)
  <2>1. \E l \in {"test", "run", "push", "setHead", "count", "trigger"} :
           Goto(f, l) /\ pc[f] \notin {"process", "post"}
    BY <1>5 DEF Free, FreeNow, FreeLater, Push, SetHead, Count
  <2>2. PICK l \in {"test", "run", "push", "setHead", "count", "trigger"} :
           Goto(f, l) /\ pc[f] \notin {"process", "post"}
    BY <2>1
  <2>3. l \in PC
    BY DEF PC, FreerPC
  <2> QED
    BY <1>1, <1>2, <2>2, <2>3, MoveKeepsWake
<1> QED
  BY <1>3, <1>4, <1>5

\* The thread, but for the steps that touch the flag and the semaphore, and
\* freeHead() on either side.
LEMMA HeadKeepsWake ==
    ASSUME WakeInv, NEW t \in Threads,
           FreeHead(t) \/ (t = Worker /\ (Dispatch \/ Cleanup \/ Loop \/ MoreLoad))
    PROVE  WakeInv'
<1>1. sem' = sem /\ canTrigger' = canTrigger /\ raced' = raced
  BY DEF FreeHead, ResetLength, ReadHead, Cut, FreeNext, Dispatch, Cleanup,
         Loop, MoreLoad, syncVars, flags
<1>2. CASE FreeNext(t)
  BY <1>1, <1>2 DEF FreeNext, WakeInv
<1>3. CASE ResetLength(t) \/ ReadHead(t) \/ Cut(t)
  <2>1. PICK l \in {"readHead", "cut", "walk"} :
           Goto(t, l) /\ pc[t] \in {"reset", "readHead", "cut"}
    BY <1>3 DEF ResetLength, ReadHead, Cut
  <2>2. l \in PC
    BY DEF PC, WorkerPC, HeadPC
  <2> QED
    BY <1>1, <2>1, <2>2, MoveKeepsWake
<1>4. CASE t = Worker /\ (Dispatch \/ Cleanup \/ Loop \/ MoreLoad)
  <2>1. \E l \in {"unarm", "cleanup", "arm", "loop", "reset"} :
           Goto(t, l) /\ pc[t] \in {"dispatch", "cleanup", "loop", "walk"}
    BY <1>4 DEF Dispatch, Cleanup, Loop, MoreLoad
  <2>2. PICK l \in {"unarm", "cleanup", "arm", "loop", "reset"} :
           Goto(t, l) /\ pc[t] \in {"dispatch", "cleanup", "loop", "walk"}
    BY <2>1
  <2>3. l \in PC
    BY DEF PC, WorkerPC, HeadPC
  <2> QED
    BY <1>1, <2>2, <2>3, MoveKeepsWake
<1> QED
  BY <1>2, <1>3, <1>4 DEF FreeHead

\* The owner, but for the constructor's flag and the destructor's post.
LEMMA OwnerKeepsWake ==
    ASSUME WakeInv, Join \/ FreeLast \/ \E b \in Blocks : FirstFree(b)
    PROVE  WakeInv'
<1>1. Owner \in Threads /\ Owner # Worker
  BY NamesAssumption, OwnerAssumption DEF Threads
<1>2. sem' = sem /\ canTrigger' = canTrigger /\ raced' = raced
  BY DEF Join, FreeLast, FirstFree, syncVars, flags
<1>3. \E l \in {"push", "done", "reset"} :
         Goto(Owner, l) /\ pc[Owner] \in {"first", "join", "walk"}
  BY DEF Join, FreeLast, FirstFree
<1>4. PICK l \in {"push", "done", "reset"} :
         Goto(Owner, l) /\ pc[Owner] \in {"first", "join", "walk"}
  BY <1>3
<1>5. l \in PC
  BY DEF PC, FreerPC, WorkerPC, HeadPC
<1> QED
  BY <1>1, <1>2, <1>4, <1>5, MoveKeepsWake

\* The steps that set or clear the flag, post the semaphore or take a token.
LEMMA SyncKeepsWake ==
    ASSUME WakeInv,
           \/ ClearTrigger \/ Arm \/ Acquire \/ Unarm \/ Destroy \/ PostExit
           \/ \E f \in Freers : Untrigger(f) \/ PostProcess(f)
    PROVE  WakeInv'
<1> USE DEF Goto
<1>1. Owner \in Threads /\ Worker \in Threads /\ Owner # Worker
  BY NamesAssumption, OwnerAssumption DEF Threads
<1>2. CASE ClearTrigger
  <2>1. /\ pc[Owner] = "construct" /\ sem' = sem /\ raced' = raced
        /\ canTrigger' = FALSE /\ pc' \in [Threads -> PC]
        /\ pc'[Worker] = pc[Worker] /\ pc'[Owner] = "first"
    BY <1>1, <1>2 DEF ClearTrigger, WakeInv, PC, FreerPC, flags
  <2> QED
    BY <2>1 DEF WakeInv
<1>3. CASE Arm
  <2>1. /\ sem' = sem /\ raced' = (raced \/ pc[Owner] = "construct")
        /\ canTrigger' = TRUE /\ pc' \in [Threads -> PC]
        /\ pc'[Owner] = pc[Owner]
    BY <1>1, <1>3 DEF Arm, WakeInv, PC, WorkerPC
  <2> QED
    BY <2>1 DEF WakeInv
<1>4. CASE Acquire \/ Unarm
  <2>1. sem' \in Nat /\ raced' = raced
    BY <1>4 DEF Acquire, Unarm, WakeInv, flags
  <2>2. pc' \in [Threads -> PC] /\ pc'[Worker] # "acquire"
    BY <1>1, <1>4 DEF Acquire, Unarm, WakeInv, PC, WorkerPC
  <2>3. canTrigger' \in BOOLEAN
    BY <1>4, Zenon DEF Acquire, Unarm, WakeInv
  <2> QED
    BY <2>1, <2>2, <2>3 DEF WakeInv
<1>5. CASE Destroy
  <2>1. /\ sem' = sem /\ raced' = raced /\ canTrigger' = canTrigger
        /\ pc' \in [Threads -> PC]
        /\ pc'[Worker] = pc[Worker] /\ pc'[Owner] = "postExit"
        /\ \A f \in Freers : pc[f] = "run"
    BY <1>1, <1>5, NamesAssumption DEF Destroy, WakeInv, PC, FreerPC, flags
  <2> QED
    BY <2>1 DEF WakeInv
<1>6. CASE PostExit
  <2>1. /\ sem' = sem + 1 /\ raced' = raced /\ canTrigger' = canTrigger
        /\ pc' \in [Threads -> PC]
        /\ pc'[Worker] = pc[Worker] /\ pc'[Owner] = "join"
    BY <1>1, <1>6 DEF PostExit, WakeInv, PC, FreerPC, flags
  <2> QED
    BY <2>1 DEF WakeInv
<1>7. ASSUME NEW f \in Freers, Untrigger(f) PROVE WakeInv'
  <2>1. /\ sem' = sem /\ raced' = raced /\ canTrigger' = FALSE
        /\ pc' \in [Threads -> PC] /\ f # Worker
        /\ pc'[Worker] = pc[Worker] /\ pc'[f] = "process"
        /\ pc'[Owner] = "construct" => pc[Owner] = "construct"
    BY <1>1, <1>7, NamesAssumption
       DEF Untrigger, WakeInv, PC, FreerPC, flags, Threads
  <2> QED
    BY <2>1 DEF WakeInv
<1>8. ASSUME NEW f \in Freers, PostProcess(f) PROVE WakeInv'
  <2>1. /\ sem' = sem + 1 /\ raced' = raced /\ canTrigger' = canTrigger
        /\ pc' \in [Threads -> PC] /\ f # Worker
        /\ pc'[Worker] = pc[Worker]
        /\ pc'[Owner] = "construct" => pc[Owner] = "construct"
    BY <1>1, <1>8, NamesAssumption
       DEF PostProcess, WakeInv, PC, FreerPC, flags, Threads
  <2> QED
    BY <2>1 DEF WakeInv
<1> QED
  BY <1>2, <1>3, <1>4, <1>5, <1>6, <1>7, <1>8

LEMMA StepWakeInv == WakeInv /\ [Next]_vars => WakeInv'
<1> SUFFICES ASSUME WakeInv, [Next]_vars PROVE WakeInv'
  OBVIOUS
<1>1. Owner \in Threads /\ Worker \in Threads
  BY OwnerAssumption DEF Threads
<1>2. CASE Program
  <2>1. CASE (\E b \in Blocks : Malloc(b)) \/ SetSkipCleanup
    BY <2>1 DEF Malloc, SetSkipCleanup, WakeInv, syncVars, flags
  <2> QED
    BY <1>2, <2>1, FreerKeepsWake, SyncKeepsWake DEF Program
<1>3. CASE WorkerStep
  BY <1>1, <1>3, SyncKeepsWake, HeadKeepsWake DEF WorkerStep
<1>4. CASE OwnerStep
  BY <1>1, <1>4, SyncKeepsWake, OwnerKeepsWake, HeadKeepsWake DEF OwnerStep
<1>5. CASE \E f \in Freers : FreeSteps(f)
  BY <1>5, SyncKeepsWake, FreerKeepsWake DEF FreeSteps
<1>6. CASE UNCHANGED vars
  BY <1>6 DEF vars, WakeInv, syncVars, flags
<1> QED
  BY <1>2, <1>3, <1>4, <1>5, <1>6 DEF Next

\* No wakeup is lost between the thread and _free(): a thread that sleeps on an
\* empty semaphore, while no _free() is under way, has its flag set, so that the
\* next _free() posts; for any set of threads that call _free().
THEOREM ThreadCanBeWoken == Spec => []SleeperCanBeWoken
<1>1. Init => WakeInv
  BY Init_WakeInv
<1>2. WakeInv /\ [Next]_vars => WakeInv'
  BY StepWakeInv
<1>3. WakeInv => SleeperCanBeWoken
  BY DEF WakeInv, SleeperCanBeWoken
<1> QED
  BY <1>1, <1>2, <1>3, PTL DEF Spec

-----------------------------------------------------------------------------
(* No block is lost.  What a chain is, for any links l: the least set that is *)
(* closed under l and has the block b.                                        *)

ClosedIn(l, S) == \A c \in S : l[c] # NULL => l[c] \in S

ChainIn(l, b) ==
    {c \in Blocks :
        \A S \in SUBSET Blocks : ClosedIn(l, S) /\ b \in S \cup {NULL} => c \in S}

\* The chain of a block has the block and what its blocks link to.
LEMMA ChainIsClosed ==
    ASSUME NEW l \in [Blocks -> Blocks \cup {NULL}], NEW b \in Blocks \cup {NULL}
    PROVE  /\ ChainIn(l, b) \in SUBSET Blocks
           /\ ClosedIn(l, ChainIn(l, b))
           /\ b # NULL => b \in ChainIn(l, b)
<1>1. ASSUME NEW c \in ChainIn(l, b), l[c] # NULL PROVE l[c] \in ChainIn(l, b)
  <2>1. c \in Blocks /\ l[c] \in Blocks
    BY <1>1 DEF ChainIn
  <2>2. ASSUME NEW S \in SUBSET Blocks, ClosedIn(l, S), b \in S \cup {NULL}
        PROVE  l[c] \in S
    BY <1>1, <2>2 DEF ChainIn, ClosedIn
  <2> QED
    BY <2>1, <2>2 DEF ChainIn
<1> QED
  BY <1>1 DEF ChainIn, ClosedIn

\* And nothing else: a closed set that has the block has its chain.
LEMMA ChainIsLeast ==
    ASSUME NEW l, NEW b, NEW S \in SUBSET Blocks, ClosedIn(l, S), b \in S \cup {NULL}
    PROVE  ChainIn(l, b) \subseteq S
BY DEF ChainIn

\* Links that change only outside of the chain leave it as it is.
LEMMA ChainUnchanged ==
    ASSUME NEW l \in [Blocks -> Blocks \cup {NULL}],
           NEW m \in [Blocks -> Blocks \cup {NULL}],
           NEW b \in Blocks \cup {NULL},
           NEW S \in SUBSET Blocks, ClosedIn(l, S), b \in S \cup {NULL},
           \A c \in S : m[c] = l[c]
    PROVE  ChainIn(l, b) \subseteq ChainIn(m, b)
<1> DEFINE C == ChainIn(m, b) \cap S
<1>1. C \in SUBSET Blocks /\ ClosedIn(l, C) /\ b \in C \cup {NULL}
  BY ChainIsClosed DEF ClosedIn
<1> QED
  BY <1>1, ChainIsLeast

\* What is left of a chain behind its first block is the chain of the next.
LEMMA ChainBehind ==
    ASSUME NEW l \in [Blocks -> Blocks \cup {NULL}], NEW b \in Blocks
    PROVE  ChainIn(l, b) \subseteq {b} \cup ChainIn(l, l[b])
<1> DEFINE C == {b} \cup ChainIn(l, l[b])
<1>1. C \in SUBSET Blocks /\ ClosedIn(l, C) /\ b \in C \cup {NULL}
  BY ChainIsClosed DEF ClosedIn
<1> QED
  BY <1>1, ChainIsLeast

\* When a link is cut, the chain falls into two.
LEMMA ChainCut ==
    ASSUME NEW l \in [Blocks -> Blocks \cup {NULL}], NEW c \in Blocks,
           NEW b \in Blocks \cup {NULL}
    PROVE  ChainIn(l, b) \subseteq
             ChainIn([l EXCEPT ![c] = NULL], b)
               \cup ChainIn([l EXCEPT ![c] = NULL], l[c])
<1> DEFINE m == [l EXCEPT ![c] = NULL]
           C == ChainIn(m, b) \cup ChainIn(m, l[c])
<1>1. m \in [Blocks -> Blocks \cup {NULL}]
  OBVIOUS
<1>2. l[c] \in Blocks \cup {NULL}
  OBVIOUS
<1>3. C \in SUBSET Blocks /\ b \in C \cup {NULL}
  BY <1>1, <1>2, ChainIsClosed
<1>4. ASSUME NEW d \in C, l[d] # NULL PROVE l[d] \in C
  <2>1. CASE d = c
    BY <1>1, <1>2, <1>4, <2>1, ChainIsClosed
  <2>2. CASE d # c
    <3>1. m[d] = l[d]
      BY <1>3, <2>2
    <3>2. ClosedIn(m, ChainIn(m, b)) /\ ClosedIn(m, ChainIn(m, l[c]))
      BY <1>1, <1>2, ChainIsClosed
    <3> QED
      BY <1>4, <3>1, <3>2 DEF ClosedIn
  <2> QED
    BY <2>1, <2>2
<1>5. ClosedIn(l, C)
  BY <1>4 DEF ClosedIn
<1> HIDE DEF C
<1>6. ChainIn(l, b) \subseteq C
  BY <1>3, <1>5, ChainIsLeast
<1> QED
  BY <1>6 DEF C

\* Where the block b is on its way.
Kept(b) ==
    \/ pc[Owner] # "done" /\ b \in ChainIn(link, head)
    \/ \E t \in Threads : pc[t] = "walk" /\ b \in ChainIn(link, it[t])
    \/ \E f \in Freers : ptr[f] = b
    \/ skipCleanup

\* The destructor's freeHead() works on the head itself, so that the head has
\* no block behind it any more when it is freed.
LossInv ==
    /\ pc[Owner] = "cut" => it[Owner] = head
    /\ pc[Owner] = "walk" => link[head] = NULL
    /\ \A b \in Blocks : blk[b] = "queued" => Kept(b)

LEMMA KeptIsNoBlockLost == LossInv => NoBlockLost
BY DEF LossInv, Kept, NoBlockLost, Chain, Closed, ChainIn, ClosedIn

LEMMA Init_LossInv == Init => LossInv
<1> SUFFICES ASSUME Init PROVE LossInv
  OBVIOUS
<1>1. Owner \in Threads /\ Owner # Worker
  BY NamesAssumption, OwnerAssumption DEF Threads
<1> QED
  BY <1>1 DEF Init, LossInv

\* The blocks of the chains of the head and of the variables are chained.
LEMMA ChainIsChained ==
    ASSUME IInv, NEW b \in Blocks \cup {NULL}, b \in Chained \cup {NULL}
    PROVE  /\ Chained \in SUBSET Blocks /\ ClosedIn(link, Chained)
           /\ ChainIn(link, b) \subseteq Chained
<1>1. Chained \in SUBSET Blocks /\ ClosedIn(link, Chained)
  BY DEF IInv, RefInv, Chained, ClosedIn
<1> QED
  BY <1>1, ChainIsLeast, Zenon

LEMMA ChainOfNull == ASSUME NEW l PROVE ChainIn(l, NULL) = {}
<1>1. {} \in SUBSET Blocks /\ ClosedIn(l, {}) /\ NULL \in {} \cup {NULL}
  BY DEF ClosedIn
<1>2. ChainIn(l, NULL) \subseteq {}
  BY <1>1, ChainIsLeast
<1> QED
  BY <1>2

\* The steps that leave the blocks, the head and the variables alone, and
\* neither begin freeHead() nor leave it with blocks in the variable.
LEMMA QuietLoss ==
    ASSUME IInv, LossInv,
           memVars' = memVars, head' = head, ptr' = ptr, it' = it,
           skipCleanup => skipCleanup',
           \A t \in Threads : pc[t] = "walk" => pc'[t] = "walk" \/ it[t] = NULL,
           pc'[Owner] \in {"cut", "walk"} => pc'[Owner] = pc[Owner],
           pc'[Owner] = "done" => pc[Owner] = "done" \/ skipCleanup'
    PROVE  LossInv'
<1>1. blk' = blk /\ link' = link
  BY DEF memVars
<1>2. ASSUME NEW b \in Blocks, blk[b] = "queued" PROVE Kept(b)'
  BY <1>1, <1>2, ChainOfNull DEF LossInv, Kept
<1> QED
  BY <1>1, <1>2 DEF LossInv

(* The control steps of the program, the thread and the owner lose no block.   *)
LEMMA ControlLoss ==
    ASSUME Freers = {Owner}, IInv, LossInv,
           \/ ClearTrigger \/ SetSkipCleanup \/ FreeLater(Owner)
           \/ Count(Owner) \/ TestTrigger(Owner) \/ Untrigger(Owner) \/ SetProcess(Owner)
           \/ PostProcess(Owner) \/ Arm \/ Acquire \/ Dispatch \/ Cleanup \/ Loop \/ MoreLoad
           \/ Unarm \/ Destroy \/ PostExit \/ Join
           \/ \E t \in Threads : ResetLength(t)
    PROVE  LossInv'
<1>1. Owner # Worker /\ Threads = {Owner, Worker} /\ Owner \in Freers
  BY NamesAssumption, OwnerAssumption DEF Threads
<1>2. memVars' = memVars /\ head' = head /\ ptr' = ptr /\ it' = it
  BY DEF ClearTrigger, SetSkipCleanup, FreeLater, Count, TestTrigger,
       Untrigger, SetProcess, PostProcess, Arm, Acquire, Dispatch, Cleanup,
       Loop, MoreLoad, Unarm, Destroy, PostExit, Join, ResetLength, locals
<1>3. skipCleanup => skipCleanup'
  BY DEF ClearTrigger, SetSkipCleanup, FreeLater, Count, TestTrigger,
       Untrigger, SetProcess, PostProcess, Arm, Acquire, Dispatch, Cleanup,
       Loop, MoreLoad, Unarm, Destroy, PostExit, Join, ResetLength, flags
<1>4. pc \in [Threads -> PC]
  BY DEF IInv, TypeOK
<1>5. /\ \A t \in Threads : pc[t] = "walk" => pc'[t] = "walk" \/ it[t] = NULL
      /\ pc'[Owner] \in {"cut", "walk"} => pc'[Owner] = pc[Owner]
      /\ pc'[Owner] = "done" => pc[Owner] = "done" \/ skipCleanup'
  <2>1. CASE \/ ClearTrigger \/ FreeLater(Owner) \/ Count(Owner)
             \/ TestTrigger(Owner) \/ Untrigger(Owner) \/ SetProcess(Owner)
             \/ PostProcess(Owner) \/ PostExit
    <3>1. /\ pc'[Worker] = pc[Worker] /\ pc[Owner] # "walk"
          /\ pc'[Owner] \notin {"cut", "walk", "done"}
      BY <2>1, <1>1, <1>4
         DEF Goto, ClearTrigger, FreeLater, Count, TestTrigger, Untrigger,
             SetProcess, PostProcess, PostExit
    <3> QED
      BY <1>1, <3>1
  <2>2. CASE \/ Arm \/ Acquire \/ Dispatch \/ Cleanup \/ Loop \/ MoreLoad
             \/ Unarm
    <3>1. /\ pc'[Owner] = pc[Owner]
          /\ pc[Worker] = "walk" => it[Worker] = NULL
      BY <2>2, <1>1, <1>4
         DEF Goto, Arm, Acquire, Dispatch, Cleanup, Loop, MoreLoad, Unarm
    <3> QED
      BY <1>1, <3>1
  <2>3. CASE SetSkipCleanup
    BY <2>3 DEF SetSkipCleanup
  <2>4. CASE Destroy
    BY <2>4, <1>1, <1>4 DEF Destroy
  <2>5. CASE Join
    <3>1. /\ pc'[Worker] = pc[Worker] /\ pc[Owner] = "join"
          /\ pc'[Owner] = (IF skipCleanup THEN "done" ELSE "reset")
      BY <2>5, <1>1, <1>4 DEF Goto, Join
    <3> QED
      BY <1>1, <1>3, <3>1
  <2>6. CASE \E t \in Threads : ResetLength(t)
    BY <2>6, <1>1, <1>4 DEF Goto, ResetLength
  <2> QED
    BY <2>1, <2>2, <2>3, <2>4, <2>5, <2>6
<1> QED
  BY <1>2, <1>3, <1>5, QuietLoss

\* A block that _malloc() returns is not queued; one that _free() is given is
\* in its hands; one that is freed at once was.
LEMMA ProgramLoss ==
    ASSUME Freers = {Owner}, IInv, LossInv, NEW b \in Blocks,
           Malloc(b) \/ FirstFree(b) \/ Free(Owner, b) \/ FreeNow(Owner)
    PROVE  LossInv'
<1>1. Owner # Worker /\ Threads = {Owner, Worker} /\ Owner \in Freers
  BY NamesAssumption, OwnerAssumption DEF Threads
<1>2. /\ link' = link /\ head' = head /\ it' = it
      /\ skipCleanup' = skipCleanup
  BY DEF Malloc, FirstFree, Free, FreeNow, locals, flags
<1>3. CASE Malloc(b)
  <2>1. /\ blk' = [blk EXCEPT ![b] = "live"] /\ ptr' = ptr /\ pc' = pc
    BY <1>3 DEF Malloc, locals
  <2>2. \A c \in Blocks : blk'[c] = "queued" => blk[c] = "queued"
    BY <2>1 DEF IInv, TypeOK
  <2> QED
    BY <1>2, <2>1, <2>2 DEF LossInv, Kept
<1>4. CASE FirstFree(b) \/ Free(Owner, b)
  <2>1. /\ blk' = [blk EXCEPT ![b] = "queued"]
        /\ ptr' = [ptr EXCEPT ![Owner] = b] /\ pc[Owner] \in {"first", "run"}
    BY <1>4 DEF FirstFree, Free
  <2>2. /\ pc'[Owner] \in {"push", "test"} /\ pc'[Worker] = pc[Worker]
    BY <1>1, <1>4 DEF FirstFree, Free, Goto, IInv, TypeOK
  <2>3. ptr[Owner] = NULL /\ ptr'[Owner] = b
    BY <1>1, <2>1 DEF IInv, TypeOK, ControlInv
  <2>4. \A c \in Blocks : blk'[c] = "queued" => blk[c] = "queued" \/ c = b
    BY <2>1 DEF IInv, TypeOK
  <2>5. ASSUME NEW c \in Blocks, blk'[c] = "queued" PROVE Kept(c)'
    <3>1. CASE c = b
      BY <1>1, <2>3, <3>1 DEF Kept
    <3>2. CASE blk[c] = "queued"
      <4>1. Kept(c) /\ ptr[Owner] # c
        BY <2>3, <3>2, NamesAssumption DEF LossInv
      <4> QED
        BY <1>1, <1>2, <2>1, <2>2, <4>1 DEF Kept
    <3> QED
      BY <2>4, <2>5, <3>1, <3>2
  <2> QED
    BY <2>2, <2>5 DEF LossInv
<1>5. CASE FreeNow(Owner)
  <2> DEFINE p == ptr[Owner]
  <2>1. p \in Blocks /\ blk[p] = "queued" /\ pc[Owner] = "test"
    BY <1>1, <1>5, NamesAssumption DEF FreeNow, IInv, TypeOK, ControlInv, RefInv
  <2>2. /\ blk' = [blk EXCEPT ![p] = "free"]
        /\ ptr' = [ptr EXCEPT ![Owner] = NULL]
    BY <1>5, <2>1 DEF FreeNow, BaseFree, IInv, TypeOK
  <2>3. /\ pc'[Owner] = "run" /\ pc'[Worker] = pc[Worker]
    BY <1>1, <1>5 DEF FreeNow, Goto, IInv, TypeOK
  <2>4. ASSUME NEW c \in Blocks, blk'[c] = "queued" PROVE Kept(c)'
    <3>1. c # p /\ Kept(c)
      BY <2>1, <2>2, <2>4 DEF IInv, TypeOK, LossInv
    <3> QED
      BY <1>1, <1>2, <2>1, <2>2, <2>3, <3>1 DEF Kept
  <2> QED
    BY <2>3, <2>4 DEF LossInv
<1> QED
  BY <1>3, <1>4, <1>5

\* The block is linked to the chain, which it is not on; then it is the head,
\* and the chain of the old head is behind it.
LEMMA PushLoss ==
    ASSUME Freers = {Owner}, IInv, LossInv, Push(Owner) \/ SetHead(Owner)
    PROVE  LossInv'
<1>1. Owner # Worker /\ Threads = {Owner, Worker} /\ Owner \in Freers
  BY NamesAssumption, OwnerAssumption DEF Threads
<1> DEFINE p == ptr[Owner]
<1>2. p \in Blocks /\ blk[p] = "queued" /\ pc[Owner] \in {"push", "setHead"}
  BY <1>1, NamesAssumption DEF Push, SetHead, IInv, TypeOK, ControlInv, RefInv
<1>3. /\ pc'[Owner] \in {"setHead", "count"} /\ pc'[Worker] = pc[Worker]
  BY <1>1 DEF Push, SetHead, Goto, IInv, TypeOK
<1>4. blk' = blk /\ it' = it /\ skipCleanup' = skipCleanup
  BY DEF Push, SetHead, memVars, locals, flags
<1>5. /\ link \in [Blocks -> Blocks \cup {NULL}]
      /\ head \in Blocks \cup {NULL} /\ head \in Chained \cup {NULL}
      /\ it[Worker] \in Blocks \cup {NULL}
      /\ pc[Worker] = "walk" => it[Worker] \in Chained \cup {NULL}
  BY <1>1, <1>2 DEF IInv, TypeOK, RefInv
<1>6. CASE Push(Owner)
  <2>1. /\ link' = [link EXCEPT ![p] = head] /\ head' = head /\ ptr' = ptr
    BY <1>6 DEF Push, locals
  <2>2. /\ link' \in [Blocks -> Blocks \cup {NULL}]
        /\ \A c \in Chained : link'[c] = link[c]
    BY <1>2, <1>5, <2>1 DEF Chained
  <2>3. Chained \in SUBSET Blocks /\ ClosedIn(link, Chained)
    BY <1>5, ChainIsChained
  <2>4. ChainIn(link, head) \subseteq ChainIn(link', head)
    BY <1>5, <2>2, <2>3, ChainUnchanged
  <2>5. pc[Worker] = "walk" =>
           ChainIn(link, it[Worker]) \subseteq ChainIn(link', it[Worker])
    BY <1>5, <2>2, <2>3, ChainUnchanged
  <2>6. ASSUME NEW c \in Blocks, blk[c] = "queued" PROVE Kept(c)'
    <3>1. Kept(c)
      BY <2>6 DEF LossInv
    <3> QED
      BY <1>1, <1>2, <1>3, <1>4, <2>1, <2>4, <2>5, <3>1 DEF Kept
  <2> QED
    BY <1>3, <1>4, <2>6 DEF LossInv
<1>7. CASE SetHead(Owner)
  <2>1. /\ link' = link /\ head' = p /\ ptr' = [ptr EXCEPT ![Owner] = NULL]
    BY <1>7 DEF SetHead, memVars
  <2>2. link[p] = head
    BY <1>7 DEF SetHead, IInv, RefInv
  <2>3. /\ ChainIn(link, p) \in SUBSET Blocks
        /\ ClosedIn(link, ChainIn(link, p)) /\ p \in ChainIn(link, p)
    BY <1>2, <1>5, NamesAssumption, ChainIsClosed
  <2>4. head \in ChainIn(link, p) \cup {NULL}
    BY <2>2, <2>3 DEF ClosedIn
  <2>5. ChainIn(link, head) \subseteq ChainIn(link, p)
    BY <2>3, <2>4, ChainIsLeast
  <2>6. ASSUME NEW c \in Blocks, blk[c] = "queued" PROVE Kept(c)'
    <3>1. Kept(c)
      BY <2>6 DEF LossInv
    <3>2. \A f \in Freers : ptr[f] = c => c = p
      BY <1>1
    <3> QED
      BY <1>1, <1>2, <1>3, <1>4, <2>1, <2>3, <2>5, <3>1, <3>2 DEF Kept
  <2> QED
    BY <1>3, <1>4, <2>6 DEF LossInv
<1> QED
  BY <1>6, <1>7

\* freeHead() takes the chain behind a block, and frees it block by block.
LEMMA HeadLoss ==
    ASSUME Freers = {Owner}, IInv, LossInv, NEW t \in Threads,
           ReadHead(t) \/ Cut(t) \/ FreeNext(t)
    PROVE  LossInv'
<1>1. Owner # Worker /\ Threads = {Owner, Worker} /\ Owner \in Freers
  BY NamesAssumption, OwnerAssumption DEF Threads
<1>2. /\ pc[t] \in HeadPC /\ pc[t] \in {"readHead", "cut", "walk"}
      /\ pc[Owner] # "done"
  BY <1>1 DEF ReadHead, Cut, FreeNext, HeadPC, IInv, ControlInv
<1>3. /\ head \in Chained /\ head \in Blocks
      /\ \A u \in Threads : u # t => pc[u] \notin HeadPC
  BY <1>2, InFreeHead DEF Chained
<1>4. head' = head /\ ptr' = ptr /\ skipCleanup' = skipCleanup
  BY DEF ReadHead, Cut, FreeNext, flags
<1>5. /\ pc' \in [Threads -> PC] /\ \A u \in Threads : u # t => pc'[u] = pc[u]
      /\ pc'[Owner] # "done"
  BY <1>1, <1>2
     DEF ReadHead, Cut, FreeNext, Goto, IInv, TypeOK, PC, WorkerPC, HeadPC
<1>6. \A u \in Threads : u # t => pc[u] \notin {"cut", "walk"}
  BY <1>3 DEF HeadPC
<1>7. /\ link \in [Blocks -> Blocks \cup {NULL}]
      /\ it \in [Threads -> Blocks \cup {NULL}]
  BY DEF IInv, TypeOK
<1>8. CASE ReadHead(t)
  <2>1. /\ blk' = blk /\ link' = link /\ it' = [it EXCEPT ![t] = head]
        /\ pc'[t] = "cut" /\ pc[t] = "readHead"
    BY <1>8, <1>5 DEF ReadHead, memVars, Goto, IInv, TypeOK
  <2>2. \A c \in Blocks : Kept(c) => Kept(c)'
    BY <1>2, <1>4, <1>5, <1>6, <2>1 DEF Kept
  <2>3. /\ pc'[Owner] = "cut" => it'[Owner] = head'
        /\ pc'[Owner] # "walk"
    BY <1>1, <1>4, <1>5, <1>6, <1>7, <2>1
  <2> QED
    BY <2>1, <2>2, <2>3 DEF LossInv
<1>9. CASE Cut(t)
  <2> DEFINE c == it[t]
  <2>1. c \in Blocks /\ pc[t] = "cut"
    BY <1>9 DEF Cut, IInv, RefInv, Chained
  <2>2. /\ blk' = blk /\ link' = [link EXCEPT ![c] = NULL]
        /\ it'[t] = link[c] /\ pc'[t] = "walk"
    BY <1>5, <1>7, <1>9 DEF Cut, Goto, IInv, TypeOK
  <2>3. ChainIn(link, head) \subseteq
          ChainIn(link', head) \cup ChainIn(link', link[c])
    BY <1>3, <1>7, <2>1, <2>2, ChainCut
  <2>4. ASSUME NEW b \in Blocks, blk[b] = "queued" PROVE Kept(b)'
    <3>1. Kept(b)
      BY <2>4 DEF LossInv
    <3>2. \A u \in Threads : pc[u] # "walk"
      BY <1>6, <2>1
    <3> QED
      BY <1>4, <1>5, <2>2, <2>3, <3>1, <3>2 DEF Kept
  <2>5. /\ pc'[Owner] # "cut"
        /\ pc'[Owner] = "walk" => link'[head'] = NULL
    <3>1. CASE t = Owner
      <4>1. c = head
        BY <2>1, <3>1 DEF LossInv
      <4> QED
        BY <1>4, <1>7, <2>1, <2>2, <3>1, <4>1
    <3>2. CASE t # Owner
      BY <1>1, <1>5, <1>6, <3>2
    <3> QED
      BY <3>1, <3>2
  <2> QED
    BY <2>2, <2>4, <2>5 DEF LossInv
<1>10. CASE FreeNext(t)
  <2> DEFINE c == it[t]
  <2>1. c \in Blocks /\ pc[t] = "walk" /\ blk[c] = "queued"
    BY <1>10 DEF FreeNext, IInv, RefInv, Chained
  <2>2. /\ blk' = [blk EXCEPT ![c] = "free"] /\ link' = link
        /\ it'[t] = link[c] /\ pc' = pc
    BY <1>7, <1>10, <2>1 DEF FreeNext, BaseFree, IInv, TypeOK
  <2>3. ChainIn(link, c) \subseteq {c} \cup ChainIn(link, link[c])
    BY <1>7, <2>1, ChainBehind
  <2>4. ASSUME NEW b \in Blocks, blk'[b] = "queued" PROVE Kept(b)'
    <3>1. Kept(b) /\ b # c
      BY <2>1, <2>2, <2>4 DEF LossInv, IInv, TypeOK
    <3>2. \A u \in Threads : pc[u] = "walk" => u = t
      BY <1>6
    <3> QED
      BY <1>4, <2>2, <2>3, <3>1, <3>2 DEF Kept
  <2>5. pc'[Owner] # "cut"
    BY <1>1, <1>6, <2>1, <2>2
  <2> QED
    BY <1>4, <2>2, <2>4, <2>5 DEF LossInv
<1> QED
  BY <1>8, <1>9, <1>10

\* The destructor frees the head, which has no block behind it.
LEMMA FreeLastLoss ==
    ASSUME Freers = {Owner}, IInv, LossInv, FreeLast
    PROVE  LossInv'
<1>1. Owner # Worker /\ Threads = {Owner, Worker} /\ Owner \in Freers
  BY NamesAssumption, OwnerAssumption DEF Threads
<1>2. pc[Owner] = "walk" /\ it[Owner] = NULL /\ pc[Owner] \in HeadPC
  BY DEF FreeLast, HeadPC
<1>3. /\ head \in Blocks /\ blk[head] = "queued" /\ pc[Worker] = "exited"
  BY <1>1, <1>2, InFreeHead DEF Chained, IInv, ControlInv
<1>4. /\ blk' = [blk EXCEPT ![head] = "free"] /\ ptr' = ptr
      /\ skipCleanup' = skipCleanup /\ pc'[Owner] = "done"
  BY <1>1, <1>3 DEF FreeLast, BaseFree, locals, flags, Goto, IInv, TypeOK
<1>5. ChainIn(link, head) \subseteq {head}
  <2>1. link[head] = NULL /\ link \in [Blocks -> Blocks \cup {NULL}]
    BY <1>2 DEF LossInv, IInv, TypeOK
  <2> QED
    BY <1>3, <2>1, ChainBehind, ChainOfNull
<1>6. ASSUME NEW b \in Blocks, blk'[b] = "queued" PROVE Kept(b)'
  <2>1. Kept(b) /\ b # head
    BY <1>3, <1>4, <1>6 DEF LossInv, IInv, TypeOK
  <2>2. ~\E t \in Threads : pc[t] = "walk" /\ b \in ChainIn(link, it[t])
    BY <1>1, <1>2, <1>3, ChainOfNull
  <2> QED
    BY <1>4, <1>5, <2>1, <2>2 DEF Kept
<1> QED
  BY <1>4, <1>6 DEF LossInv

LEMMA StepLossInv ==
    ASSUME Freers = {Owner}, IInv, LossInv, [Next]_vars
    PROVE  LossInv'
<1>1. Owner \in Threads /\ Worker \in Threads
  BY OwnerAssumption DEF Threads
<1>2. CASE Program
  BY <1>2, ProgramLoss, ControlLoss DEF Program
<1>3. CASE WorkerStep
  BY <1>1, <1>3, HeadLoss, ControlLoss DEF WorkerStep, FreeHead
<1>4. CASE OwnerStep
  BY <1>1, <1>4, HeadLoss, ControlLoss, ProgramLoss, FreeLastLoss
     DEF OwnerStep, FreeHead
<1>5. CASE \E f \in Freers : FreeSteps(f)
  <2>1. FreeSteps(Owner)
    BY <1>5
  <2>2. CASE FreeNow(Owner)
    <3>1. \E b \in Blocks : TRUE
      BY <2>2, OwnerAssumption, NamesAssumption
         DEF FreeNow, IInv, TypeOK, ControlInv
    <3> QED
      BY <2>2, <3>1, ProgramLoss
  <2> QED
    BY <2>1, <2>2, PushLoss, ControlLoss DEF FreeSteps
<1>6. CASE UNCHANGED vars
  BY <1>6 DEF vars, memVars, flags, locals, LossInv, Kept
<1> QED
  BY <1>2, <1>3, <1>4, <1>5, <1>6 DEF Next

\* Every block passed to _free() stays reachable until it is freed: from the
\* head, from a running freeHead() or from _free() itself; the destructor
\* leaves none behind, unless setSkipCleanup() told it to.
THEOREM NothingIsLost == ASSUME Freers = {Owner} PROVE Spec => []NoBlockLost
<1>1. Init => LossInv
  BY Init_LossInv
<1>2. IInv /\ LossInv /\ [Next]_vars => LossInv'
  BY StepLossInv
<1>3. LossInv => NoBlockLost
  BY KeptIsNoBlockLost
<1>4. Spec => []IInv
  BY AllocatorInductive
<1> QED
  BY <1>1, <1>2, <1>3, <1>4, PTL DEF Spec

=============================================================================
