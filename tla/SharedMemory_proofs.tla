------------------------ MODULE SharedMemory_proofs ------------------------
(***************************************************************************)
(* SharedMemory, for any number of objects and programs, kills and faults   *)
(* included: what a semaphore guarantees in every case, and what the names  *)
(* guarantee as long as no one gets the semaphore before its creator does   *)
(* or opens the name while the last one closes.                             *)
(***************************************************************************)
EXTENDS SharedMemory, FiniteSetTheorems, TLAPS

\* An object has the semaphore and the memory that it uses.
ObjectInv ==
    /\ semName \in 0..opens /\ abandoned \subseteq 1..opens
    /\ \A p \in Objects :
        /\ pc[p] \in HasSemaphore => sem[p] \in 1..opens
        /\ pc[p] \in {"exists", "wait", "attach"} => number[p] # 0
        /\ pc[p] \in {"count", "post", "open", "locked", "detach"} =>
             mem[p] # 0

\* A name or an object refers to it.
Referred(s) ==
    s = semName \/ \E p \in Objects : pc[p] \in HasSemaphore /\ sem[p] = s

\* At most one has a semaphore, and then it is taken; it is taken by nobody
\* only when it was abandoned.
HolderInv ==
    /\ \A p \in Objects : pc[p] \in Holding => value[sem[p]] = 0
    /\ \A p, q \in Objects :
         pc[p] \in Holding /\ pc[q] \in Holding /\ sem[p] = sem[q] => p = q
    /\ \A s \in Ids \ abandoned : Referred(s) =>
         value[s] = 1 \/ \E p \in Objects : pc[p] \in Holding /\ sem[p] = s

\* Whoever uses the names has what they name; names are never without users
\* who would find them.
NamesInv ==
    /\ memName # 0 => semName # 0
    /\ \A p \in Objects :
        /\ pc[p] \notin {"closed", "exists"} => semName # 0
        /\ pc[p] \in HasSemaphore => sem[p] = semName
        /\ pc[p] \in {"count", "post", "open", "locked", "detach"} =>
             mem[p] = memName
        /\ pc[p] \in {"count", "post", "open", "locked", "detach", "closePost",
                      "deleteMem"} => memName # 0
        /\ pc[p] = "deleteSem" => memName = 0

\* The creator of the semaphore finds no memory, and nobody who has one.
Creator(p) == pc[p] \in {"wait", "attach", "count"} /\ isCreation[p] = TRUE
OpenInv ==
    \A p \in Objects : Creator(p) =>
        /\ pc[p] \in {"wait", "attach"} => memName = 0
        /\ Attached = {}
        /\ pc[p] = "count" => lastWrite = 0
        /\ pc[p] = "wait" =>
             \A q \in Objects : pc[q] \in {"closed", "exists", "wait"}

\* Beside the last one that closes there is nobody.
CloseInv ==
    \A p, q \in Objects :
        Remover(p) /\ q # p => pc[q] \in {"closed", "exists"}

\* The count is at least that of the other objects that have the memory, so
\* that no one takes itself for the last who is not; kills leave it higher.
CountInv ==
    memName # 0 =>
        /\ accessCount[memName] >= Cardinality(Attached) - 1
        /\ data[memName] = lastWrite

\* Without kills and throws the names have somebody who will remove them, and
\* the count is right.
Clean == crashes = 0 /\ abandoned = {} /\ leaked = FALSE
CleanInv ==
    Clean =>
        /\ semName # 0 /\ memName = 0 =>
             \E p \in Objects : Creator(p) \/ pc[p] = "deleteSem"
        /\ memName # 0 /\ (\A p \in Objects : ~Remover(p) /\ ~Creator(p)) =>
             /\ Attached # {}
             /\ accessCount[memName] = Cardinality(Attached) - 1

Peace ==
    /\ ~Overlap /\ NamesInv /\ OpenInv /\ CloseInv /\ CountInv /\ CleanInv

IInv == TypeOK /\ ObjectInv /\ HolderInv /\ (raced = FALSE => Peace)

-----------------------------------------------------------------------------

\* Counting the objects that have the memory.
LEMMA AttachedIsFinite ==
    /\ IsFiniteSet(Attached) /\ Cardinality(Attached) \in Nat
    /\ \A p \in Objects :
         /\ p \notin Attached =>
              Cardinality(Attached \cup {p}) = Cardinality(Attached) + 1
         /\ p \in Attached =>
              Cardinality(Attached \ {p}) = Cardinality(Attached) - 1
<1>1. IsFiniteSet(Attached)
      BY FS_Subset, ObjectsAssumption DEF Attached
<1> QED BY <1>1, FS_CardinalityType, FS_AddElement, FS_RemoveElement

\* Whoever uses a semaphore has one that was made; whoever has taken it finds
\* it taken.
LEMMA HasTheSemaphore ==
    ASSUME IInv, NEW p \in Objects, pc[p] \in HasSemaphore
    PROVE  /\ sem[p] \in 1..opens /\ sem[p] \in Ids
           /\ value[sem[p]] \in 0..1
           /\ pc[p] \in Holding => value[sem[p]] = 0
<1>1. sem[p] \in 1..opens /\ sem[p] \in Ids
      BY BoundsAssumption DEF IInv, TypeOK, ObjectInv, Ids
<1> QED BY <1>1 DEF IInv, TypeOK, HolderInv

\* An acquire and a post keep the value in its range.
LEMMA AcquireKeepsType ==
    ASSUME IInv, NEW p \in Objects, pc[p] \in {"wait", "open"}, Acquire(p)
    PROVE  /\ value' \in [Ids -> 0..1] /\ value[sem[p]] = 1
           /\ value' = [value EXCEPT ![sem[p]] = 0]
<1>1. sem[p] \in Ids /\ value' = [value EXCEPT ![sem[p]] = value[sem[p]] - 1]
      BY HasTheSemaphore DEF Acquire, HasSemaphore
<1>2. value[sem[p]] = 1
      BY <1>1, HasTheSemaphore DEF Acquire, HasSemaphore
<1> QED BY <1>1, <1>2 DEF IInv, TypeOK

LEMMA PostKeepsType ==
    ASSUME IInv, NEW p \in Objects, pc[p] \in Holding, Post(sem[p])
    PROVE  /\ value' \in [Ids -> 0..1] /\ value[sem[p]] = 0
           /\ value' = [value EXCEPT ![sem[p]] = 1]
<1>1. sem[p] \in Ids /\ value' = [value EXCEPT ![sem[p]] = value[sem[p]] + 1]
      BY HasTheSemaphore DEF Post, HasSemaphore
<1>2. value[sem[p]] = 0
      BY <1>1, HasTheSemaphore DEF HasSemaphore
<1>3. value' = [value EXCEPT ![sem[p]] = 1]
      BY <1>1, <1>2
<1> QED BY <1>1, <1>2, <1>3 DEF IInv, TypeOK

\* A step of one object keeps what is said of all semaphores: when it acquires
\* one, when it posts one, and when it does neither but may abandon one.
LEMMA AcquireKeepsHolder ==
    ASSUME IInv, NEW p \in Objects, pc[p] \in {"wait", "open"}, Acquire(p),
           \A q \in Objects \ {p} : pc'[q] = pc[q] /\ sem'[q] = sem[q],
           pc'[p] \in Holding, sem' = sem, semName' = semName,
           abandoned' = abandoned
    PROVE  HolderInv'
<1>1. /\ value[sem[p]] = 1 /\ value' = [value EXCEPT ![sem[p]] = 0]
      /\ sem[p] \in Ids
      BY AcquireKeepsType, HasTheSemaphore DEF HasSemaphore
<1>2. \A q \in Objects : pc[q] \in Holding => sem[q] # sem[p]
      BY <1>1 DEF IInv, HolderInv
<1>3. ASSUME NEW s \in Ids \ abandoned', Referred(s)'
      PROVE  \/ value'[s] = 1
             \/ \E q \in Objects : pc'[q] \in Holding /\ sem'[q] = s
  <2>1. Referred(s)
        BY <1>3 DEF Referred, HasSemaphore
  <2> QED BY <1>1, <1>2, <2>1 DEF IInv, TypeOK, HolderInv, Holding
<1>4. \A q \in Objects : pc'[q] \in Holding =>
         q = p \/ (pc[q] \in Holding /\ sem[q] \in Ids)
      BY HasTheSemaphore DEF HasSemaphore
<1> QED BY <1>1, <1>2, <1>3, <1>4 DEF IInv, TypeOK, HolderInv

LEMMA PostKeepsHolder ==
    ASSUME IInv, NEW p \in Objects, pc[p] \in Holding, Post(sem[p]),
           \A q \in Objects \ {p} : pc'[q] = pc[q] /\ sem'[q] = sem[q],
           pc'[p] \notin Holding, pc'[p] \in HasSemaphore => sem'[p] = sem[p],
           semName' = semName, abandoned' = abandoned
    PROVE  HolderInv'
<1>1. /\ value' = [value EXCEPT ![sem[p]] = 1] /\ sem[p] \in Ids
      BY PostKeepsType, HasTheSemaphore DEF HasSemaphore
<1>2. \A q \in Objects : pc'[q] \in Holding =>
         /\ q # p /\ pc[q] \in Holding /\ sem'[q] = sem[q]
         /\ sem[q] \in Ids /\ sem[q] # sem[p]
      BY HasTheSemaphore DEF IInv, HolderInv, HasSemaphore
<1>3. ASSUME NEW s \in Ids \ abandoned', Referred(s)'
      PROVE  \/ value'[s] = 1
             \/ \E q \in Objects : pc'[q] \in Holding /\ sem'[q] = s
  <2>1. Referred(s)
        BY <1>3 DEF Referred, HasSemaphore
  <2> QED BY <1>1, <2>1 DEF IInv, TypeOK, HolderInv
<1> QED BY <1>1, <1>2, <1>3 DEF IInv, TypeOK, HolderInv

LEMMA OtherStepKeepsHolder ==
    ASSUME IInv, TypeOK', NEW p \in Objects,
           \A q \in Objects \ {p} : pc'[q] = pc[q] /\ sem'[q] = sem[q],
           pc'[p] \in Holding => pc[p] \in Holding,
           pc[p] \in Holding => pc'[p] \in Holding \/ sem[p] \in abandoned',
           pc'[p] \in HasSemaphore =>
             \/ sem'[p] = semName /\ pc'[p] \notin Holding
             \/ sem'[p] = sem[p] /\ pc[p] \in HasSemaphore,
           value' = value, semName' \in {0, semName},
           abandoned \subseteq abandoned'
    PROVE  HolderInv'
<1>1. \A q \in Objects : pc'[q] \in Holding =>
         pc[q] \in Holding /\ sem'[q] = sem[q]
      BY DEF HasSemaphore
<1>2. ASSUME NEW s \in Ids \ abandoned', Referred(s)'
      PROVE  \/ value'[s] = 1
             \/ \E q \in Objects : pc'[q] \in Holding /\ sem'[q] = s
  <2>1. Referred(s)
        BY <1>2 DEF Referred, Ids
  <2>2. value[s] = 1 \/ \E q \in Objects : pc[q] \in Holding /\ sem[q] = s
        BY <1>2, <2>1 DEF IInv, HolderInv
  <2> QED BY <1>2, <2>2 DEF HasSemaphore
<1> QED BY <1>1, <1>2 DEF IInv, HolderInv

\* A semaphore that is made is new and finds no object that has one.
LEMMA CreateSemaphoreKeeps ==
    ASSUME IInv, NEW p \in Objects, CreateSemaphore(p) PROVE IInv'
<1> USE DEF CreateSemaphore, Goes, names, memory, object, bounds, history
<1>1. /\ opens' = opens + 1 /\ opens' \in Ids /\ opens' \in 1..opens'
      /\ opens \in 0..MaxOpen /\ opens' \in 0..MaxOpen
      /\ semName \in 0..opens /\ opens' \notin abandoned
      BY BoundsAssumption DEF IInv, TypeOK, ObjectInv, Ids
<1>2. TypeOK'
  <2>1. isCreation' \in [Objects -> BOOLEAN] /\ isLast' \in [Objects -> BOOLEAN]
        BY DEF IInv, TypeOK
  <2>2. value' \in [Ids -> 0..1]
        BY <1>1 DEF IInv, TypeOK
  <2>3. /\ pc' \in [Objects -> {"closed", "exists", "wait", "attach", "count",
                               "post", "open", "locked", "detach", "closePost",
                               "deleteMem", "deleteSem"}]
        /\ semName' \in Ids \cup {0} /\ sem' \in [Objects -> Ids \cup {0}]
        /\ number' \in [Objects -> Ids \cup {0}]
        BY <1>1 DEF IInv, TypeOK
  <2> QED BY <1>1, <2>1, <2>2, <2>3 DEF IInv, TypeOK
<1>3. ObjectInv'
      BY <1>1 DEF IInv, TypeOK, ObjectInv, Holding, HasSemaphore
<1>4. HolderInv'
  <2>1. CASE semName # 0
        BY <1>1, <2>1 DEF IInv, TypeOK, HolderInv, Referred, Holding,
           HasSemaphore
  <2>2. CASE semName = 0
    <3>1. /\ \A q \in Objects : pc'[q] \in Holding <=> pc[q] \in Holding
          /\ \A q \in Objects : pc[q] \in HasSemaphore =>
               pc'[q] = pc[q] /\ sem'[q] = sem[q] /\ sem[q] # opens'
          /\ \A q \in Objects \ {p} : pc'[q] = pc[q] /\ sem'[q] = sem[q]
          /\ pc'[p] = "wait" /\ sem'[p] = opens' /\ semName' = opens'
          BY <1>1, <2>2 DEF IInv, TypeOK, ObjectInv, Holding, HasSemaphore
    <3>2. /\ \A s \in Ids \ {opens'} : value'[s] = value[s]
          /\ value'[opens'] = 1
          BY <1>1, <2>2 DEF IInv, TypeOK
    <3>3. \A s \in Ids \ {opens'} : Referred(s)' => Referred(s)
          BY <3>1 DEF Referred, HasSemaphore, Holding
    <3>4. \A q \in Objects : pc'[q] \in Holding =>
             /\ sem'[q] = sem[q] /\ sem[q] \in Ids \ {opens'}
             /\ pc[q] \in Holding
          BY <3>1, HasTheSemaphore DEF HasSemaphore
    <3>5. ASSUME NEW s \in Ids \ abandoned', Referred(s)'
          PROVE  \/ value'[s] = 1
                 \/ \E q \in Objects : pc'[q] \in Holding /\ sem'[q] = s
      <4>1. CASE s = opens'
            BY <3>2, <4>1
      <4>2. CASE s # opens'
        <5>1. \/ value[s] = 1
              \/ \E q \in Objects : pc[q] \in Holding /\ sem[q] = s
              BY <3>3, <3>5, <4>2 DEF IInv, HolderInv
        <5> QED BY <3>1, <3>2, <4>2, <5>1 DEF HasSemaphore
      <4> QED BY <4>1, <4>2
    <3> QED BY <3>2, <3>4, <3>5 DEF IInv, HolderInv
  <2> QED BY <2>1, <2>2
<1>5. ASSUME raced' = FALSE PROVE Peace'
  <2>1. /\ raced = FALSE /\ Peace
        /\ semName = 0 => /\ memName = 0
                         /\ \A q \in Objects : pc[q] \in {"closed", "exists"}
        BY <1>5 DEF IInv, Peace, NamesInv
  <2>2. CASE semName # 0
    <3>1. ~Overlap' /\ NamesInv' /\ OpenInv' /\ CloseInv'
      <4>1. /\ \A q \in Objects \ {p} : pc'[q] = pc[q]
            /\ pc[p] = "closed" /\ pc'[p] = "exists"
            /\ isLast' = isLast /\ isCreation' = isCreation
            /\ sem' = sem /\ mem' = mem /\ semName' = semName
            /\ memName' = memName /\ lastWrite' = lastWrite
            BY <2>2 DEF IInv, TypeOK
      <4>2. ~Overlap' /\ NamesInv'
            BY <2>1, <4>1 DEF Peace, Overlap, OvertakesCreator,
               OpensBesideRemover, Remover, NamesInv, Holding, HasSemaphore
      <4>3. OpenInv' /\ CloseInv'
            BY <2>1, <4>1 DEF Peace, OpenInv, CloseInv, Creator, Remover,
               Attached
      <4> QED BY <4>2, <4>3
    <3>2. Attached' = Attached
          BY DEF IInv, TypeOK, Attached
    <3>3. \A q \in Objects : /\ Creator(q) => Creator(q)'
                             /\ Remover(q) => Remover(q)'
                             /\ pc[q] = "deleteSem" => pc'[q] = "deleteSem"
      <4>1. /\ \A q \in Objects \ {p} : pc'[q] = pc[q]
            /\ isLast' = isLast /\ isCreation' = isCreation /\ pc[p] = "closed"
            BY <2>2 DEF IInv, TypeOK
      <4> QED BY <4>1 DEF Creator, Remover
    <3>4. CountInv'
          BY <2>1, <2>2, <3>2 DEF Peace, CountInv
    <3>5. CleanInv'
      <4> HIDE DEF Creator, Remover
      <4> QED BY <2>1, <2>2, <3>2, <3>3 DEF Peace, CleanInv, Clean
    <3> QED BY <3>1, <3>4, <3>5 DEF Peace
  <2>3. CASE semName = 0
    <3>1. /\ \A q \in Objects \ {p} : pc'[q] \in {"closed", "exists"}
          /\ pc'[p] = "wait" /\ isCreation'[p] = TRUE /\ sem'[p] = semName'
          /\ semName' # 0 /\ memName' = 0
          BY <1>1, <2>1, <2>3 DEF IInv, TypeOK
    <3>2. Attached' = {}
          BY <3>1 DEF Attached
    <3>3. ~Overlap' /\ NamesInv' /\ OpenInv' /\ CloseInv'
          BY <3>1, <3>2 DEF Overlap, OvertakesCreator, OpensBesideRemover,
             Remover, Creator, NamesInv, OpenInv, CloseInv, Holding,
             HasSemaphore
    <3>4. CountInv' /\ CleanInv'
          BY <3>1 DEF CountInv, CleanInv, Creator
    <3> QED BY <3>3, <3>4 DEF Peace
  <2> QED BY <2>2, <2>3
<1> QED BY <1>2, <1>3, <1>4, <1>5 DEF IInv

\* Nobody opens the name beside the last one, but for the overlap.
LEMMA OpenSemaphoreKeeps ==
    ASSUME IInv, NEW p \in Objects, OpenSemaphore(p) PROVE IInv'
<1> USE DEF OpenSemaphore, NoteOverlap, Goes, names, memory, object, bounds,
            history
<1>2. TypeOK'
      BY BoundsAssumption DEF IInv, TypeOK, Ids
<1>3. ObjectInv'
      BY BoundsAssumption DEF IInv, TypeOK, Ids, ObjectInv, Holding,
         HasSemaphore
<1>4. HolderInv'
  <2>1. /\ \A q \in Objects \ {p} : pc'[q] = pc[q] /\ sem'[q] = sem[q]
        /\ pc'[p] \in Holding <=> pc[p] \in Holding
        /\ pc'[p] \in HasSemaphore =>
             \/ sem'[p] = semName /\ pc'[p] \notin Holding
             \/ sem'[p] = sem[p] /\ pc[p] \in HasSemaphore
        BY DEF IInv, TypeOK, Holding, HasSemaphore
  <2> QED BY <1>2, <2>1, OtherStepKeepsHolder
<1>5. ASSUME raced' = FALSE PROVE Peace'
  <2>1. raced = FALSE /\ Peace /\ ~Overlap'
        BY <1>5 DEF IInv, TypeOK, Ids, ObjectInv, HolderInv, Referred, Peace,
            Overlap, OvertakesCreator, OpensBesideRemover, Remover, Creator,
            NamesInv, OpenInv, CloseInv, Attached, Holding, HasSemaphore
  <2>2. Attached' = Attached
        BY DEF IInv, TypeOK, Attached
  <2>3. NamesInv'
        BY <2>1, BoundsAssumption DEF IInv, TypeOK, Ids, ObjectInv, HolderInv,
           Referred, Peace, Overlap, OvertakesCreator, OpensBesideRemover,
           Remover, Creator, NamesInv, OpenInv, CloseInv, Attached, Holding,
           HasSemaphore
  <2>4. OpenInv' /\ CloseInv'
        BY <2>1, BoundsAssumption DEF IInv, TypeOK, Ids, ObjectInv, HolderInv,
           Referred, Peace, Overlap, OvertakesCreator, OpensBesideRemover,
           Remover, Creator, NamesInv, OpenInv, CloseInv, Attached, Holding,
           HasSemaphore
  <2>5. CountInv'
        BY <2>1, <2>2, AttachedIsFinite DEF IInv, TypeOK, Ids, ObjectInv,
           HolderInv, Referred, Peace, Overlap, OvertakesCreator,
           OpensBesideRemover, Remover, Creator, NamesInv, OpenInv, CloseInv,
           Attached, Holding, HasSemaphore, CountInv
  <2>6. CleanInv'
    <3>1. \A q \in Objects \ {p} : /\ pc'[q] = pc[q] /\ isLast'[q] = isLast[q]
                                   /\ isCreation'[q] = isCreation[q]
          BY DEF IInv, TypeOK
    <3>2. pc[p] = "exists"
          BY DEF IInv, TypeOK
    <3>3. \A q \in Objects : /\ Creator(q) => Creator(q)'
                             /\ Remover(q) => Remover(q)'
                             /\ pc[q] = "deleteSem" => pc'[q] = "deleteSem"
          BY <3>1, <3>2 DEF Creator, Remover
    <3> QED BY <2>1, <2>2, <3>3 DEF Peace, CleanInv, Clean, Creator,
               Remover, names, memory, bounds, history
  <2> QED BY <2>1, <2>3, <2>4, <2>5, <2>6 DEF Peace
<1> QED BY <1>2, <1>3, <1>4, <1>5 DEF IInv

\* Who is the first to acquire the semaphore is the only one to have it.
LEMMA WaitToOpenKeeps ==
    ASSUME IInv, NEW p \in Objects, WaitToOpen(p) PROVE IInv'
<1> USE DEF WaitToOpen, NoteOverlap, Goes, Acquire, names, memory, object,
            bounds, history
<1>1. /\ value' \in [Ids -> 0..1] /\ value[sem[p]] = 1
      /\ value' = [value EXCEPT ![sem[p]] = 0] /\ sem[p] \in 1..opens
      BY AcquireKeepsType, HasTheSemaphore DEF HasSemaphore
<1>2. TypeOK'
      BY <1>1, BoundsAssumption DEF IInv, TypeOK, Ids
<1>3. ObjectInv'
      BY <1>1, BoundsAssumption DEF IInv, TypeOK, Ids, ObjectInv, Holding,
         HasSemaphore
<1>4. HolderInv'
  <2>1. /\ \A q \in Objects \ {p} : pc'[q] = pc[q] /\ sem'[q] = sem[q]
        /\ pc[p] \in {"wait", "open"} /\ pc'[p] \in Holding
        BY DEF IInv, TypeOK, Holding
  <2> QED BY <2>1, AcquireKeepsHolder DEF Acquire
<1>5. ASSUME raced' = FALSE PROVE Peace'
  <2>1. raced = FALSE /\ Peace /\ ~Overlap'
        BY <1>1, <1>5 DEF IInv, TypeOK, Ids, ObjectInv, HolderInv, Referred,
           Peace, Overlap, OvertakesCreator, OpensBesideRemover, Remover,
           Creator, NamesInv, OpenInv, CloseInv, Attached, Holding, HasSemaphore
  <2>2. Attached' = Attached
        BY DEF IInv, TypeOK, Attached
  <2>3. NamesInv'
        BY <1>1, <2>1, BoundsAssumption DEF IInv, TypeOK, Ids, ObjectInv,
           HolderInv, Referred, Peace, Overlap, OvertakesCreator,
           OpensBesideRemover, Remover, Creator, NamesInv, OpenInv, CloseInv,
           Attached, Holding, HasSemaphore
  <2>4. OpenInv' /\ CloseInv'
        BY <1>1, <2>1, BoundsAssumption DEF IInv, TypeOK, Ids, ObjectInv,
           HolderInv, Referred, Peace, Overlap, OvertakesCreator,
           OpensBesideRemover, Remover, Creator, NamesInv, OpenInv, CloseInv,
           Attached, Holding, HasSemaphore
  <2>5. CountInv'
        BY <2>1, <2>2, AttachedIsFinite DEF IInv, TypeOK, Ids, ObjectInv,
           HolderInv, Referred, Peace, Overlap, OvertakesCreator,
           OpensBesideRemover, Remover, Creator, NamesInv, OpenInv, CloseInv,
           Attached, Holding, HasSemaphore, CountInv
  <2>6. CleanInv'
    <3>1. \A q \in Objects \ {p} : /\ pc'[q] = pc[q] /\ isLast'[q] = isLast[q]
                                   /\ isCreation'[q] = isCreation[q]
          BY DEF IInv, TypeOK
    <3>2. /\ pc[p] = "wait" /\ pc'[p] = "attach"
          /\ isCreation'[p] = isCreation[p]
          BY DEF IInv, TypeOK
    <3>3. \A q \in Objects : /\ Creator(q) => Creator(q)'
                             /\ Remover(q) => Remover(q)'
                             /\ pc[q] = "deleteSem" => pc'[q] = "deleteSem"
          BY <3>1, <3>2 DEF Creator, Remover
    <3> QED BY <2>1, <2>2, <3>3 DEF Peace, CleanInv, Clean, Creator,
               Remover, names, memory, bounds, history
  <2> QED BY <2>1, <2>3, <2>4, <2>5, <2>6 DEF Peace
<1> QED BY <1>2, <1>3, <1>4, <1>5 DEF IInv

\* The memory is made by the one that made the semaphore, unless that one was
\* killed or threw.
LEMMA OpenMemoryKeeps ==
    ASSUME IInv, NEW p \in Objects, OpenMemory(p) PROVE IInv'
<1> USE DEF OpenMemory, Goes, names, memory, object, bounds, history
<1>1. /\ memName' \in Ids /\ memName' # 0
      /\ memName # 0 => memName' = memName
      BY DEF IInv, TypeOK, ObjectInv, Ids
<1>2. TypeOK'
  <2>1. accessCount' \in [Ids -> Int]
        BY <1>1 DEF IInv, TypeOK
  <2>2. data' \in [Ids -> 0..MaxWrite] /\ lastWrite' \in 0..MaxWrite
        BY <1>1, BoundsAssumption DEF IInv, TypeOK
  <2>3. /\ mem' \in [Objects -> Ids \cup {0}]
        /\ number' \in [Objects -> Ids \cup {0}]
        BY <1>1 DEF IInv, TypeOK
  <2> QED BY <1>1, <2>1, <2>2, <2>3 DEF IInv, TypeOK
<1>3. ObjectInv'
      BY BoundsAssumption DEF IInv, TypeOK, Ids, ObjectInv, Holding,
         HasSemaphore
<1>4. HolderInv'
  <2>1. /\ \A q \in Objects \ {p} : pc'[q] = pc[q] /\ sem'[q] = sem[q]
        /\ pc'[p] \in Holding <=> pc[p] \in Holding
        /\ pc'[p] \in HasSemaphore =>
             \/ sem'[p] = semName /\ pc'[p] \notin Holding
             \/ sem'[p] = sem[p] /\ pc[p] \in HasSemaphore
        BY DEF IInv, TypeOK, Holding, HasSemaphore
  <2> QED BY <1>2, <2>1, OtherStepKeepsHolder
<1>5. ASSUME raced' = FALSE PROVE Peace'
  <2>1. raced = FALSE /\ Peace /\ ~Overlap'
        BY <1>5 DEF IInv, TypeOK, Ids, ObjectInv, HolderInv, Referred, Peace,
            Overlap, OvertakesCreator, OpensBesideRemover, Remover, Creator,
            NamesInv, OpenInv, CloseInv, Attached, Holding, HasSemaphore
  <2>2. Attached' = Attached
        BY DEF IInv, TypeOK, Attached
  <2>3. \A q \in Objects : Creator(q) /\ memName = 0 => q = p
        BY <2>1 DEF IInv, TypeOK, Ids, ObjectInv, HolderInv, Referred, Peace,
            Overlap, OvertakesCreator, OpensBesideRemover, Remover, Creator,
            NamesInv, OpenInv, CloseInv, Attached, Holding, HasSemaphore
  <2>4. NamesInv'
    <3>1. memName = 0 => \A q \in Objects \ {p} :
             pc[q] \in {"closed", "exists", "wait"}
          BY <2>1 DEF IInv, TypeOK, Ids, ObjectInv, HolderInv, Referred, Peace,
            Overlap, OvertakesCreator, OpensBesideRemover, Remover, Creator,
            NamesInv, OpenInv, CloseInv, Attached, Holding, HasSemaphore
    <3>2. \A q \in Objects \ {p} : /\ pc'[q] = pc[q] /\ sem'[q] = sem[q]
                                   /\ mem'[q] = mem[q]
          BY DEF IInv, TypeOK
    <3>3. pc'[p] = "count" /\ sem'[p] = sem[p] /\ mem'[p] = memName'
          BY <1>1 DEF IInv, TypeOK
    <3> QED BY <1>1, <2>1, <3>1, <3>2, <3>3 DEF Peace, NamesInv, Holding,
               HasSemaphore
  <2>5. OpenInv' /\ CloseInv'
        BY <1>1, <2>1, <2>2, <2>3 DEF IInv, TypeOK, Ids, ObjectInv, HolderInv,
           Referred, Peace, Overlap, OvertakesCreator, OpensBesideRemover,
           Remover, Creator, NamesInv, OpenInv, CloseInv, Attached, Holding,
           HasSemaphore
  <2>6. CountInv'
    <3>1. CASE memName = 0
      <4>1. /\ accessCount'[memName'] = 0 /\ data'[memName'] = 0
            /\ lastWrite' = 0
            BY <1>1, <3>1 DEF IInv, TypeOK
      <4>2. Attached = {}
            BY <2>1, <3>1 DEF Peace, NamesInv, Attached
      <4> QED BY <2>2, <4>1, <4>2, FS_EmptySet DEF CountInv
    <3>2. CASE memName # 0
          BY <1>1, <2>1, <2>2, <3>2 DEF Peace, CountInv
    <3> QED BY <3>1, <3>2
  <2>7. CleanInv'
    <3>1. \A q \in Objects : /\ Creator(q)' <=> Creator(q)
                             /\ Remover(q)' <=> Remover(q)
          BY DEF IInv, TypeOK, Creator, Remover
    <3>2. CASE memName # 0
          BY <1>1, <2>1, <2>2, <3>1, <3>2 DEF Peace, CleanInv, Clean, Creator,
             Remover
    <3>3. CASE memName = 0 /\ Clean'
      <4>1. semName # 0 /\ Clean
            BY <2>1, <3>3 DEF Peace, NamesInv, Clean
      <4>2. PICK c \in Objects : Creator(c) \/ pc[c] = "deleteSem"
            BY <2>1, <3>3, <4>1 DEF Peace, CleanInv
      <4>3. Creator(c)
            BY <2>1, <4>2 DEF Peace, CloseInv, Remover
      <4> QED BY <1>1, <3>1, <4>3 DEF CleanInv, Creator
    <3>4. CASE ~Clean'
          BY <3>4 DEF CleanInv
    <3> QED BY <3>2, <3>3, <3>4
  <2> QED BY <2>1, <2>4, <2>5, <2>6, <2>7 DEF Peace
<1> QED BY <1>2, <1>3, <1>4, <1>5 DEF IInv

\* Whoever has opened the memory counts itself.
LEMMA CountInKeeps ==
    ASSUME IInv, NEW p \in Objects, CountIn(p) PROVE IInv'
<1> USE DEF CountIn, Goes, Created, names, memory, object, bounds, history
<1>1. mem[p] \in Ids
      BY DEF IInv, TypeOK, ObjectInv
<1>2. TypeOK'
  <2>1. accessCount' \in [Ids -> Int] /\ data' \in [Ids -> 0..MaxWrite]
        BY <1>1, BoundsAssumption DEF IInv, TypeOK
  <2>2. isCreation' \in [Objects -> BOOLEAN] /\ isLast' \in [Objects -> BOOLEAN]
        BY DEF IInv, TypeOK
  <2> QED BY <2>1, <2>2 DEF IInv, TypeOK
<1>3. ObjectInv'
      BY BoundsAssumption DEF IInv, TypeOK, Ids, ObjectInv, Holding,
         HasSemaphore
<1>4. HolderInv'
  <2>1. /\ \A q \in Objects \ {p} : pc'[q] = pc[q] /\ sem'[q] = sem[q]
        /\ pc'[p] \in Holding <=> pc[p] \in Holding
        /\ pc'[p] \in HasSemaphore =>
             \/ sem'[p] = semName /\ pc'[p] \notin Holding
             \/ sem'[p] = sem[p] /\ pc[p] \in HasSemaphore
        BY DEF IInv, TypeOK, Holding, HasSemaphore
  <2> QED BY <1>2, <2>1, OtherStepKeepsHolder
<1>5. ASSUME raced' = FALSE PROVE Peace'
  <2>1. raced = FALSE /\ Peace /\ ~Overlap'
        BY <1>5 DEF IInv, TypeOK, Ids, ObjectInv, HolderInv, Referred, Peace,
            Overlap, OvertakesCreator, OpensBesideRemover, Remover, Creator,
            NamesInv, OpenInv, CloseInv, Attached, Holding, HasSemaphore
  <2>2. Attached' = Attached \cup {p} /\ p \notin Attached
        BY DEF IInv, TypeOK, Attached
  <2>3. NamesInv'
        BY <2>1, BoundsAssumption DEF IInv, TypeOK, Ids, ObjectInv, HolderInv,
           Referred, Peace, Overlap, OvertakesCreator, OpensBesideRemover,
           Remover, Creator, NamesInv, OpenInv, CloseInv, Attached, Holding,
           HasSemaphore
  <2>4. OpenInv' /\ CloseInv'
        BY <2>1, BoundsAssumption DEF IInv, TypeOK, Ids, ObjectInv, HolderInv,
           Referred, Peace, Overlap, OvertakesCreator, OpensBesideRemover,
           Remover, Creator, NamesInv, OpenInv, CloseInv, Attached, Holding,
           HasSemaphore
  <2>5. /\ mem[p] = memName /\ memName \in Ids /\ memName # 0
        /\ accessCount[memName] \in Int
        BY <1>1, <2>1 DEF IInv, TypeOK, Peace, NamesInv
  <2>6. Cardinality(Attached') = Cardinality(Attached) + 1
        BY <2>2, AttachedIsFinite
  <2>7. CASE isCreation[p] = TRUE
    <3>1. Attached = {} /\ Cardinality(Attached) = 0
          BY <2>1, <2>7, FS_EmptySet DEF Peace, OpenInv, Creator
    <3>2. /\ accessCount'[memName] = 0
          /\ data'[memName] = 0
          BY <2>5, <2>7 DEF IInv, TypeOK
    <3>3. lastWrite = 0
          BY <2>1, <2>7 DEF Peace, OpenInv, Creator
    <3>4. CountInv' /\ CleanInv'
          BY <2>2, <2>5, <2>6, <3>1, <3>2, <3>3 DEF CountInv, CleanInv
    <3> QED BY <2>1, <2>3, <2>4, <3>4 DEF Peace
  <2>8. CASE isCreation[p] = FALSE
    <3>1. /\ accessCount'[memName] = accessCount[memName] + 1
          /\ data'[memName] = data[memName]
          BY <2>5, <2>8 DEF IInv, TypeOK
    <3>2. CountInv'
          BY <2>1, <2>5, <2>6, <3>1, AttachedIsFinite DEF Peace, CountInv
    <3>3. ASSUME NEW q \in Objects PROVE ~Remover(q) /\ ~Creator(q)
      <4>1. pc[p] = "count" /\ memName # 0
            BY <2>5
      <4>2. ~Remover(q)
            BY <2>1, <4>1 DEF Peace, CloseInv, Remover
      <4>3. ~(pc[q] \in {"wait", "attach"} /\ isCreation[q] = TRUE)
            BY <2>1, <4>1 DEF Peace, OpenInv, Creator
      <4>4. pc[q] = "count" => q = p
            BY <2>1, <4>1 DEF IInv, HolderInv, Peace, NamesInv, Holding,
               HasSemaphore
      <4> QED BY <2>8, <4>2, <4>3, <4>4 DEF Creator
    <3>4. CleanInv'
          BY <2>1, <2>2, <2>5, <2>6, <3>1, <3>3, AttachedIsFinite
             DEF Peace, CleanInv, Clean
    <3> QED BY <2>1, <2>3, <2>4, <3>2, <3>4 DEF Peace
  <2> QED BY <2>7, <2>8 DEF IInv, TypeOK
<1> QED BY <1>2, <1>3, <1>4, <1>5 DEF IInv

\* A constructor that throws leaves its semaphore taken.
LEMMA AttachFailsKeeps ==
    ASSUME IInv, NEW p \in Objects, AttachFails(p) PROVE IInv'
<1> USE DEF AttachFails, Goes, Abandon, Forget, names, memory, object, bounds,
            history
<1>1. pc[p] \in Holding => sem[p] \in 1..opens /\ sem[p] \in Ids
      BY HasTheSemaphore DEF Holding, HasSemaphore
<1>2. TypeOK'
  <2>1. isCreation' \in [Objects -> BOOLEAN] /\ isLast' \in [Objects -> BOOLEAN]
        BY DEF IInv, TypeOK
  <2>2. /\ sem' \in [Objects -> Ids \cup {0}]
        /\ mem' \in [Objects -> Ids \cup {0}]
        /\ number' \in [Objects -> Ids \cup {0}]
        BY DEF IInv, TypeOK
  <2>3. abandoned' \subseteq Ids
        BY <1>1 DEF IInv, TypeOK, Holding
  <2>4. pc' \in [Objects -> {"closed", "exists", "wait", "attach", "count",
                            "post", "open", "locked", "detach", "closePost",
                            "deleteMem", "deleteSem"}]
        BY DEF IInv, TypeOK
  <2> QED BY <2>1, <2>2, <2>3, <2>4 DEF IInv, TypeOK
<1>3. ObjectInv'
      BY <1>1, BoundsAssumption DEF IInv, TypeOK, Ids, ObjectInv, Holding,
         HasSemaphore
<1>4. HolderInv'
  <2>1. /\ \A q \in Objects \ {p} : pc'[q] = pc[q] /\ sem'[q] = sem[q]
        /\ pc'[p] \notin Holding
        /\ pc'[p] \in HasSemaphore => sem'[p] = sem[p] /\ pc[p] \in HasSemaphore
        /\ pc[p] \in Holding => sem[p] \in abandoned'
        /\ abandoned \subseteq abandoned'
        BY DEF IInv, TypeOK, Holding, HasSemaphore
  <2> QED BY <1>2, <2>1, OtherStepKeepsHolder
<1>5. ASSUME raced' = FALSE PROVE Peace'
  <2>1. raced = FALSE /\ Peace /\ ~Overlap'
        BY <1>1, <1>5 DEF IInv, TypeOK, Ids, ObjectInv, HolderInv, Referred,
           Peace, Overlap, OvertakesCreator, OpensBesideRemover, Remover,
           Creator, NamesInv, OpenInv, CloseInv, Attached, Holding, HasSemaphore
  <2>2. Attached' = Attached
        BY DEF IInv, TypeOK, Attached
  <2>3. NamesInv'
        BY <1>1, <2>1, BoundsAssumption DEF IInv, TypeOK, Ids, ObjectInv,
           HolderInv, Referred, Peace, Overlap, OvertakesCreator,
           OpensBesideRemover, Remover, Creator, NamesInv, OpenInv, CloseInv,
           Attached, Holding, HasSemaphore
  <2>4. OpenInv' /\ CloseInv'
        BY <1>1, <2>1, BoundsAssumption DEF IInv, TypeOK, Ids, ObjectInv,
           HolderInv, Referred, Peace, Overlap, OvertakesCreator,
           OpensBesideRemover, Remover, Creator, NamesInv, OpenInv, CloseInv,
           Attached, Holding, HasSemaphore
  <2>5. CountInv'
        BY <2>1, <2>2, AttachedIsFinite DEF IInv, TypeOK, Ids, ObjectInv,
           HolderInv, Referred, Peace, Overlap, OvertakesCreator,
           OpensBesideRemover, Remover, Creator, NamesInv, OpenInv, CloseInv,
           Attached, Holding, HasSemaphore, CountInv
  <2>6. CleanInv'
        BY <2>1, <2>2, AttachedIsFinite DEF IInv, TypeOK, Ids, ObjectInv,
           HolderInv, Referred, Peace, Overlap, OvertakesCreator,
           OpensBesideRemover, Remover, Creator, NamesInv, OpenInv, CloseInv,
           Attached, Holding, HasSemaphore, CountInv, CleanInv, Clean
  <2> QED BY <2>1, <2>3, <2>4, <2>5, <2>6 DEF Peace
<1> QED BY <1>2, <1>3, <1>4, <1>5 DEF IInv

\* The constructor ends with a post.
LEMMA PostOpenKeeps ==
    ASSUME IInv, NEW p \in Objects, PostOpen(p) PROVE IInv'
<1> USE DEF PostOpen, Goes, Post, names, memory, object, bounds, history
<1>1. /\ value' \in [Ids -> 0..1] /\ value[sem[p]] = 0
      /\ value' = [value EXCEPT ![sem[p]] = 1] /\ sem[p] \in 1..opens
      BY PostKeepsType, HasTheSemaphore DEF Holding, HasSemaphore
<1>2. TypeOK'
      BY <1>1, BoundsAssumption DEF IInv, TypeOK, Ids
<1>3. ObjectInv'
      BY <1>1, BoundsAssumption DEF IInv, TypeOK, Ids, ObjectInv, Holding,
         HasSemaphore
<1>4. HolderInv'
  <2>1. /\ \A q \in Objects \ {p} : pc'[q] = pc[q] /\ sem'[q] = sem[q]
        /\ pc[p] \in Holding /\ pc'[p] \notin Holding
        /\ pc'[p] \in HasSemaphore => sem'[p] = sem[p]
        BY DEF IInv, TypeOK, Holding, HasSemaphore
  <2> QED BY <2>1, PostKeepsHolder DEF Post
<1>5. ASSUME raced' = FALSE PROVE Peace'
  <2>1. raced = FALSE /\ Peace /\ ~Overlap'
        BY <1>1, <1>5 DEF IInv, TypeOK, Ids, ObjectInv, HolderInv, Referred,
           Peace, Overlap, OvertakesCreator, OpensBesideRemover, Remover,
           Creator, NamesInv, OpenInv, CloseInv, Attached, Holding, HasSemaphore
  <2>2. Attached' = Attached
        BY DEF IInv, TypeOK, Attached
  <2>3. NamesInv'
        BY <1>1, <2>1, BoundsAssumption DEF IInv, TypeOK, Ids, ObjectInv,
           HolderInv, Referred, Peace, Overlap, OvertakesCreator,
           OpensBesideRemover, Remover, Creator, NamesInv, OpenInv, CloseInv,
           Attached, Holding, HasSemaphore
  <2>4. OpenInv' /\ CloseInv'
        BY <1>1, <2>1, BoundsAssumption DEF IInv, TypeOK, Ids, ObjectInv,
           HolderInv, Referred, Peace, Overlap, OvertakesCreator,
           OpensBesideRemover, Remover, Creator, NamesInv, OpenInv, CloseInv,
           Attached, Holding, HasSemaphore
  <2>5. CountInv'
        BY <2>1, <2>2, AttachedIsFinite DEF IInv, TypeOK, Ids, ObjectInv,
           HolderInv, Referred, Peace, Overlap, OvertakesCreator,
           OpensBesideRemover, Remover, Creator, NamesInv, OpenInv, CloseInv,
           Attached, Holding, HasSemaphore, CountInv
  <2>6. CleanInv'
        BY <2>1, <2>2, AttachedIsFinite DEF IInv, TypeOK, Ids, ObjectInv,
           HolderInv, Referred, Peace, Overlap, OvertakesCreator,
           OpensBesideRemover, Remover, Creator, NamesInv, OpenInv, CloseInv,
           Attached, Holding, HasSemaphore, CountInv, CleanInv, Clean
  <2> QED BY <2>1, <2>3, <2>4, <2>5, <2>6 DEF Peace
<1> QED BY <1>2, <1>3, <1>4, <1>5 DEF IInv

\* A constructor that throws behind its post leaves the count too high.
LEMMA PostOpenThrowsKeeps ==
    ASSUME IInv, NEW p \in Objects, PostOpenThrows(p) PROVE IInv'
<1> USE DEF PostOpenThrows, Goes, Post, Forget, names, memory, object, bounds,
            history
<1>1. /\ value' \in [Ids -> 0..1] /\ value[sem[p]] = 0
      /\ value' = [value EXCEPT ![sem[p]] = 1] /\ sem[p] \in 1..opens
      BY PostKeepsType, HasTheSemaphore DEF Holding, HasSemaphore
<1>2. TypeOK'
      BY <1>1, BoundsAssumption DEF IInv, TypeOK, Ids
<1>3. ObjectInv'
      BY <1>1, BoundsAssumption DEF IInv, TypeOK, Ids, ObjectInv, Holding,
         HasSemaphore
<1>4. HolderInv'
  <2>1. /\ \A q \in Objects \ {p} : pc'[q] = pc[q] /\ sem'[q] = sem[q]
        /\ pc[p] \in Holding /\ pc'[p] \notin Holding
        /\ pc'[p] \in HasSemaphore => sem'[p] = sem[p]
        BY DEF IInv, TypeOK, Holding, HasSemaphore
  <2> QED BY <2>1, PostKeepsHolder DEF Post
<1>5. ASSUME raced' = FALSE PROVE Peace'
  <2>1. raced = FALSE /\ Peace /\ ~Overlap'
        BY <1>1, <1>5 DEF IInv, TypeOK, Ids, ObjectInv, HolderInv, Referred,
           Peace, Overlap, OvertakesCreator, OpensBesideRemover, Remover,
           Creator, NamesInv, OpenInv, CloseInv, Attached, Holding, HasSemaphore
  <2>2. Attached' = Attached \ {p}
        BY DEF IInv, TypeOK, Attached
  <2>3. NamesInv'
        BY <1>1, <2>1, BoundsAssumption DEF IInv, TypeOK, Ids, ObjectInv,
           HolderInv, Referred, Peace, Overlap, OvertakesCreator,
           OpensBesideRemover, Remover, Creator, NamesInv, OpenInv, CloseInv,
           Attached, Holding, HasSemaphore
  <2>4. OpenInv' /\ CloseInv'
        BY <1>1, <2>1, BoundsAssumption DEF IInv, TypeOK, Ids, ObjectInv,
           HolderInv, Referred, Peace, Overlap, OvertakesCreator,
           OpensBesideRemover, Remover, Creator, NamesInv, OpenInv, CloseInv,
           Attached, Holding, HasSemaphore
  <2>5. CountInv'
        BY <2>1, <2>2, AttachedIsFinite DEF IInv, TypeOK, Ids, ObjectInv,
           HolderInv, Referred, Peace, Overlap, OvertakesCreator,
           OpensBesideRemover, Remover, Creator, NamesInv, OpenInv, CloseInv,
           Attached, Holding, HasSemaphore, CountInv
  <2>6. CleanInv'
        BY <2>1, <2>2, AttachedIsFinite DEF IInv, TypeOK, Ids, ObjectInv,
           HolderInv, Referred, Peace, Overlap, OvertakesCreator,
           OpensBesideRemover, Remover, Creator, NamesInv, OpenInv, CloseInv,
           Attached, Holding, HasSemaphore, CountInv, CleanInv, Clean
  <2> QED BY <2>1, <2>3, <2>4, <2>5, <2>6 DEF Peace
<1> QED BY <1>2, <1>3, <1>4, <1>5 DEF IInv

\* An operation takes the semaphore.
LEMMA LockKeeps ==
    ASSUME IInv, NEW p \in Objects, Lock(p) PROVE IInv'
<1> USE DEF Lock, Goes, Acquire, names, memory, object, bounds, history
<1>1. /\ value' \in [Ids -> 0..1] /\ value[sem[p]] = 1
      /\ value' = [value EXCEPT ![sem[p]] = 0] /\ sem[p] \in 1..opens
      BY AcquireKeepsType, HasTheSemaphore DEF HasSemaphore
<1>2. TypeOK'
      BY <1>1, BoundsAssumption DEF IInv, TypeOK, Ids
<1>3. ObjectInv'
      BY <1>1, BoundsAssumption DEF IInv, TypeOK, Ids, ObjectInv, Holding,
         HasSemaphore
<1>4. HolderInv'
  <2>1. /\ \A q \in Objects \ {p} : pc'[q] = pc[q] /\ sem'[q] = sem[q]
        /\ pc[p] \in {"wait", "open"} /\ pc'[p] \in Holding
        BY DEF IInv, TypeOK, Holding
  <2> QED BY <2>1, AcquireKeepsHolder DEF Acquire
<1>5. ASSUME raced' = FALSE PROVE Peace'
  <2>1. raced = FALSE /\ Peace /\ ~Overlap'
        BY <1>1, <1>5 DEF IInv, TypeOK, Ids, ObjectInv, HolderInv, Referred,
           Peace, Overlap, OvertakesCreator, OpensBesideRemover, Remover,
           Creator, NamesInv, OpenInv, CloseInv, Attached, Holding, HasSemaphore
  <2>2. Attached' = Attached
        BY DEF IInv, TypeOK, Attached
  <2>3. NamesInv'
        BY <1>1, <2>1, BoundsAssumption DEF IInv, TypeOK, Ids, ObjectInv,
           HolderInv, Referred, Peace, Overlap, OvertakesCreator,
           OpensBesideRemover, Remover, Creator, NamesInv, OpenInv, CloseInv,
           Attached, Holding, HasSemaphore
  <2>4. OpenInv' /\ CloseInv'
        BY <1>1, <2>1, BoundsAssumption DEF IInv, TypeOK, Ids, ObjectInv,
           HolderInv, Referred, Peace, Overlap, OvertakesCreator,
           OpensBesideRemover, Remover, Creator, NamesInv, OpenInv, CloseInv,
           Attached, Holding, HasSemaphore
  <2>5. CountInv'
        BY <2>1, <2>2, AttachedIsFinite DEF IInv, TypeOK, Ids, ObjectInv,
           HolderInv, Referred, Peace, Overlap, OvertakesCreator,
           OpensBesideRemover, Remover, Creator, NamesInv, OpenInv, CloseInv,
           Attached, Holding, HasSemaphore, CountInv
  <2>6. CleanInv'
        BY <2>1, <2>2, AttachedIsFinite DEF IInv, TypeOK, Ids, ObjectInv,
           HolderInv, Referred, Peace, Overlap, OvertakesCreator,
           OpensBesideRemover, Remover, Creator, NamesInv, OpenInv, CloseInv,
           Attached, Holding, HasSemaphore, CountInv, CleanInv, Clean
  <2> QED BY <2>1, <2>3, <2>4, <2>5, <2>6 DEF Peace
<1> QED BY <1>2, <1>3, <1>4, <1>5 DEF IInv

\* A write goes to the memory of the name.
LEMMA WriteAndUnlockKeeps ==
    ASSUME IInv, NEW p \in Objects, WriteAndUnlock(p) PROVE IInv'
<1> USE DEF WriteAndUnlock, Goes, Post, names, memory, object, bounds, history
<1>1. /\ value' \in [Ids -> 0..1] /\ value[sem[p]] = 0
      /\ value' = [value EXCEPT ![sem[p]] = 1] /\ sem[p] \in 1..opens
      BY PostKeepsType, HasTheSemaphore DEF Holding, HasSemaphore
<1>2. TypeOK'
  <2>1. written' \in 0..MaxWrite /\ lastWrite' \in 0..MaxWrite
        BY BoundsAssumption DEF IInv, TypeOK
  <2>2. data' \in [Ids -> 0..MaxWrite]
        BY <2>1 DEF IInv, TypeOK
  <2>3. isCreation' \in [Objects -> BOOLEAN] /\ isLast' \in [Objects -> BOOLEAN]
        BY DEF IInv, TypeOK
  <2> QED BY <1>1, <2>1, <2>2, <2>3 DEF IInv, TypeOK
<1>3. ObjectInv'
      BY <1>1, BoundsAssumption DEF IInv, TypeOK, Ids, ObjectInv, Holding,
         HasSemaphore
<1>4. HolderInv'
  <2>1. /\ \A q \in Objects \ {p} : pc'[q] = pc[q] /\ sem'[q] = sem[q]
        /\ pc[p] \in Holding /\ pc'[p] \notin Holding
        /\ pc'[p] \in HasSemaphore => sem'[p] = sem[p]
        BY DEF IInv, TypeOK, Holding, HasSemaphore
  <2> QED BY <2>1, PostKeepsHolder DEF Post
<1>5. ASSUME raced' = FALSE PROVE Peace'
  <2>1. raced = FALSE /\ Peace /\ ~Overlap'
        BY <1>1, <1>5 DEF IInv, TypeOK, Ids, ObjectInv, HolderInv, Referred,
           Peace, Overlap, OvertakesCreator, OpensBesideRemover, Remover,
           Creator, NamesInv, OpenInv, CloseInv, Attached, Holding, HasSemaphore
  <2>2. Attached' = Attached
        BY DEF IInv, TypeOK, Attached
  <2>3. NamesInv'
        BY <1>1, <2>1, BoundsAssumption DEF IInv, TypeOK, Ids, ObjectInv,
           HolderInv, Referred, Peace, Overlap, OvertakesCreator,
           OpensBesideRemover, Remover, Creator, NamesInv, OpenInv, CloseInv,
           Attached, Holding, HasSemaphore
  <2>4. OpenInv' /\ CloseInv'
        BY <1>1, <2>1, BoundsAssumption DEF IInv, TypeOK, Ids, ObjectInv,
           HolderInv, Referred, Peace, Overlap, OvertakesCreator,
           OpensBesideRemover, Remover, Creator, NamesInv, OpenInv, CloseInv,
           Attached, Holding, HasSemaphore
  <2>5. CountInv'
        BY <2>1, <2>2, AttachedIsFinite DEF IInv, TypeOK, Ids, ObjectInv,
           HolderInv, Referred, Peace, Overlap, OvertakesCreator,
           OpensBesideRemover, Remover, Creator, NamesInv, OpenInv, CloseInv,
           Attached, Holding, HasSemaphore, CountInv
  <2>6. CleanInv'
        BY <2>1, <2>2, AttachedIsFinite DEF IInv, TypeOK, Ids, ObjectInv,
           HolderInv, Referred, Peace, Overlap, OvertakesCreator,
           OpensBesideRemover, Remover, Creator, NamesInv, OpenInv, CloseInv,
           Attached, Holding, HasSemaphore, CountInv, CleanInv, Clean
  <2> QED BY <2>1, <2>3, <2>4, <2>5, <2>6 DEF Peace
<1> QED BY <1>2, <1>3, <1>4, <1>5 DEF IInv

\* A read changes nothing but the semaphore.
LEMMA ReadAndUnlockKeeps ==
    ASSUME IInv, NEW p \in Objects, ReadAndUnlock(p) PROVE IInv'
<1> USE DEF ReadAndUnlock, Goes, Post, names, memory, object, bounds, history
<1>1. /\ value' \in [Ids -> 0..1] /\ value[sem[p]] = 0
      /\ value' = [value EXCEPT ![sem[p]] = 1] /\ sem[p] \in 1..opens
      BY PostKeepsType, HasTheSemaphore DEF Holding, HasSemaphore
<1>2. TypeOK'
      BY <1>1, BoundsAssumption DEF IInv, TypeOK, Ids
<1>3. ObjectInv'
      BY <1>1, BoundsAssumption DEF IInv, TypeOK, Ids, ObjectInv, Holding,
         HasSemaphore
<1>4. HolderInv'
  <2>1. /\ \A q \in Objects \ {p} : pc'[q] = pc[q] /\ sem'[q] = sem[q]
        /\ pc[p] \in Holding /\ pc'[p] \notin Holding
        /\ pc'[p] \in HasSemaphore => sem'[p] = sem[p]
        BY DEF IInv, TypeOK, Holding, HasSemaphore
  <2> QED BY <2>1, PostKeepsHolder DEF Post
<1>5. ASSUME raced' = FALSE PROVE Peace'
  <2>1. raced = FALSE /\ Peace /\ ~Overlap'
        BY <1>1, <1>5 DEF IInv, TypeOK, Ids, ObjectInv, HolderInv, Referred,
           Peace, Overlap, OvertakesCreator, OpensBesideRemover, Remover,
           Creator, NamesInv, OpenInv, CloseInv, Attached, Holding, HasSemaphore
  <2>2. Attached' = Attached
        BY DEF IInv, TypeOK, Attached
  <2>3. NamesInv'
        BY <1>1, <2>1, BoundsAssumption DEF IInv, TypeOK, Ids, ObjectInv,
           HolderInv, Referred, Peace, Overlap, OvertakesCreator,
           OpensBesideRemover, Remover, Creator, NamesInv, OpenInv, CloseInv,
           Attached, Holding, HasSemaphore
  <2>4. OpenInv' /\ CloseInv'
        BY <1>1, <2>1, BoundsAssumption DEF IInv, TypeOK, Ids, ObjectInv,
           HolderInv, Referred, Peace, Overlap, OvertakesCreator,
           OpensBesideRemover, Remover, Creator, NamesInv, OpenInv, CloseInv,
           Attached, Holding, HasSemaphore
  <2>5. CountInv'
        BY <2>1, <2>2, AttachedIsFinite DEF IInv, TypeOK, Ids, ObjectInv,
           HolderInv, Referred, Peace, Overlap, OvertakesCreator,
           OpensBesideRemover, Remover, Creator, NamesInv, OpenInv, CloseInv,
           Attached, Holding, HasSemaphore, CountInv
  <2>6. CleanInv'
        BY <2>1, <2>2, AttachedIsFinite DEF IInv, TypeOK, Ids, ObjectInv,
           HolderInv, Referred, Peace, Overlap, OvertakesCreator,
           OpensBesideRemover, Remover, Creator, NamesInv, OpenInv, CloseInv,
           Attached, Holding, HasSemaphore, CountInv, CleanInv, Clean
  <2> QED BY <2>1, <2>3, <2>4, <2>5, <2>6 DEF Peace
<1> QED BY <1>2, <1>3, <1>4, <1>5 DEF IInv

\* A read that throws leaves the semaphore taken.
LEMMA ReadThrowsKeeps ==
    ASSUME IInv, NEW p \in Objects, ReadThrows(p) PROVE IInv'
<1> USE DEF ReadThrows, Goes, Abandon, names, memory, object, bounds, history
<1>1. pc[p] \in Holding => sem[p] \in 1..opens /\ sem[p] \in Ids
      BY HasTheSemaphore DEF Holding, HasSemaphore
<1>2. TypeOK'
  <2>1. abandoned' \subseteq Ids
        BY <1>1 DEF IInv, TypeOK, Holding
  <2>2. isCreation' \in [Objects -> BOOLEAN] /\ isLast' \in [Objects -> BOOLEAN]
        BY DEF IInv, TypeOK
  <2> QED BY <2>1, <2>2 DEF IInv, TypeOK
<1>3. ObjectInv'
      BY <1>1, BoundsAssumption DEF IInv, TypeOK, Ids, ObjectInv, Holding,
         HasSemaphore
<1>4. HolderInv'
  <2>1. /\ \A q \in Objects \ {p} : pc'[q] = pc[q] /\ sem'[q] = sem[q]
        /\ pc'[p] \notin Holding
        /\ pc'[p] \in HasSemaphore => sem'[p] = sem[p] /\ pc[p] \in HasSemaphore
        /\ pc[p] \in Holding => sem[p] \in abandoned'
        /\ abandoned \subseteq abandoned'
        BY DEF IInv, TypeOK, Holding, HasSemaphore
  <2> QED BY <1>2, <2>1, OtherStepKeepsHolder
<1>5. ASSUME raced' = FALSE PROVE Peace'
  <2>1. raced = FALSE /\ Peace /\ ~Overlap'
        BY <1>1, <1>5 DEF IInv, TypeOK, Ids, ObjectInv, HolderInv, Referred,
           Peace, Overlap, OvertakesCreator, OpensBesideRemover, Remover,
           Creator, NamesInv, OpenInv, CloseInv, Attached, Holding, HasSemaphore
  <2>2. Attached' = Attached
        BY DEF IInv, TypeOK, Attached
  <2>3. NamesInv'
        BY <1>1, <2>1, BoundsAssumption DEF IInv, TypeOK, Ids, ObjectInv,
           HolderInv, Referred, Peace, Overlap, OvertakesCreator,
           OpensBesideRemover, Remover, Creator, NamesInv, OpenInv, CloseInv,
           Attached, Holding, HasSemaphore
  <2>4. OpenInv' /\ CloseInv'
        BY <1>1, <2>1, BoundsAssumption DEF IInv, TypeOK, Ids, ObjectInv,
           HolderInv, Referred, Peace, Overlap, OvertakesCreator,
           OpensBesideRemover, Remover, Creator, NamesInv, OpenInv, CloseInv,
           Attached, Holding, HasSemaphore
  <2>5. CountInv'
        BY <2>1, <2>2, AttachedIsFinite DEF IInv, TypeOK, Ids, ObjectInv,
           HolderInv, Referred, Peace, Overlap, OvertakesCreator,
           OpensBesideRemover, Remover, Creator, NamesInv, OpenInv, CloseInv,
           Attached, Holding, HasSemaphore, CountInv
  <2>6. CleanInv'
        BY <2>1, <2>2, AttachedIsFinite DEF IInv, TypeOK, Ids, ObjectInv,
           HolderInv, Referred, Peace, Overlap, OvertakesCreator,
           OpensBesideRemover, Remover, Creator, NamesInv, OpenInv, CloseInv,
           Attached, Holding, HasSemaphore, CountInv, CleanInv, Clean
  <2> QED BY <2>1, <2>3, <2>4, <2>5, <2>6 DEF Peace
<1> QED BY <1>2, <1>3, <1>4, <1>5 DEF IInv

\* An object that closes takes the semaphore.
LEMMA WaitToCloseKeeps ==
    ASSUME IInv, NEW p \in Objects, WaitToClose(p) PROVE IInv'
<1> USE DEF WaitToClose, Goes, Acquire, names, memory, object, bounds, history
<1>1. /\ value' \in [Ids -> 0..1] /\ value[sem[p]] = 1
      /\ value' = [value EXCEPT ![sem[p]] = 0] /\ sem[p] \in 1..opens
      BY AcquireKeepsType, HasTheSemaphore DEF HasSemaphore
<1>2. TypeOK'
      BY <1>1, BoundsAssumption DEF IInv, TypeOK, Ids
<1>3. ObjectInv'
      BY <1>1, BoundsAssumption DEF IInv, TypeOK, Ids, ObjectInv, Holding,
         HasSemaphore
<1>4. HolderInv'
  <2>1. /\ \A q \in Objects \ {p} : pc'[q] = pc[q] /\ sem'[q] = sem[q]
        /\ pc[p] \in {"wait", "open"} /\ pc'[p] \in Holding
        BY DEF IInv, TypeOK, Holding
  <2> QED BY <2>1, AcquireKeepsHolder DEF Acquire
<1>5. ASSUME raced' = FALSE PROVE Peace'
  <2>1. raced = FALSE /\ Peace /\ ~Overlap'
        BY <1>1, <1>5 DEF IInv, TypeOK, Ids, ObjectInv, HolderInv, Referred,
           Peace, Overlap, OvertakesCreator, OpensBesideRemover, Remover,
           Creator, NamesInv, OpenInv, CloseInv, Attached, Holding, HasSemaphore
  <2>2. Attached' = Attached
        BY DEF IInv, TypeOK, Attached
  <2>3. NamesInv'
        BY <1>1, <2>1, BoundsAssumption DEF IInv, TypeOK, Ids, ObjectInv,
           HolderInv, Referred, Peace, Overlap, OvertakesCreator,
           OpensBesideRemover, Remover, Creator, NamesInv, OpenInv, CloseInv,
           Attached, Holding, HasSemaphore
  <2>4. OpenInv' /\ CloseInv'
        BY <1>1, <2>1, BoundsAssumption DEF IInv, TypeOK, Ids, ObjectInv,
           HolderInv, Referred, Peace, Overlap, OvertakesCreator,
           OpensBesideRemover, Remover, Creator, NamesInv, OpenInv, CloseInv,
           Attached, Holding, HasSemaphore
  <2>5. CountInv'
        BY <2>1, <2>2, AttachedIsFinite DEF IInv, TypeOK, Ids, ObjectInv,
           HolderInv, Referred, Peace, Overlap, OvertakesCreator,
           OpensBesideRemover, Remover, Creator, NamesInv, OpenInv, CloseInv,
           Attached, Holding, HasSemaphore, CountInv
  <2>6. CleanInv'
        BY <2>1, <2>2, AttachedIsFinite DEF IInv, TypeOK, Ids, ObjectInv,
           HolderInv, Referred, Peace, Overlap, OvertakesCreator,
           OpensBesideRemover, Remover, Creator, NamesInv, OpenInv, CloseInv,
           Attached, Holding, HasSemaphore, CountInv, CleanInv, Clean
  <2> QED BY <2>1, <2>3, <2>4, <2>5, <2>6 DEF Peace
<1> QED BY <1>2, <1>3, <1>4, <1>5 DEF IInv

\* Who finds the count at zero has been the only one.
LEMMA DetachKeeps ==
    ASSUME IInv, NEW p \in Objects, Detach(p) PROVE IInv'
<1> USE DEF Detach, NoteOverlap, Goes, NoOther, CountDown, names, memory,
            object, bounds, history
<1>1. mem[p] \in Ids
      BY DEF IInv, TypeOK, ObjectInv
<1>2. TypeOK'
  <2>1. accessCount' \in [Ids -> Int]
        BY <1>1 DEF IInv, TypeOK
  <2>2. /\ isLast' \in [Objects -> BOOLEAN]
        /\ isCreation' \in [Objects -> BOOLEAN]
        /\ mem' \in [Objects -> Ids \cup {0}]
        BY DEF IInv, TypeOK
  <2> QED BY <2>1, <2>2 DEF IInv, TypeOK
<1>3. ObjectInv'
      BY BoundsAssumption DEF IInv, TypeOK, Ids, ObjectInv, Holding,
         HasSemaphore
<1>4. HolderInv'
  <2>1. /\ \A q \in Objects \ {p} : pc'[q] = pc[q] /\ sem'[q] = sem[q]
        /\ pc'[p] \in Holding <=> pc[p] \in Holding
        /\ pc'[p] \in HasSemaphore =>
             \/ sem'[p] = semName /\ pc'[p] \notin Holding
             \/ sem'[p] = sem[p] /\ pc[p] \in HasSemaphore
        BY DEF IInv, TypeOK, Holding, HasSemaphore
  <2> QED BY <1>2, <2>1, OtherStepKeepsHolder
<1>5. ASSUME raced' = FALSE PROVE Peace'
  <2>1. raced = FALSE /\ Peace /\ ~Overlap'
        BY <1>5 DEF IInv, TypeOK, Ids, ObjectInv, HolderInv, Referred, Peace,
            Overlap, OvertakesCreator, OpensBesideRemover, Remover, Creator,
            NamesInv, OpenInv, CloseInv, Attached, Holding, HasSemaphore
  <2>2. Attached' = Attached \ {p} /\ p \in Attached
        BY DEF IInv, TypeOK, Attached
  <2>3. NamesInv'
        BY <2>1, BoundsAssumption DEF IInv, TypeOK, Ids, ObjectInv, HolderInv,
           Referred, Peace, Overlap, OvertakesCreator, OpensBesideRemover,
           Remover, Creator, NamesInv, OpenInv, CloseInv, Attached, Holding,
           HasSemaphore
  <2>4. /\ mem[p] = memName /\ memName \in Ids /\ memName # 0
        /\ accessCount[memName] \in Int
        /\ accessCount'[memName] = accessCount[memName] - 1
        BY <1>1, <2>1 DEF IInv, TypeOK, Peace, NamesInv
  <2>5. accessCount[memName] >= Cardinality(Attached) - 1
        BY <2>1, <2>4 DEF Peace, CountInv
  <2>6. Cardinality(Attached') = Cardinality(Attached) - 1
        BY <2>2, AttachedIsFinite
  <2>7. \A q \in Objects : ~Remover(q) /\ ~Creator(q)
    <3>1. p \in Attached /\ pc[p] = "detach"
          BY <2>2
    <3> QED BY <2>1, <3>1 DEF Peace, CloseInv, OpenInv, Remover
  <2>8. ASSUME isLast'[p] = TRUE, NEW q \in Objects, q # p
        PROVE  pc[q] \in {"closed", "exists"}
    <3>1. accessCount[memName] = 0
          BY <2>4, <2>8 DEF IInv, TypeOK
    <3>2. q \notin Attached
      <4>1. SUFFICES ASSUME q \in Attached PROVE FALSE
            OBVIOUS
      <4>2. Cardinality({p, q}) <= Cardinality(Attached)
            BY <2>2, <4>1, AttachedIsFinite, FS_Subset
      <4>3. Cardinality({p}) = 1 /\ IsFiniteSet({p})
            BY FS_Singleton
      <4>4. Cardinality({p} \cup {q}) = 2
        <5>1. q \notin {p}
              BY <2>8
        <5>2. Cardinality({p} \cup {q}) = Cardinality({p}) + 1
              BY <4>3, <5>1, FS_AddElement
        <5> QED BY <4>3, <5>2
      <4>5. {p, q} = {p} \cup {q}
            OBVIOUS
      <4> QED BY <2>5, <3>1, <4>2, <4>4, <4>5, AttachedIsFinite
    <3>3. pc[q] # "wait"
      <4>1. Remover(p)'
            BY <2>8 DEF IInv, TypeOK, Remover
      <4>2. pc'[q] # "wait"
            BY <2>1, <4>1 DEF Overlap, OpensBesideRemover
      <4> QED BY <2>8, <4>2 DEF IInv, TypeOK
    <3>4. pc[q] \notin Holding
      <4>1. sem[p] = semName /\ pc[p] \in Holding
            BY <2>1 DEF Peace, NamesInv, Holding, HasSemaphore
      <4> QED BY <2>1, <2>8, <4>1 DEF IInv, HolderInv, Peace, NamesInv,
                 HasSemaphore
    <3> QED BY <2>7, <3>2, <3>3, <3>4 DEF IInv, TypeOK, Attached, Holding,
               Remover
  <2>9. OpenInv' /\ CloseInv'
    <3>1. \A q \in Objects \ {p} : pc'[q] = pc[q] /\ isLast'[q] = isLast[q]
          BY DEF IInv, TypeOK
    <3>2. pc'[p] = "closePost"
          BY DEF IInv, TypeOK
    <3>3. \A q \in Objects \ {p} : ~Remover(q)'
          BY <2>7, <3>1 DEF Remover
    <3>4. CloseInv'
          BY <2>8, <3>1, <3>2, <3>3 DEF CloseInv, Remover
    <3>5. \A q \in Objects : ~Creator(q)'
          BY <2>7, <3>1, <3>2 DEF Creator
    <3> QED BY <3>4, <3>5 DEF OpenInv
  <2>10. CountInv'
        BY <2>1, <2>4, <2>5, <2>6, AttachedIsFinite DEF Peace, CountInv
  <2>11. CleanInv'
    <3>1. CASE Clean /\ ~Remover(p)'
      <4>1. accessCount[memName] # 0
            BY <2>4, <3>1 DEF IInv, TypeOK, Remover
      <4>2. accessCount[memName] = Cardinality(Attached) - 1
            BY <2>1, <2>4, <2>7, <3>1 DEF Peace, CleanInv
      <4>3. /\ Attached' # {}
            /\ accessCount'[memName] = Cardinality(Attached') - 1
            BY <2>4, <2>6, <4>1, <4>2, FS_EmptySet, AttachedIsFinite
      <4> QED BY <2>4, <4>3 DEF CleanInv
    <3>2. CASE ~Clean
          BY <3>2 DEF CleanInv, Clean
    <3>3. CASE Remover(p)'
          BY <2>4, <3>3 DEF CleanInv
    <3> QED BY <3>1, <3>2, <3>3
  <2> QED BY <2>1, <2>3, <2>9, <2>10, <2>11 DEF Peace
<1> QED BY <1>2, <1>3, <1>4, <1>5 DEF IInv

\* The one that was not the last leaves others behind.
LEMMA PostCloseKeeps ==
    ASSUME IInv, NEW p \in Objects, PostClose(p) PROVE IInv'
<1> USE DEF PostClose, Goes, Post, names, memory, object, bounds, history
<1>1. /\ value' \in [Ids -> 0..1] /\ value[sem[p]] = 0
      /\ value' = [value EXCEPT ![sem[p]] = 1] /\ sem[p] \in 1..opens
      BY PostKeepsType, HasTheSemaphore DEF Holding, HasSemaphore
<1>2. TypeOK'
      BY <1>1, BoundsAssumption DEF IInv, TypeOK, Ids
<1>3. ObjectInv'
      BY <1>1, BoundsAssumption DEF IInv, TypeOK, Ids, ObjectInv, Holding,
         HasSemaphore
<1>4. HolderInv'
  <2>1. /\ \A q \in Objects \ {p} : pc'[q] = pc[q] /\ sem'[q] = sem[q]
        /\ pc[p] \in Holding /\ pc'[p] \notin Holding
        /\ pc'[p] \in HasSemaphore => sem'[p] = sem[p]
        BY DEF IInv, TypeOK, Holding, HasSemaphore
  <2> QED BY <2>1, PostKeepsHolder DEF Post
<1>5. ASSUME raced' = FALSE PROVE Peace'
  <2>1. raced = FALSE /\ Peace /\ ~Overlap'
        BY <1>1, <1>5 DEF IInv, TypeOK, Ids, ObjectInv, HolderInv, Referred,
           Peace, Overlap, OvertakesCreator, OpensBesideRemover, Remover,
           Creator, NamesInv, OpenInv, CloseInv, Attached, Holding, HasSemaphore
  <2>2. Attached' = Attached
        BY DEF IInv, TypeOK, Attached
  <2>3. NamesInv'
        BY <1>1, <2>1, BoundsAssumption DEF IInv, TypeOK, Ids, ObjectInv,
           HolderInv, Referred, Peace, Overlap, OvertakesCreator,
           OpensBesideRemover, Remover, Creator, NamesInv, OpenInv, CloseInv,
           Attached, Holding, HasSemaphore
  <2>4. OpenInv' /\ CloseInv'
        BY <1>1, <2>1, BoundsAssumption DEF IInv, TypeOK, Ids, ObjectInv,
           HolderInv, Referred, Peace, Overlap, OvertakesCreator,
           OpensBesideRemover, Remover, Creator, NamesInv, OpenInv, CloseInv,
           Attached, Holding, HasSemaphore
  <2>5. CountInv'
        BY <2>1, <2>2, AttachedIsFinite DEF IInv, TypeOK, Ids, ObjectInv,
           HolderInv, Referred, Peace, Overlap, OvertakesCreator,
           OpensBesideRemover, Remover, Creator, NamesInv, OpenInv, CloseInv,
           Attached, Holding, HasSemaphore, CountInv
  <2>6. CleanInv'
    <3>1. \A q \in Objects \ {p} : /\ pc'[q] = pc[q] /\ isLast'[q] = isLast[q]
                                   /\ isCreation'[q] = isCreation[q]
          BY DEF IInv, TypeOK
    <3>2. /\ pc[p] = "closePost" /\ isLast'[p] = isLast[p]
          /\ isLast[p] = TRUE => pc'[p] = "deleteMem"
          BY DEF IInv, TypeOK
    <3>3. \A q \in Objects : /\ Creator(q) => Creator(q)'
                             /\ Remover(q) => Remover(q)'
                             /\ pc[q] = "deleteSem" => pc'[q] = "deleteSem"
          BY <3>1, <3>2 DEF Creator, Remover
    <3> QED BY <2>1, <2>2, <3>3 DEF Peace, CleanInv, Clean, Creator,
               Remover, names, memory, bounds, history
  <2> QED BY <2>1, <2>3, <2>4, <2>5, <2>6 DEF Peace
<1> QED BY <1>2, <1>3, <1>4, <1>5 DEF IInv

\* The last one removes the name of the memory first.
LEMMA DeleteMemoryKeeps ==
    ASSUME IInv, NEW p \in Objects, DeleteMemory(p) PROVE IInv'
<1> USE DEF DeleteMemory, Goes, Forget, names, memory, object, bounds, history
<1>2. TypeOK'
      BY BoundsAssumption DEF IInv, TypeOK, Ids
<1>3. ObjectInv'
      BY BoundsAssumption DEF IInv, TypeOK, Ids, ObjectInv, Holding,
         HasSemaphore
<1>4. HolderInv'
  <2>1. /\ \A q \in Objects \ {p} : pc'[q] = pc[q] /\ sem'[q] = sem[q]
        /\ pc'[p] \in Holding <=> pc[p] \in Holding
        /\ pc'[p] \in HasSemaphore =>
             \/ sem'[p] = semName /\ pc'[p] \notin Holding
             \/ sem'[p] = sem[p] /\ pc[p] \in HasSemaphore
        BY DEF IInv, TypeOK, Holding, HasSemaphore
  <2> QED BY <1>2, <2>1, OtherStepKeepsHolder
<1>5. ASSUME raced' = FALSE PROVE Peace'
  <2>1. raced = FALSE /\ Peace /\ ~Overlap'
        BY <1>5 DEF IInv, TypeOK, Ids, ObjectInv, HolderInv, Referred, Peace,
            Overlap, OvertakesCreator, OpensBesideRemover, Remover, Creator,
            NamesInv, OpenInv, CloseInv, Attached, Holding, HasSemaphore
  <2>2. Attached' = Attached
        BY DEF IInv, TypeOK, Attached
  <2>3. NamesInv'
    <3>1. \A q \in Objects \ {p} : pc[q] \in {"closed", "exists"}
          BY <2>1 DEF Peace, CloseInv, Remover
    <3>2. \A q \in Objects \ {p} : pc'[q] \in {"closed", "exists"}
          BY <3>1 DEF IInv, TypeOK
    <3>3. semName # 0 /\ memName # 0
          BY <2>1 DEF Peace, NamesInv
    <3> QED
        BY <2>1, <3>2, <3>3 DEF IInv, TypeOK, Ids, ObjectInv, HolderInv,
           Referred, Peace, Overlap, OvertakesCreator, OpensBesideRemover,
           Remover, Creator, NamesInv, OpenInv, CloseInv, Attached, Holding,
           HasSemaphore
  <2>4. OpenInv' /\ CloseInv'
        BY <2>1, BoundsAssumption DEF IInv, TypeOK, Ids, ObjectInv, HolderInv,
           Referred, Peace, Overlap, OvertakesCreator, OpensBesideRemover,
           Remover, Creator, NamesInv, OpenInv, CloseInv, Attached, Holding,
           HasSemaphore
  <2>5. CountInv'
        BY <2>1, <2>2, AttachedIsFinite DEF IInv, TypeOK, Ids, ObjectInv,
           HolderInv, Referred, Peace, Overlap, OvertakesCreator,
           OpensBesideRemover, Remover, Creator, NamesInv, OpenInv, CloseInv,
           Attached, Holding, HasSemaphore, CountInv
  <2>6. CleanInv'
        BY <2>1, <2>2, AttachedIsFinite DEF IInv, TypeOK, Ids, ObjectInv,
           HolderInv, Referred, Peace, Overlap, OvertakesCreator,
           OpensBesideRemover, Remover, Creator, NamesInv, OpenInv, CloseInv,
           Attached, Holding, HasSemaphore, CountInv, CleanInv, Clean
  <2> QED BY <2>1, <2>3, <2>4, <2>5, <2>6 DEF Peace
<1> QED BY <1>2, <1>3, <1>4, <1>5 DEF IInv

\* The name of the semaphore is removed when nobody else has it.
LEMMA DeleteSemaphoreKeeps ==
    ASSUME IInv, NEW p \in Objects, DeleteSemaphore(p) PROVE IInv'
<1> USE DEF DeleteSemaphore, Goes, names, memory, object, bounds, history
<1>2. TypeOK'
      BY BoundsAssumption DEF IInv, TypeOK, Ids
<1>3. ObjectInv'
      BY BoundsAssumption DEF IInv, TypeOK, Ids, ObjectInv, Holding,
         HasSemaphore
<1>4. HolderInv'
  <2>1. /\ \A q \in Objects \ {p} : pc'[q] = pc[q] /\ sem'[q] = sem[q]
        /\ pc'[p] \in Holding <=> pc[p] \in Holding
        /\ pc'[p] \in HasSemaphore =>
             \/ sem'[p] = semName /\ pc'[p] \notin Holding
             \/ sem'[p] = sem[p] /\ pc[p] \in HasSemaphore
        BY DEF IInv, TypeOK, Holding, HasSemaphore
  <2> QED BY <1>2, <2>1, OtherStepKeepsHolder
<1>5. ASSUME raced' = FALSE PROVE Peace'
  <2>1. raced = FALSE /\ Peace /\ ~Overlap'
        BY <1>5 DEF IInv, TypeOK, Ids, ObjectInv, HolderInv, Referred, Peace,
            Overlap, OvertakesCreator, OpensBesideRemover, Remover, Creator,
            NamesInv, OpenInv, CloseInv, Attached, Holding, HasSemaphore
  <2>2. Attached' = Attached
        BY DEF IInv, TypeOK, Attached
  <2>3. NamesInv'
        BY <2>1, BoundsAssumption DEF IInv, TypeOK, Ids, ObjectInv, HolderInv,
           Referred, Peace, Overlap, OvertakesCreator, OpensBesideRemover,
           Remover, Creator, NamesInv, OpenInv, CloseInv, Attached, Holding,
           HasSemaphore
  <2>4. OpenInv' /\ CloseInv'
        BY <2>1, BoundsAssumption DEF IInv, TypeOK, Ids, ObjectInv, HolderInv,
           Referred, Peace, Overlap, OvertakesCreator, OpensBesideRemover,
           Remover, Creator, NamesInv, OpenInv, CloseInv, Attached, Holding,
           HasSemaphore
  <2>5. CountInv'
        BY <2>1, <2>2, AttachedIsFinite DEF IInv, TypeOK, Ids, ObjectInv,
           HolderInv, Referred, Peace, Overlap, OvertakesCreator,
           OpensBesideRemover, Remover, Creator, NamesInv, OpenInv, CloseInv,
           Attached, Holding, HasSemaphore, CountInv
  <2>6. CleanInv'
        BY <2>1, <2>2, AttachedIsFinite DEF IInv, TypeOK, Ids, ObjectInv,
           HolderInv, Referred, Peace, Overlap, OvertakesCreator,
           OpensBesideRemover, Remover, Creator, NamesInv, OpenInv, CloseInv,
           Attached, Holding, HasSemaphore, CountInv, CleanInv, Clean
  <2> QED BY <2>1, <2>3, <2>4, <2>5, <2>6 DEF Peace
<1> QED BY <1>2, <1>3, <1>4, <1>5 DEF IInv

\* A kill leaves the count too high, never too low.
LEMMA CrashKeeps ==
    ASSUME IInv, NEW p \in Objects, Crash(p) PROVE IInv'
<1> USE DEF Crash, Abandon, Forget, names, memory, object, bounds, history
<1>1. pc[p] \in Holding => sem[p] \in 1..opens /\ sem[p] \in Ids
      BY HasTheSemaphore DEF Holding, HasSemaphore
<1>2. TypeOK'
  <2>1. isCreation' \in [Objects -> BOOLEAN] /\ isLast' \in [Objects -> BOOLEAN]
        BY DEF IInv, TypeOK
  <2>2. /\ sem' \in [Objects -> Ids \cup {0}]
        /\ mem' \in [Objects -> Ids \cup {0}]
        /\ number' \in [Objects -> Ids \cup {0}]
        BY DEF IInv, TypeOK
  <2>3. abandoned' \subseteq Ids /\ crashes' \in 0..MaxCrash
        BY <1>1, BoundsAssumption DEF IInv, TypeOK, Holding
  <2>4. pc' \in [Objects -> {"closed", "exists", "wait", "attach", "count",
                            "post", "open", "locked", "detach", "closePost",
                            "deleteMem", "deleteSem"}]
        BY DEF IInv, TypeOK
  <2> QED BY <2>1, <2>2, <2>3, <2>4 DEF IInv, TypeOK
<1>3. ObjectInv'
      BY <1>1, BoundsAssumption DEF IInv, TypeOK, Ids, ObjectInv, Holding,
         HasSemaphore
<1>4. HolderInv'
  <2>1. /\ \A q \in Objects \ {p} : pc'[q] = pc[q] /\ sem'[q] = sem[q]
        /\ pc'[p] \notin Holding
        /\ pc'[p] \in HasSemaphore => sem'[p] = sem[p] /\ pc[p] \in HasSemaphore
        /\ pc[p] \in Holding => sem[p] \in abandoned'
        /\ abandoned \subseteq abandoned'
        BY DEF IInv, TypeOK, Holding, HasSemaphore
  <2> QED BY <1>2, <2>1, OtherStepKeepsHolder
<1>5. ASSUME raced' = FALSE PROVE Peace'
  <2>1. raced = FALSE /\ Peace /\ ~Overlap'
        BY <1>1, <1>5 DEF IInv, TypeOK, Ids, ObjectInv, HolderInv, Referred,
           Peace, Overlap, OvertakesCreator, OpensBesideRemover, Remover,
           Creator, NamesInv, OpenInv, CloseInv, Attached, Holding, HasSemaphore
  <2>2. Attached' = Attached \ {p}
        BY DEF IInv, TypeOK, Attached
  <2>3. NamesInv'
        BY <1>1, <2>1, BoundsAssumption DEF IInv, TypeOK, Ids, ObjectInv,
           HolderInv, Referred, Peace, Overlap, OvertakesCreator,
           OpensBesideRemover, Remover, Creator, NamesInv, OpenInv, CloseInv,
           Attached, Holding, HasSemaphore
  <2>4. OpenInv' /\ CloseInv'
        BY <1>1, <2>1, BoundsAssumption DEF IInv, TypeOK, Ids, ObjectInv,
           HolderInv, Referred, Peace, Overlap, OvertakesCreator,
           OpensBesideRemover, Remover, Creator, NamesInv, OpenInv, CloseInv,
           Attached, Holding, HasSemaphore
  <2>5. CountInv'
    <3>1. Cardinality(Attached') <= Cardinality(Attached)
          /\ Cardinality(Attached') \in Nat
          BY <2>2, AttachedIsFinite, FS_Subset, FS_CardinalityType
    <3>2. memName # 0 => /\ accessCount[memName] \in Int
                         /\ accessCount[memName] >= Cardinality(Attached) - 1
          BY <2>1 DEF IInv, TypeOK, Peace, CountInv
    <3>3. memName # 0 => accessCount[memName] >= Cardinality(Attached') - 1
          BY <3>1, <3>2, AttachedIsFinite
    <3> QED BY <2>1, <3>3 DEF Peace, CountInv
  <2>6. CleanInv'
        BY <2>1, <2>2, AttachedIsFinite DEF IInv, TypeOK, Ids, ObjectInv,
           HolderInv, Referred, Peace, Overlap, OvertakesCreator,
           OpensBesideRemover, Remover, Creator, NamesInv, OpenInv, CloseInv,
           Attached, Holding, HasSemaphore, CountInv, CleanInv, Clean
  <2> QED BY <2>1, <2>3, <2>4, <2>5, <2>6 DEF Peace
<1> QED BY <1>2, <1>3, <1>4, <1>5 DEF IInv

-----------------------------------------------------------------------------

\* Neither name is there before the first object.
LEMMA Initially == Init => IInv
<1> SUFFICES ASSUME Init PROVE IInv
    OBVIOUS
<1>1. isCreation \in [Objects -> BOOLEAN] /\ isLast \in [Objects -> BOOLEAN]
      /\ leaked \in BOOLEAN /\ raced \in BOOLEAN
      BY DEF Init
<1>2. TypeOK
      BY <1>1, BoundsAssumption DEF Init, TypeOK, Ids
<1>3. ObjectInv /\ HolderInv
      BY DEF Init, ObjectInv, HolderInv, Referred, Holding, HasSemaphore, Ids
<1>4. Peace
      BY DEF Init, Peace, Overlap, OvertakesCreator, OpensBesideRemover,
         NamesInv, OpenInv, CloseInv, CountInv, CleanInv, Creator, Remover,
         Holding, HasSemaphore
<1> QED BY <1>2, <1>3, <1>4 DEF IInv

\* Every step of an object keeps the invariant.
LEMMA StepKeeps == ASSUME IInv, NEW p \in Objects, Step(p) PROVE IInv'
<1>1. CASE CreateSemaphore(p) BY <1>1, CreateSemaphoreKeeps
<1>2. CASE OpenSemaphore(p) BY <1>2, OpenSemaphoreKeeps
<1>3. CASE WaitToOpen(p) BY <1>3, WaitToOpenKeeps
<1>4. CASE OpenMemory(p) BY <1>4, OpenMemoryKeeps
<1>5. CASE CountIn(p) BY <1>5, CountInKeeps
<1>6. CASE AttachFails(p) BY <1>6, AttachFailsKeeps
<1>7. CASE PostOpen(p) BY <1>7, PostOpenKeeps
<1>8. CASE PostOpenThrows(p) BY <1>8, PostOpenThrowsKeeps
<1>9. CASE Lock(p) BY <1>9, LockKeeps
<1>10. CASE WriteAndUnlock(p) BY <1>10, WriteAndUnlockKeeps
<1>11. CASE ReadAndUnlock(p) BY <1>11, ReadAndUnlockKeeps
<1>12. CASE ReadThrows(p) BY <1>12, ReadThrowsKeeps
<1>13. CASE WaitToClose(p) BY <1>13, WaitToCloseKeeps
<1>14. CASE Detach(p) BY <1>14, DetachKeeps
<1>15. CASE PostClose(p) BY <1>15, PostCloseKeeps
<1>16. CASE DeleteMemory(p) BY <1>16, DeleteMemoryKeeps
<1>17. CASE DeleteSemaphore(p) BY <1>17, DeleteSemaphoreKeeps
<1>18. CASE Crash(p) BY <1>18, CrashKeeps
<1> QED BY <1>1, <1>2, <1>3, <1>4, <1>5, <1>6, <1>7, <1>8, <1>9, <1>10, <1>11,
           <1>12, <1>13, <1>14, <1>15, <1>16, <1>17, <1>18 DEF Step

\* A step of no object changes nothing.
LEMMA StutterKeeps == IInv /\ UNCHANGED vars => IInv'
<1> SUFFICES ASSUME IInv, UNCHANGED vars PROVE IInv'
    OBVIOUS
<1> USE DEF vars, names, memory, object, bounds, history
<1>1. Attached' = Attached
      BY DEF Attached
<1>2. TypeOK' /\ ObjectInv' /\ HolderInv'
      BY DEF IInv, TypeOK, ObjectInv, HolderInv, Referred
<1>3. ASSUME raced' = FALSE PROVE Peace'
  <2>1. Peace
        BY <1>3 DEF IInv
  <2>2. ~Overlap' /\ NamesInv' /\ OpenInv' /\ CloseInv'
        BY <1>1, <2>1 DEF Peace, Overlap, OvertakesCreator, OpensBesideRemover,
           NamesInv, OpenInv, CloseInv, Creator, Remover
  <2>3. CountInv' /\ CleanInv'
        BY <1>1, <2>1 DEF Peace, CountInv, CleanInv, Clean, Creator, Remover
  <2> QED BY <2>2, <2>3 DEF Peace
<1> QED BY <1>2, <1>3 DEF IInv

\* The invariant holds, whatever is killed or fails and whoever comes first.
THEOREM SharedMemoryInductive == Spec => []IInv
<1>1. IInv /\ [Next]_vars => IInv'
      BY StepKeeps, StutterKeeps DEF Next
<1> QED BY <1>1, Initially, PTL DEF Spec

\* All objects of a name have the memory and the semaphore of the name, unless
\* one of the two overlaps has happened.
THEOREM SharesOneMemory == Spec => []OneMemory
<1>1. IInv => OneMemory
      BY DEF IInv, Peace, NamesInv, OneMemory, Attached, Holding, HasSemaphore
<1> QED BY <1>1, SharedMemoryInductive, PTL

\* Every object finds what was written last, by whomever, unless one of the two
\* overlaps has happened.
THEOREM SharesItsContent == Spec => []ContentIsShared
<1>1. IInv => ContentIsShared
      BY DEF IInv, Peace, NamesInv, CountInv, ContentIsShared, Attached
<1> QED BY <1>1, SharedMemoryInductive, PTL

\* The last one to close removes both names, unless one of the two overlaps has
\* happened, a program was killed, or a throw left the semaphore or the count.
THEOREM RemovesTheNames == Spec => []LastOneRemoves
<1>1. IInv => LastOneRemoves
  <2> SUFFICES ASSUME IInv, raced = FALSE, Clean,
                      \A p \in Objects : pc[p] = "closed"
               PROVE  semName = 0 /\ memName = 0
      BY DEF LastOneRemoves, Clean
  <2>1. Attached = {} /\ \A p \in Objects : ~Remover(p) /\ ~Creator(p)
        BY DEF Attached, Remover, Creator
  <2>2. memName = 0
        BY <2>1 DEF IInv, Peace, CleanInv
  <2> QED BY <2>1, <2>2 DEF IInv, Peace, CleanInv
<1> QED BY <1>1, SharedMemoryInductive, PTL

\* A semaphore that a name or an object refers to is free or one object has it,
\* unless it was abandoned: overlaps, kills and throws included.
THEOREM OneObjectLocks == Spec => []LockIsHeld
<1>1. IInv => LockIsHeld
  <2> SUFFICES ASSUME IInv, NEW s \in Semaphores \ abandoned
               PROVE  value[s] + Cardinality({p \in Objects :
                                    sem[p] = s /\ pc[p] \in Holding}) = 1
      BY DEF LockIsHeld
  <2> DEFINE H == {p \in Objects : sem[p] = s /\ pc[p] \in Holding}
  <2>1. s \in Ids /\ Referred(s) /\ value[s] \in 0..1
        BY DEF IInv, TypeOK, Semaphores, Referred
  <2>2. CASE H # {}
    <3>1. PICK p \in Objects : p \in H
          BY <2>2
    <3>2. H = {p} /\ value[s] = 0
          BY <3>1 DEF IInv, HolderInv
    <3>3. Cardinality(H) = 1
          BY <3>2, FS_Singleton
    <3> QED BY <3>2, <3>3
  <2>3. CASE H = {}
    <3>1. value[s] = 1
          BY <2>1, <2>3 DEF IInv, HolderInv
    <3>2. Cardinality(H) = 0
          BY <2>3, FS_EmptySet
    <3> QED BY <3>1, <3>2
  <2> QED BY <2>2, <2>3
<1> QED BY <1>1, SharedMemoryInductive, PTL
=============================================================================
