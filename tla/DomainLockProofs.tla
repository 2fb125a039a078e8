--------------------------- MODULE DomainLockProofs ---------------------------
(* Theorems about DomainLock, for any finite set of handlers.                  *)
EXTENDS DomainLock, FiniteSetTheorems, TLAPS

Users(l) == {t \in Threads : mine[t] = l}

\* The record a thread counts on is the one in the map, from the moment it is
\* counted until the count is given back.
Referenced ==
  \A t \in Threads :
    IF pc[t] = "idle" THEN mine[t] = NoLock
    ELSE mine[t] \in Locks /\ table[key[t]] = mine[t]

\* A record in the map has a user, and stands under one key only.
Entered ==
  \A k \in Keys : table[k] # NoLock =>
    /\ \E t \in Threads : pc[t] # "idle" /\ key[t] = k
    /\ \A k2 \in Keys : table[k2] = table[k] => k2 = k

Counted == \A l \in Locks : refs[l] = Cardinality(Users(l))

Owned ==
  /\ \A t \in Threads : pc[t] = "holding" => owner[mine[t]] = t
  /\ \A l \in Locks : owner[l] # NoThread =>
       pc[owner[l]] = "holding" /\ mine[owner[l]] = l

Inv == TypeOK /\ Referenced /\ Entered /\ Counted /\ Owned

LEMMA UsersFinite == \A l \in Locks : IsFiniteSet(Users(l))
  BY ThreadsAssumption, FS_Subset DEF Users

LEMMA InitInv == Init => Inv
  <1> SUFFICES ASSUME Init PROVE Inv
    OBVIOUS
  <1>1. TypeOK /\ Referenced /\ Entered /\ Owned
    BY NoThreadAssumption, NoLockAssumption
    DEF Init, TypeOK, Referenced, Entered, Owned
  <1>2. Counted
    <2> SUFFICES ASSUME NEW l \in Locks PROVE refs[l] = Cardinality(Users(l))
      BY DEF Counted
    <2>1. Users(l) = {}
      BY NoLockAssumption DEF Users, Init
    <2>2. QED
      BY <2>1, FS_EmptySet DEF Init
  <1>3. QED
    BY <1>1, <1>2 DEF Inv

\* A step that only moves a thread and its lock's owner leaves the counts alone.
LEMMA CountsKept == Counted /\ UNCHANGED <<refs, mine>> => Counted'
  BY DEF Counted, Users

LEMMA ReferenceInv ==
  ASSUME Inv, NEW t \in Threads, NEW k \in Keys, NEW l \in Locks, Reference(t, k, l)
  PROVE  Inv'
  <1> USE DEF Reference, Goto
  <1>1. mine[t] = NoLock /\ t \notin Users(l)
    BY NoLockAssumption DEF Inv, Referenced, Users
  <1>2. \A k2 \in Keys : table[k2] = l => k2 = k
    BY NoLockAssumption DEF Inv, Referenced, Entered, LockFor
  <1>3. TypeOK'
    BY DEF Inv, TypeOK
  <1>4. Referenced'
    BY <1>2, NoLockAssumption DEF Inv, TypeOK, Referenced, LockFor
  <1>5. Entered'
    BY <1>1, <1>2, NoLockAssumption DEF Inv, TypeOK, Entered
  <1>6. Counted'
    <2> SUFFICES ASSUME NEW m \in Locks PROVE refs'[m] = Cardinality(Users(m)')
      BY DEF Counted
    <2>1. CASE m = l
      <3>1. Users(m)' = Users(m) \cup {t}
        BY <2>1 DEF Users, Inv, TypeOK
      <3>2. Cardinality(Users(m)') = Cardinality(Users(m)) + 1
        BY <1>1, <2>1, <3>1, UsersFinite, FS_AddElement
      <3>3. QED
        BY <2>1, <3>2 DEF Inv, TypeOK, Counted
    <2>2. CASE m # l
      <3>1. Users(m)' = Users(m)
        BY <1>1, <2>2, NoLockAssumption DEF Users, Inv, TypeOK
      <3>2. QED
        BY <2>2, <3>1 DEF Inv, TypeOK, Counted
    <2>3. QED
      BY <2>1, <2>2
  <1>7. Owned'
    BY <1>1, NoLockAssumption, NoThreadAssumption DEF Inv, TypeOK, Owned, Referenced
  <1>8. QED
    BY <1>3, <1>4, <1>5, <1>6, <1>7 DEF Inv

LEMMA DereferenceInv ==
  ASSUME Inv, NEW t \in Threads, Dereference(t)
  PROVE  Inv'
  <1> USE DEF Dereference, DropReference, Goto
  <1>1. mine[t] \in Locks /\ table[key[t]] = mine[t] /\ t \in Users(mine[t])
    BY DEF Inv, Referenced, Users
  <1>2. refs[mine[t]] \in Nat \ {0} /\ IsFiniteSet(Users(mine[t]))
        /\ Cardinality(Users(mine[t]) \ {t}) = refs[mine[t]] - 1
    <2>1. IsFiniteSet(Users(mine[t])) /\ refs[mine[t]] = Cardinality(Users(mine[t]))
      BY <1>1, UsersFinite DEF Inv, Counted
    <2>2. Cardinality(Users(mine[t])) \in Nat
          /\ Cardinality(Users(mine[t]) \ {t}) = Cardinality(Users(mine[t])) - 1
          /\ Cardinality(Users(mine[t])) # 0
      BY <1>1, <2>1, FS_RemoveElement, FS_CardinalityType, FS_EmptySet
    <2>3. QED
      BY <2>1, <2>2
  <1>3. TypeOK'
    BY <1>1, <1>2 DEF Inv, TypeOK
  \* With one reference left no other thread uses the lock; with more, one does.
  <1>4. refs[mine[t]] = 1 <=> \A u \in Threads : mine[u] = mine[t] => u = t
    <2>1. Users(mine[t]) \ {t} = {} <=> Cardinality(Users(mine[t]) \ {t}) = 0
      BY <1>2, FS_Subset, FS_EmptySet
    <2>2. Users(mine[t]) \ {t} = {} <=>
            \A u \in Threads : mine[u] = mine[t] => u = t
      BY DEF Users
    <2>3. QED
      BY <1>2, <2>1, <2>2
  <1>5. Referenced'
    BY <1>1, <1>4, NoLockAssumption DEF Inv, TypeOK, Referenced, Entered
  <1>6. Entered'
    <2> SUFFICES ASSUME NEW k \in Keys, table'[k] # NoLock
                 PROVE  /\ \E u \in Threads : pc'[u] # "idle" /\ key'[u] = k
                        /\ \A k2 \in Keys : table'[k2] = table'[k] => k2 = k
      BY DEF Entered
    <2>1. table'[k] = table[k] /\ (k = key[t] => refs[mine[t]] # 1)
      BY DEF Inv, TypeOK
    <2>2. PICK u \in Threads : pc[u] # "idle" /\ key[u] = k /\ u # t
      <3>1. CASE k = key[t]
        <4>1. PICK u \in Threads : mine[u] = mine[t] /\ u # t
          BY <1>4, <2>1, <3>1
        <4>2. pc[u] # "idle" /\ table[key[u]] = table[k]
          BY <1>1, <3>1, <4>1, NoLockAssumption DEF Inv, Referenced
        <4>3. key[u] = k
          BY <2>1, <4>2 DEF Inv, Entered, TypeOK
        <4>4. QED
          BY <4>1, <4>2, <4>3
      <3>2. CASE k # key[t]
        BY <2>1, <3>2 DEF Inv, Entered
      <3>3. QED
        BY <3>1, <3>2
    <2>3. pc'[u] # "idle" /\ key'[u] = k
      BY <2>2 DEF Inv, TypeOK
    <2>4. \A k2 \in Keys : table'[k2] = table'[k] => k2 = k
      BY <2>1 DEF Inv, TypeOK, Entered
    <2>5. QED
      BY <2>3, <2>4
  <1>7. Counted'
    <2> SUFFICES ASSUME NEW m \in Locks PROVE refs'[m] = Cardinality(Users(m)')
      BY DEF Counted
    <2>1. Users(m)' = IF m = mine[t] THEN Users(m) \ {t} ELSE Users(m)
      BY <1>1, NoLockAssumption DEF Users, Inv, TypeOK
    <2>2. QED
      BY <1>1, <1>2, <2>1 DEF Inv, TypeOK, Counted
  <1>8. Owned'
    BY <1>1, NoThreadAssumption DEF Inv, TypeOK, Owned
  <1>9. QED
    BY <1>3, <1>5, <1>6, <1>7, <1>8 DEF Inv

LEMMA StepInv == Inv /\ [Next]_vars => Inv'
  <1> SUFFICES ASSUME Inv, [Next]_vars PROVE Inv'
    OBVIOUS
  <1>1. ASSUME NEW t \in Threads, Acquire(t) \/ Unlock(t) PROVE Inv'
    <2>1. mine[t] \in Locks
      BY <1>1 DEF Acquire, Unlock, Goto, Inv, Referenced
    <2>2. TypeOK' /\ Referenced' /\ Entered' /\ Owned'
      BY <1>1, <2>1, NoThreadAssumption
      DEF Acquire, Unlock, Goto, Inv, TypeOK, Referenced, Entered, Owned
    <2>3. Counted'
      BY <1>1, CountsKept DEF Acquire, Unlock, Inv
    <2>4. QED
      BY <2>2, <2>3 DEF Inv
  <1>2. CASE UNCHANGED vars
    BY <1>2, CountsKept DEF vars, Inv, TypeOK, Referenced, Entered, Owned
  <1>3. QED
    BY <1>1, <1>2, ReferenceInv, DereferenceInv DEF Next

-----------------------------------------------------------------------------
\* The map, the reference counts and the mutexes stay consistent.
THEOREM Invariance == Spec => []Inv
  <1>1. Init => Inv
    BY InitInv
  <1>2. Inv /\ [Next]_vars => Inv'
    BY StepInv
  <1>3. QED
    BY <1>1, <1>2, PTL DEF Spec

\* Counts stay natural numbers and every handler is at a place of lockDomain: the
\* decrement at service.go:125 never goes below zero.
THEOREM TypeCorrect == Spec => []TypeOK
  <1>1. Inv => TypeOK
    BY DEF Inv
  <1>2. QED
    BY <1>1, Invariance, PTL

\* Two handlers are never inside the critical section of one domain id, although
\* the lock record of an id is dropped and created again over time.
THEOREM Exclusion == Spec => []MutualExclusion
  <1>1. Inv => MutualExclusion
    BY DEF Inv, Referenced, Owned, MutualExclusion
  <1>2. QED
    BY <1>1, Invariance, PTL

\* mutationLocks holds an entry exactly while somebody uses the id.
THEOREM NothingLeaks == Spec => []NoLeak
  <1>1. Inv => NoLeak
    BY NoLockAssumption DEF Inv, Referenced, Entered, NoLeak
  <1>2. QED
    BY <1>1, Invariance, PTL

-----------------------------------------------------------------------------
(* Refinement of KeyedMutex.                                                   *)

Insides == [k \in Keys |-> Inside(k)]

\* One step of DomainLock takes or releases one mutex, or none.
LEMMA MutexStep == Inv /\ [Next]_vars => [Abstract!Next]_Insides
  <1> SUFFICES ASSUME Inv, [Next]_vars, Insides' # Insides PROVE Abstract!Next
    OBVIOUS
  <1> USE DEF Goto, Inv, TypeOK, Insides, Inside
  <1>1. ASSUME NEW t \in Threads, NEW k \in Keys, NEW l \in Locks, Reference(t, k, l)
        PROVE  FALSE
    BY <1>1 DEF Reference
  <1>2. ASSUME NEW t \in Threads, Dereference(t) PROVE FALSE
    BY <1>2 DEF Dereference, DropReference
  <1>3. ASSUME NEW t \in Threads, Acquire(t) PROVE Abstract!Lock(t, key[t])
    <2>1. mine[t] \in Locks /\ table[key[t]] = mine[t] /\ owner[mine[t]] = NoThread
      BY <1>3 DEF Acquire, Referenced
    <2>2. Inside(key[t]) = {}
      BY <2>1, NoThreadAssumption DEF Referenced, Owned
    <2>3. ASSUME NEW k \in Keys
          PROVE  Inside(k)' = IF k = key[t] THEN {t} ELSE Inside(k)
      BY <1>3, <2>2 DEF Acquire
    <2>4. Insides' = [Insides EXCEPT ![key[t]] = {t}]
      <3> HIDE DEF Inside
      <3>1. QED
        BY <2>3
    <2>5. QED
      BY <2>2, <2>4 DEF Abstract!Lock
  <1>4. ASSUME NEW t \in Threads, Unlock(t) PROVE Abstract!Unlock(t, key[t])
    <2>1. \A u \in Threads : pc[u] = "holding" /\ key[u] = key[t] => u = t
      BY <1>4 DEF Unlock, Referenced, Owned
    <2>2. Inside(key[t]) = {t}
      BY <1>4, <2>1 DEF Unlock
    <2>3. ASSUME NEW k \in Keys
          PROVE  Inside(k)' = IF k = key[t] THEN {} ELSE Inside(k)
      BY <1>4, <2>2 DEF Unlock
    <2>4. Insides' = [Insides EXCEPT ![key[t]] = {}]
      <3> HIDE DEF Inside
      <3>1. QED
        BY <2>3
    <2>5. QED
      BY <2>2, <2>4 DEF Abstract!Unlock
  <1>5. CASE UNCHANGED vars
    <2>1. \A k \in Keys : Inside(k)' = Inside(k)
      BY <1>5 DEF vars
    <2>2. QED
      <3> HIDE DEF Inside
      <3>1. QED
        BY <2>1
  <1>6. key \in [Threads -> Keys]
    OBVIOUS
  <1> HIDE DEF Goto, Inv, TypeOK, Insides, Inside
  <1>7. QED
    BY <1>1, <1>2, <1>3, <1>4, <1>5, <1>6 DEF Next, Abstract!Next

\* The reference-counted locks implement one mutex per domain id.
THEOREM Refinement == Spec => ImplementsKeyedMutex
  <1>1. Init => Abstract!Init
    BY DEF Init, Abstract!Init, Inside
  <1>2. Inv /\ [Next]_vars => [Abstract!Next]_Insides
    BY MutexStep
  <1>3. QED
    BY <1>1, <1>2, Invariance, PTL
    DEF Spec, ImplementsKeyedMutex, Abstract!Spec, Insides

=============================================================================

