------------------------------ MODULE DomainLock ------------------------------
(***************************************************************************)
(* internal/services/domain/service.go, lockDomain: a mutex per domain id, *)
(* created on first use and dropped from the map with its last reference.  *)
(* mutationMu guards the map and the reference counts; lock.mu is taken    *)
(* and released outside of it, so the map, the counts and the mutexes      *)
(* change in separate steps.                                               *)
(***************************************************************************)
EXTENDS Integers, FiniteSets

CONSTANTS
  Threads,    \* request handlers
  Keys,       \* domain ids
  Locks,      \* pool of domainMutationLock records, reused when unreferenced
  NoThread, NoLock

ASSUME NoThreadAssumption == NoThread \notin Threads
ASSUME NoLockAssumption   == NoLock \notin Locks
ASSUME ThreadsAssumption  == IsFiniteSet(Threads)

VARIABLES
  table,   \* mutationLocks: key -> lock
  refs,    \* lock.refs
  owner,   \* the thread inside lock.mu
  pc,      \* idle, waiting (for lock.mu), holding, leaving (lock.mu released)
  key,     \* the id a thread called lockDomain with
  mine     \* the lock it got from the map

vars == <<table, refs, owner, pc, key, mine>>

TypeOK ==
  /\ table \in [Keys -> Locks \cup {NoLock}]
  /\ refs  \in [Locks -> Nat]
  /\ owner \in [Locks -> Threads \cup {NoThread}]
  /\ pc    \in [Threads -> {"idle", "waiting", "holding", "leaving"}]
  /\ key   \in [Threads -> Keys]
  /\ mine  \in [Threads -> Locks \cup {NoLock}]

Init ==
  /\ table = [k \in Keys |-> NoLock]
  /\ refs  = [l \in Locks |-> 0]
  /\ owner = [l \in Locks |-> NoThread]
  /\ pc    = [t \in Threads |-> "idle"]
  /\ key   \in {[t \in Threads |-> k] : k \in Keys}
  /\ mine  = [t \in Threads |-> NoLock]

Goto(t, from, to) ==
  /\ pc[t] = from
  /\ pc' = [pc EXCEPT ![t] = to]

\* The record in the map, or a new one: unreferenced and in no entry.
LockFor(k, l) ==
  IF table[k] # NoLock THEN l = table[k]
  ELSE /\ refs[l] = 0
       /\ \A t \in Threads : mine[t] # l

\* Mutant: only the creation of a lock is counted.
ReferenceUncounted(t, k, l) ==
  /\ Goto(t, "idle", "waiting")
  /\ LockFor(k, l)
  /\ table' = [table EXCEPT ![k] = l]
  /\ refs'  = [refs EXCEPT ![l] = IF table[k] = NoLock THEN @ + 1 ELSE @]
  /\ key'   = [key EXCEPT ![t] = k]
  /\ mine'  = [mine EXCEPT ![t] = l]
  /\ UNCHANGED owner

\* The section of mutationMu that gets or creates the lock and counts it.
Reference(t, k, l) ==
  /\ Goto(t, "idle", "waiting")
  /\ LockFor(k, l)
  /\ table' = [table EXCEPT ![k] = l]
  /\ refs'  = [refs EXCEPT ![l] = @ + 1]
  /\ key'   = [key EXCEPT ![t] = k]
  /\ mine'  = [mine EXCEPT ![t] = l]
  /\ UNCHANGED owner

\* Mutant: TryLock, and the handler gives up.
AcquireOrLeave(t) ==
  \/ /\ Goto(t, "waiting", "holding")
     /\ owner[mine[t]] = NoThread
     /\ owner' = [owner EXCEPT ![mine[t]] = t]
     /\ UNCHANGED <<table, refs, key, mine>>
  \/ /\ Goto(t, "waiting", "leaving")
     /\ owner[mine[t]] # NoThread
     /\ UNCHANGED <<table, refs, owner, key, mine>>

\* lock.mu.Lock()
Acquire(t) ==
  /\ Goto(t, "waiting", "holding")
  /\ owner[mine[t]] = NoThread
  /\ owner' = [owner EXCEPT ![mine[t]] = t]
  /\ UNCHANGED <<table, refs, key, mine>>

\* The returned function: lock.mu.Unlock() ...
Unlock(t) ==
  /\ Goto(t, "holding", "leaving")
  /\ owner' = [owner EXCEPT ![mine[t]] = NoThread]
  /\ UNCHANGED <<table, refs, key, mine>>

\* ... then, under mutationMu, give the reference back.
DropReference(t, gone) ==
  /\ Goto(t, "leaving", "idle")
  /\ refs'  = [refs EXCEPT ![mine[t]] = @ - 1]
  /\ table' = IF gone THEN [table EXCEPT ![key[t]] = NoLock] ELSE table
  /\ mine'  = [mine EXCEPT ![t] = NoLock]
  /\ UNCHANGED <<owner, key>>

\* Mutants: the entry is deleted whoever still refers to the lock, or kept.
DereferenceEagerly(t) == DropReference(t, TRUE)
DereferenceNever(t)   == DropReference(t, FALSE)

Dereference(t) == DropReference(t, refs[mine[t]] = 1)

Next ==
  \/ \E t \in Threads, k \in Keys, l \in Locks : Reference(t, k, l)
  \/ \E t \in Threads : Acquire(t) \/ Unlock(t) \/ Dereference(t)

Spec == Init /\ [][Next]_vars

\* A handler finishes and gives the lock back; sync.Mutex serves every waiter in
\* the end (its starvation mode hands the lock to the longest waiter).
FairSpec ==
  /\ Spec
  /\ \A t \in Threads : WF_vars(Unlock(t) \/ Dereference(t)) /\ SF_vars(Acquire(t))

-----------------------------------------------------------------------------
\* Two handlers never work on one domain at a time.  This needs the map: a lock
\* dropped too early lets a newcomer create a second one for the same id.
MutualExclusion ==
  \A t1, t2 \in Threads :
    /\ pc[t1] = "holding" /\ pc[t2] = "holding"
    /\ key[t1] = key[t2]
    => t1 = t2

\* The map holds exactly the locks somebody refers to: nothing is dropped early
\* and nothing is left behind when the last handler is gone.
NoLeak ==
  \A k \in Keys :
    table[k] # NoLock <=> \E t \in Threads : pc[t] # "idle" /\ key[t] = k

\* Every handler that asks for a domain's lock gets it (no deadlock between
\* mutationMu and lock.mu, no waiter left behind on a dropped lock).
EveryoneIsServed == \A t \in Threads : pc[t] = "waiting" ~> pc[t] = "holding"

\* The handlers that have returned from lockDomain, whatever record they locked.
Inside(k) == {t \in Threads : pc[t] = "holding" /\ key[t] = k}

Abstract == INSTANCE KeyedMutex WITH inside <- [k \in Keys |-> Inside(k)]

\* The counted locks behave as one mutex per domain id: a handler enters only when
\* nobody is inside, by whichever record the id led to (service.go:111-131).
ImplementsKeyedMutex == Abstract!Spec

=============================================================================
