------------------------------ MODULE KeyedMutex ------------------------------
(***************************************************************************)
(* What lockDomain promises: one mutex per domain id.  The domain service  *)
(* holds it across the whole of UpdateOrigin, ReplaceRoutes and            *)
(* DeleteDomain.  DomainLock implements this specification.                *)
(***************************************************************************)
CONSTANTS Threads, Keys

VARIABLE inside   \* key -> the threads that hold its mutex

Init == inside = [k \in Keys |-> {}]

Lock(t, k) ==
  /\ inside[k] = {}
  /\ inside' = [inside EXCEPT ![k] = {t}]

Unlock(t, k) ==
  /\ inside[k] = {t}
  /\ inside' = [inside EXCEPT ![k] = {}]

Next == \E t \in Threads, k \in Keys : Lock(t, k) \/ Unlock(t, k)

Spec == Init /\ [][Next]_inside

=============================================================================
