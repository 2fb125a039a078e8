----------------------------- MODULE TunnelSlots -----------------------------
(***************************************************************************)
(* What the process supervisor promises, without its threads: every domain *)
(* has one slot.  A slot is claimed before a cloudflared process is        *)
(* spawned in it, holds at most one process, and is given back only when   *)
(* that process is gone.  Supervisor implements this specification.        *)
(***************************************************************************)
CONSTANT Domains

VARIABLE slot

Init == slot = [d \in Domains |-> "free"]

Move(d, from, to) ==
  /\ slot[d] = from
  /\ slot' = [slot EXCEPT ![d] = to]

Claim(d)   == Move(d, "free", "down")
Launch(d)  == Move(d, "down", "up")
Die(d)     == Move(d, "up", "down")
Release(d) == Move(d, "down", "free")

Next == \E d \in Domains : Claim(d) \/ Launch(d) \/ Die(d) \/ Release(d)

Spec == Init /\ [][Next]_slot

=============================================================================
