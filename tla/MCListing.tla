------------------------------- MODULE MCListing -------------------------------
(* Instances of Listing for TLC. *)
EXTENDS Listing

\* Hostnames are only compared.
HostSymmetry == Permutations(Hosts)

=============================================================================
