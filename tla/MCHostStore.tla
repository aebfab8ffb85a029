------------------------------ MODULE MCHostStore ------------------------------
(***************************************************************************)
(* Instances of HostStore for TLC.                                         *)
(***************************************************************************)
EXTENDS HostStore, TLC

\* A negative ttl, and one that needs TtlBits + 1 bits; the default is an
\* ordinary one.
MCTtls == {-1, 9}

\* Goroutines of the admin server are interchangeable.
Symmetry == Permutations(Clients)

=============================================================================
