------------------------------ MODULE MCDhcpd ------------------------------
(* A small instance of Dhcpd for TLC.                                        *)
EXTENDS Dhcpd, TLC

\* Nothing tells one station from another.
Symmetry == Permutations(Clients)
===========================================================================
