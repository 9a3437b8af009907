---------------------------- MODULE MCMembership ----------------------------
(***************************************************************************)
(* Instances of Membership for TLC.                                        *)
(***************************************************************************)
EXTENDS Membership, TLC

CONSTANTS n1, n2

FourSlots == 1 .. 4
=============================================================================
