----------------------------- MODULE MCIfcChat ------------------------------
(***************************************************************************)
(* Three messages of two users and two windows: two messages of a user can *)
(* wait, one of them behind one of the other user, and a window can be     *)
(* closed and opened again.                                                *)
(***************************************************************************)
EXTENDS IfcChat, TLC

CONSTANTS u, v

MCUsers == {u, v}

Symmetry == Permutations(MCUsers)
=============================================================================
