------------------------------- MODULE MCFeed -------------------------------
(* A small instance of Feed for TLC.                                        *)
EXTENDS Feed, TLC

CONSTANTS q1, q2, p1, p2, none
=============================================================================
