-------------------------- MODULE MCVerifyDeadline --------------------------
(* VerifyDeadline on small instances.  Null is an integer so that TLC can     *)
(* compare it with a deadline.  Two delays: the setting changes, and a later  *)
(* failure may expire first.                                                 *)
EXTENDS VerifyDeadline

Null       == -1
MCDelays   == {1, 2}
MCOneDelay == {1}
=============================================================================
