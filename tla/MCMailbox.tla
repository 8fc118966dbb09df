------------------------------ MODULE MCMailbox ------------------------------
(***************************************************************************)
(* Mailbox for TLC: three tasks, so that one may push while another drops  *)
(* the handle it was cloned from and a third waits for its reply.          *)
(***************************************************************************)
EXTENDS Mailbox
==============================================================================
