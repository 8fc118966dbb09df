------------------------------ MODULE MCRetire ------------------------------
(***************************************************************************)
(* Retire for TLC: one follower.                                           *)
(***************************************************************************)
EXTENDS Retire

\* Everything an operator can do, with frames that overtake the log; and the two ways in which
\* the engines stay in step, with messages published.
Mixed == {
    [ends |-> {"cancel", "complete"}, suspends |-> TRUE, publishes |-> FALSE, overtakes |-> TRUE],
    [ends |-> {"cancel"}, suspends |-> FALSE, publishes |-> TRUE, overtakes |-> TRUE],
    [ends |-> {"complete"}, suspends |-> FALSE, publishes |-> TRUE, overtakes |-> FALSE]}

\* Everything at once.
Free == {[ends |-> {"cancel", "complete"}, suspends |-> TRUE, publishes |-> TRUE,
          overtakes |-> TRUE]}

\* Instances are cancelled and messages published, and nothing arrives out of order.
Publishing == {[ends |-> {"cancel"}, suspends |-> FALSE, publishes |-> TRUE,
                overtakes |-> FALSE]}

\* An operator suspends instances on the owner.
Suspending == {[ends |-> {"cancel"}, suspends |-> TRUE, publishes |-> FALSE,
                overtakes |-> FALSE]}

\* A digest arrives before the completion it reports.
Overtaking == {[ends |-> {"complete"}, suspends |-> FALSE, publishes |-> FALSE,
                overtakes |-> TRUE]}
=============================================================================
