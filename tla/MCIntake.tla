------------------------------ MODULE MCIntake ------------------------------
(* Three requests for two accounts, in every way a form may be good or bad.  *)
EXTENDS Intake, TLC

CONSTANTS h1, h2, r1, r2, r3, n1, n2, n3

Good == {[body |-> "fits", typed |-> h1, named |-> h2, owner |-> NoHandle],
         [body |-> "fits", typed |-> NoHandle, named |-> NoHandle, owner |-> h1],
         [body |-> "fits", typed |-> NoHandle, named |-> h2, owner |-> h1]}

Bad == {[body |-> b, typed |-> h1, named |-> NoHandle, owner |-> NoHandle]
          : b \in {"malformed", "oversized", "empty"}}
       \cup {[body |-> "fits", typed |-> NoHandle, named |-> NoHandle, owner |-> NoHandle]}

SomeForms == Good \cup Bad

\* Nothing tells the requests apart but what they bring, nor the names.
IntakeSymmetry == Permutations(Requests) \cup Permutations(Names)
=============================================================================
