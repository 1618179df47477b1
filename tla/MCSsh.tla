--------------------------------- MODULE MCSsh ---------------------------------
(* The instances of Ssh that TLC checks. *)
EXTENDS Ssh

CONSTANTS n1, n2

\* A host and one of its guests.
TwoNodes == {n1, n2}

===============================================================================
