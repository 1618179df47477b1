------------------------------ MODULE MCGuestWork ------------------------------
(* Two guests; the one way is allowed, the other allowed or denied. *)
EXTENDS GuestWork

SomePlans == {[allow |-> <<<<"vm1", "vm2">>, <<"vm2", "vm1">>>>, deny |-> <<>>],
              [allow |-> <<>>, deny |-> <<<<"vm1", "vm2">>>>]}

===============================================================================
