--------------------------------- MODULE MCAcl ---------------------------------
(* The instance of Acl that TLC checks: a, d and b in one VNI, e and g in another, *)
(* a, d and e on one SUT, b and g on the other.                                    *)
EXTENDS Acl

a == <<1, 1>>
d == <<1, 2>>
e == <<1, 3>>
b == <<2, 1>>
g == <<2, 2>>
Conn(x, y, proto) == [orig |-> x, resp |-> y, proto |-> proto, id |-> 1]
SomeConns == {Conn(a, b, "udp"), Conn(b, a, "udp"), Conn(d, a, "udp"), Conn(g, e, "tcp")}
AllEps == {a, b, d, e, g}
VniByIdx == [x \in AllEps |-> IF x \in {a, b, d} THEN 200 ELSE 201]
OneSep == {a}

===============================================================================
