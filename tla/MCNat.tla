---------------------------------- MODULE MCNat ----------------------------------
(* The instance of Nat that TLC checks: a client and two servers.                  *)
EXTENDS Nat

Args(kind, tool, ips, svrs, par) ==
  [kind |-> kind, tool |-> tool, ips |-> ips, svrs |-> svrs, par |-> par]

\* One address and the whole range, more servers than there are, and file copies
\* that are done or refused.
SomeCalls == {Args("snat", "telnet", 2, 1, 1), Args("snat", "ping", 1, 3, 1),
              Args("dnat", "ping", 1, 1, 1),
              Args("snat", "tftp", 1, 2, 1), Args("snat", "ftp", 1, 1, 2)}

\* The second server is of another locality than the client's.
OneDep == <<2>>

===============================================================================
