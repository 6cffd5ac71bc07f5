----------------------------- MODULE MCEndPoint -----------------------------
(***************************************************************************)
(* Instances of EndPoint for TLC.                                          *)
(***************************************************************************)
EXTENDS EndPoint

Peer == [family |-> "UNIX", addr |-> <<>>, port |-> 0, flow |-> 0,
         scope |-> 0, path |-> <<>>]

\* Addresses of two bytes; ports whose two bytes differ; IPv6 peers that differ
\* in their scope only; names of one and of two characters.
MCAddresses ==
  {[Peer EXCEPT !.family = "INET", !.addr = <<a, b>>, !.port = p] :
     a \in 0..1, b \in 0..1, p \in 1..2}
  \cup {[Peer EXCEPT !.family = "INET6", !.addr = <<1, 1>>, !.port = 1,
                     !.scope = s] : s \in 0..1}
  \cup {[Peer EXCEPT !.path = n] : n \in {<<"x">>, <<"x", "y">>}}

MCChars == {"x", "y", "z", Nul}
MCGarbage == {<<>>, <<"z">>, <<Nul, "z">>}
=============================================================================
