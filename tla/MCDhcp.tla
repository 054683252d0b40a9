------------------------------- MODULE MCDhcp -------------------------------
(* Dhcp with two servers that offer an address each; one also sends an     *)
(* OFFER without an address, and one without its server identifier.        *)
EXTENDS Dhcp

CONSTANTS s1, s2, a1, a2

SomeOffers == {<<s1, a1>>, <<s2, a2>>, <<s2, NoAddress>>, <<NoAddress, a1>>}
=============================================================================
