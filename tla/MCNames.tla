------------------------------- MODULE MCNames -------------------------------
(***************************************************************************)
(* Names and addresses: lookups, the mDNS responder and the DHCP server.   *)
(* They share no state and are checked in one instance, one at a time:     *)
(* part says which of them a behavior is about, the others stay in their   *)
(* initial states.                                                         *)
(***************************************************************************)
EXTENDS DnsLookup, MdnsResponder, DhcpServer

VARIABLE part

namesVars == <<part, vars, mdnsVars, dhcpVars>>

NamesInit ==
    /\ part \in {"dns", "mdns", "dhcp"}
    /\ Init /\ MdnsInit /\ DhcpInit

NamesNext ==
    /\ UNCHANGED part
    /\ \/ part = "dns"  /\ Next     /\ UNCHANGED <<mdnsVars, dhcpVars>>
       \/ part = "mdns" /\ MdnsNext /\ UNCHANGED <<vars, dhcpVars>>
       \/ part = "dhcp" /\ DhcpNext /\ UNCHANGED <<vars, mdnsVars>>

(* The fairness of a part asks for nothing in its initial state.           *)
NamesSpec ==
    /\ NamesInit /\ [][NamesNext]_namesVars
    /\ DnsFairness /\ MdnsFairness

(* Nets of eight addresses, of which two are the server's at times: a      *)
(* range that ends the net and fits only one of them, one that is no       *)
(* range, one too long and one of another net.  The default ranges are     *)
(* 10..11 and 12..13.                                                      *)
DhcpRanges == {<<14, 15>>, <<12, 10>>, <<10, 13>>, <<18, 19>>}
=============================================================================
