------------------------------ MODULE DhcpServer ------------------------------
(***************************************************************************)
(* The DHCP server of the access point: class DhcpServer                   *)
(* (LwipDhcpServer.cpp).                                                   *)
(*                                                                         *)
(* The pool is a list of nodes, one for each client, in the order of their *)
(* addresses.  handle_dhcp() is called in SYS for every message: it looks  *)
(* up or chooses the client's address (dhcps_client_update()) before it    *)
(* looks at what kind of message it is, and answers at once.  Leases do    *)
(* not expire: dhcps_coarse_tmr() is not called, so no node is ever        *)
(* OFFLINE.                                                                *)
(*                                                                         *)
(* An address is the number of its last two octets in the order of the     *)
(* host, IPADDR_ANY is 0.  The code adds in that order and compares in the *)
(* order of the network, where the last octet counts most.                 *)
(*                                                                         *)
(* The clients are not part of the repository: their steps are those of    *)
(* the DHCP protocol, over a link that keeps the order of messages and may *)
(* lose answers.                                                           *)
(***************************************************************************)
EXTENDS Naturals, Sequences, FiniteSets, SequencesExt, FiniteSetsExt

ANY == 0

CONSTANTS
    DhcpMacs,        \* the clients
    DhcpNet,         \* the values of an octet: 256
    DhcpLocals,      \* addresses the access point is given
    DHCPS_MAX_LEASE,
    DhcpHalf,        \* 0x80 of init_dhcps_lease()
    DhcpLeases,      \* ranges <<start, end>> the sketch asks for
    DhcpStatics,     \* clients that get static leases
    DhcpClaims       \* addresses that clients claim to have

ASSUME DhcpAssumption ==
    /\ DhcpNet \in Nat /\ DhcpHalf \in Nat /\ DHCPS_MAX_LEASE \in Nat \ {0}
    /\ DHCPS_MAX_LEASE < DhcpHalf /\ DhcpHalf + DHCPS_MAX_LEASE < DhcpNet
    /\ DhcpLocals \subseteq Nat /\ \A a \in DhcpLocals : a >= DhcpNet
    /\ DhcpLeases \subseteq Nat \X Nat
    /\ DhcpStatics \subseteq DhcpMacs
    /\ DhcpClaims \subseteq Nat \ {ANY}

VARIABLES
    dhcpRunning,  \* pcb_dhcps # nullptr
    dhcpLocal,    \* the address of the access point, in _netif
    dhcpLease,    \* lease: enable, start, end
    dhcpPool,     \* plist: sequence of nodes [mac, ip]
    dhcpOffer,    \* [DhcpMacs -> address]: the offer the client answers next
    dhcpHeld,     \* [DhcpMacs -> address]: acknowledged, and used by the client
    dhcpStray     \* history: what brings addresses out of order has happened

dhcpVars == <<dhcpRunning, dhcpLocal, dhcpLease, dhcpPool, dhcpOffer, dhcpHeld, dhcpStray>>

DhcpInit ==
    /\ dhcpRunning = FALSE
    /\ dhcpLocal \in DhcpLocals
    /\ dhcpLease = [enable |-> FALSE, start |-> 0, end |-> 0]
    /\ dhcpPool = <<>>
    /\ dhcpOffer = [m \in DhcpMacs |-> ANY]
    /\ dhcpHeld = [m \in DhcpMacs |-> ANY]
    /\ dhcpStray = FALSE

DhcpInRange(a) == a \in dhcpLease.start..dhcpLease.end

-----------------------------------------------------------------------------
(* The pool                                                                *)

DhcpIndex(pool, m) == {i \in DOMAIN pool : pool[i].mac = m}

(* a < b of two addresses in the order of the network.                     *)
DhcpBefore(a, b) ==
    \/ a % DhcpNet < b % DhcpNet
    \/ a % DhcpNet = b % DhcpNet /\ a < b

(* node_insert_to_list(): before the first node with a greater address.    *)
DhcpInsert(pool, node) ==
    LET greater == {i \in DOMAIN pool : DhcpBefore(node.ip, pool[i].ip)}
    IN  IF greater = {} THEN Append(pool, node) ELSE InsertAt(pool, Min(greater), node)

(* node_remove_from_list(), for the node of a client.                      *)
DhcpRemove(pool, m) ==
    IF DhcpIndex(pool, m) = {} THEN pool ELSE RemoveAt(pool, Min(DhcpIndex(pool, m)))

(* dhcps_client_leave(): the node that has both the client and the address *)
(* it gives back.                                                          *)
DhcpLeave(pool, m, ip) ==
    IF \E i \in DOMAIN pool : pool[i] = [mac |-> m, ip |-> ip] THEN DhcpRemove(pool, m) ELSE pool

(* One too far.                                                            *)
DhcpFirstGap_Next(pool, m) ==
    LET limit == IF DhcpIndex(pool, m) = {} THEN Len(pool) ELSE Min(DhcpIndex(pool, m)) - 1
    IN  dhcpLease.start + 1 + Max({k \in 0..limit :
            \A i \in 1..k : pool[i].ip = dhcpLease.start + i - 1})

(* The loop of dhcps_client_update() for a client without an address: the  *)
(* first address that the nodes before the client's own leave free; after  *)
(* the last octet 255 it goes on in the next net.                          *)
DhcpFirstGap(pool, m) ==
    LET limit == IF DhcpIndex(pool, m) = {} THEN Len(pool) ELSE Min(DhcpIndex(pool, m)) - 1
    IN  dhcpLease.start + Max({k \in 0..limit :
            \A i \in 1..k : pool[i].ip = dhcpLease.start + i - 1})

(* An address that another client has is not refused.                      *)
DhcpClientUpdate_Taken(pool, m, ip) ==
    LET known == DhcpIndex(pool, m) # {}
        addr  == IF ip = ANY THEN DhcpFirstGap(pool, m) ELSE ip
        mine  == \E i \in DOMAIN pool : pool[i] = [mac |-> m, ip |-> ip]
    IN  IF mine THEN [pool |-> pool, addr |-> ip, renew |-> TRUE]
        ELSE IF ~known /\ DhcpBefore(dhcpLease.end, addr)
        THEN [pool |-> pool, addr |-> ANY, renew |-> FALSE]
        ELSE [pool |-> DhcpInsert(DhcpRemove(pool, m), [mac |-> m, ip |-> addr]),
              addr |-> addr, renew |-> FALSE]

(* dhcps_client_update(): the new pool, the address (ANY: none) and the    *)
(* flag renew.  An address that the client claims is not looked at unless  *)
(* it is new, and then only if it is too high; of several nodes with it    *)
(* the last one counts.                                                    *)
DhcpClientUpdate(pool, m, ip) ==
    LET known == DhcpIndex(pool, m) # {}
        byIp  == {i \in DOMAIN pool : pool[i].ip = ip}
        addr  == IF ip = ANY THEN DhcpFirstGap(pool, m) ELSE ip
        Result(p, a, r) == [pool |-> p, addr |-> a, renew |-> r]
    IN  IF ip # ANY /\ byIp # {}
        THEN IF pool[Max(byIp)].mac = m
             THEN Result(pool, ip, TRUE)
             ELSE Result(pool, ANY, FALSE)
        ELSE IF ~known /\ DhcpBefore(dhcpLease.end, addr)
        THEN Result(pool, ANY, FALSE)
        ELSE Result(DhcpInsert(DhcpRemove(pool, m), [mac |-> m, ip |-> addr]), addr, FALSE)

(* parse_options(): what is answered to a message of that type with the    *)
(* option DHCP_OPTION_REQ_IPADDR = reqip (ANY: without the option).        *)
DhcpAnswer(type, reqip, up) ==
    CASE type = "DISCOVER" -> "OFFER"
      [] type = "REQUEST"  ->
           IF reqip # ANY THEN (IF reqip = up.addr THEN "ACK" ELSE "NAK")
           ELSE IF up.renew THEN "ACK" ELSE "NAK"
      [] type = "RELEASE"  -> "RELEASE"
      [] type = "DECLINE"  -> "IDLE"

(* handle_dhcp() and parse_msg(): the pool afterwards and the answer.      *)
DhcpHandle(m, type, ciaddr, reqip) ==
    LET up  == DhcpClientUpdate(dhcpPool, m, ciaddr)
        ret == DhcpAnswer(type, reqip, up)
    IN  [pool |-> IF ret = "RELEASE"
                  THEN DhcpLeave(up.pool, m, ciaddr) ELSE up.pool,
         ret  |-> ret,
         addr |-> up.addr]

-----------------------------------------------------------------------------
(* The sketch                                                              *)

(* What set_dhcps_lease() and init_dhcps_lease() ask of a range: it leaves *)
(* out the server's address, is in its net, and not too long (end - start  *)
(* is unsigned).                                                           *)
DhcpFits(start, end) ==
    /\ ~(start <= dhcpLocal /\ dhcpLocal <= end)
    /\ start \div DhcpNet = dhcpLocal \div DhcpNet
    /\ end \div DhcpNet = dhcpLocal \div DhcpNet
    /\ start <= end /\ end - start <= DHCPS_MAX_LEASE

(* The range changes although the pool has nodes.                          *)
DhcpMoved == dhcpPool # <<>> /\ \E f \in {"start", "end"} : dhcpLease'[f] # dhcpLease[f]

(* wifi_set_ip_info() of softAPConfig(), between the end and the begin.    *)
DhcpSetLocal ==
    /\ ~dhcpRunning
    /\ dhcpLocal' \in DhcpLocals \ {dhcpLocal}
    /\ UNCHANGED <<dhcpRunning, dhcpLease, dhcpPool, dhcpOffer, dhcpHeld, dhcpStray>>

(* set_dhcps_lease(), with a range or to go back to the default one.       *)
DhcpSetLease ==
    /\ ~dhcpRunning
    /\ \/ \E l \in DhcpLeases :
             /\ DhcpFits(l[1], l[2])
             /\ dhcpLease' = [enable |-> TRUE, start |-> l[1], end |-> l[2]]
       \/ dhcpLease' = [dhcpLease EXCEPT !.enable = FALSE]
    /\ dhcpStray' = (dhcpStray \/ DhcpMoved)
    /\ UNCHANGED <<dhcpRunning, dhcpLocal, dhcpPool, dhcpOffer, dhcpHeld>>

(* init_dhcps_lease(): without a range of the sketch that fits, one beside *)
(* the server's address.                                                   *)
DhcpInitLease ==
    LET first == IF dhcpLocal % DhcpNet >= DhcpHalf THEN dhcpLocal - DHCPS_MAX_LEASE
                                                    ELSE dhcpLocal + 1
    IN  IF dhcpLease.enable /\ DhcpFits(dhcpLease.start, dhcpLease.end) THEN dhcpLease
        ELSE [enable |-> FALSE, start |-> first, end |-> first + DHCPS_MAX_LEASE - 1]

(* begin(), also of a server that runs; nothing changes in the pool.       *)
(* Without memory for a pcb the server is stopped.                         *)
DhcpBegin ==
    /\ \/ dhcpRunning' = TRUE /\ dhcpLease' = DhcpInitLease
       \/ dhcpRunning' = FALSE /\ UNCHANGED dhcpLease
    /\ dhcpStray' = (dhcpStray \/ DhcpMoved)
    /\ UNCHANGED <<dhcpLocal, dhcpPool, dhcpOffer, dhcpHeld>>

(* end(): the pool is emptied.  No address is acknowledged any more; those *)
(* the clients go on using are among the ones they claim later.            *)
DhcpEnd ==
    /\ dhcpRunning
    /\ dhcpRunning' = FALSE
    /\ dhcpPool' = <<>>
    /\ dhcpOffer' = [m \in DhcpMacs |-> ANY]
    /\ dhcpHeld' = [m \in DhcpMacs |-> ANY]
    /\ dhcpStray' = FALSE
    /\ UNCHANGED <<dhcpLocal, dhcpLease>>

(* The pool leaves an address free before one that is taken.               *)
DhcpHasGap == \E i \in DOMAIN dhcpPool : dhcpPool[i].ip # dhcpLease.start + i - 1

(* add_dhcps_lease(), whether the server runs or not: the address is start *)
(* plus the number of nodes.                                               *)
DhcpAddLease(m) ==
    LET addr == dhcpLease.start + Len(dhcpPool)
    IN  /\ m \in DhcpStatics
        /\ DhcpIndex(dhcpPool, m) = {}
        /\ ~DhcpBefore(dhcpLease.end, addr)
        /\ dhcpPool' = DhcpInsert(dhcpPool, [mac |-> m, ip |-> addr])
        /\ dhcpStray' = (dhcpStray \/ DhcpHasGap)
        /\ UNCHANGED <<dhcpRunning, dhcpLocal, dhcpLease, dhcpOffer, dhcpHeld>>

-----------------------------------------------------------------------------
(* The clients: each step is a message, its handling, and the answer       *)
(* unless it is lost.                                                      *)

DhcpSend(m, type, ciaddr, reqip) ==
    /\ dhcpRunning
    /\ LET done == DhcpHandle(m, type, ciaddr, reqip) IN
         /\ dhcpPool' = done.pool
         /\ dhcpStray' = \/ dhcpStray
                         \/ ciaddr # ANY /\ ~DhcpInRange(ciaddr) /\ done.addr # ANY
         /\ \E lost \in BOOLEAN :
              /\ dhcpOffer' = [dhcpOffer EXCEPT ![m] =
                    IF done.ret = "OFFER" /\ ~lost THEN done.addr ELSE ANY]
              /\ dhcpHeld' = [dhcpHeld EXCEPT ![m] =
                    IF done.ret = "ACK" /\ ~lost THEN done.addr
                    ELSE IF ciaddr # ANY /\ type = "REQUEST" /\ lost THEN @
                    ELSE ANY]
    /\ UNCHANGED <<dhcpRunning, dhcpLocal, dhcpLease>>

(* The addresses a client may say it has: the one it was acknowledged, or  *)
(* any, such as one from before a restart with another address or range.   *)
DhcpOwn(m) == IF dhcpHeld[m] = ANY THEN DhcpClaims ELSE {dhcpHeld[m]}

(* A client looks for a server, and stops using an address it may have.    *)
DhcpDiscover(m) == DhcpSend(m, "DISCOVER", ANY, ANY)

(* It takes the offer, or asks for an address it had before.               *)
DhcpSelect(m)   == dhcpOffer[m] # ANY /\ DhcpSend(m, "REQUEST", ANY, dhcpOffer[m])
DhcpReboot(m)   == \E a \in DhcpClaims : DhcpSend(m, "REQUEST", ANY, a)

(* It renews its address, gives it back or refuses it.                     *)
DhcpRenew(m)    == \E a \in DhcpOwn(m) : DhcpSend(m, "REQUEST", a, ANY)
DhcpRelease(m)  == \E a \in DhcpOwn(m) : DhcpSend(m, "RELEASE", a, ANY)
DhcpDecline(m)  == dhcpHeld[m] # ANY /\ DhcpSend(m, "DECLINE", ANY, dhcpHeld[m])

DhcpNext ==
    \/ DhcpSetLocal
    \/ DhcpSetLease
    \/ DhcpBegin
    \/ DhcpEnd
    \/ \E m \in DhcpMacs :
         \/ DhcpAddLease(m)
         \/ DhcpDiscover(m)
         \/ DhcpSelect(m)
         \/ DhcpReboot(m)
         \/ DhcpRenew(m)
         \/ DhcpRelease(m)
         \/ DhcpDecline(m)

DhcpSpec == DhcpInit /\ [][DhcpNext]_dhcpVars

-----------------------------------------------------------------------------
(* Properties                                                              *)

(* The conditions under which the addresses of the pool are in order.      *)
(* None of these has happened since the pool was last emptied: the server  *)
(* took a claim of an address outside the range, a static lease was added  *)
(* to a pool with a gap, the range changed under nodes.  And the range     *)
(* does not end at the last octet 255, after which a full one goes on.     *)
DhcpOrderly == ~dhcpStray /\ dhcpLease.end % DhcpNet < DhcpNet - 1

DhcpUnique ==
    \A i, j \in DOMAIN dhcpPool :
       /\ i < j => dhcpPool[i].ip < dhcpPool[j].ip
       /\ DhcpInRange(dhcpPool[i].ip)
       /\ dhcpRunning => dhcpPool[i].ip # dhcpLocal

(* No client has two nodes.                                                *)
DhcpOneNode ==
    \A i, j \in DOMAIN dhcpPool : i < j => dhcpPool[i].mac # dhcpPool[j].mac

(* An acknowledged address stays its client's: as long as the client uses  *)
(* it, the pool has it for this client, so that no other client is given   *)
(* it, although every message of the client may move its node              *)
(* (dhcps_client_update() runs for all of them, also when the answer is a  *)
(* NAK or lost).                                                           *)
DhcpHeldKept ==
    \A m \in DhcpMacs : dhcpHeld[m] # ANY =>
       \E i \in DOMAIN dhcpPool : dhcpPool[i] = [mac |-> m, ip |-> dhcpHeld[m]]

(* Whatever clients claim and the sketch does, a client has one node, and  *)
(* an address that was acknowledged to it keeps its node.  Under the       *)
(* conditions of DhcpOrderly no address is given twice, all are of the     *)
(* range and none is the server's, and the list is sorted, which the       *)
(* search for a gap relies on (dhcps_client_update(),                      *)
(* dhcps_client_leave(), add_dhcps_lease(), init_dhcps_lease()).  Without  *)
(* them the code does give an address twice: a known client's claim is not *)
(* compared with the range at all, and the search ends at the first node   *)
(* that is not the next address.                                           *)
DhcpNoConflict == DhcpOneNode /\ DhcpHeldKept /\ (DhcpOrderly => DhcpUnique)

(* A server with a free address has one for everybody: a client that asks  *)
(* is offered no address only if all are taken, whatever is in the pool.   *)
(* Under the conditions of DhcpOrderly the offer stands: were the client   *)
(* to ask again, or to request it now, it would be the same.               *)
DhcpServes ==
    dhcpRunning => \A m \in DhcpMacs :
       LET offer == DhcpHandle(m, "DISCOVER", ANY, ANY)
           again == DhcpClientUpdate(offer.pool, m, ANY)
       IN  IF offer.addr = ANY
           THEN \A a \in dhcpLease.start..dhcpLease.end :
                   \E i \in DOMAIN dhcpPool : dhcpPool[i].ip = a
           ELSE DhcpOrderly => again.addr = offer.addr
=============================================================================
