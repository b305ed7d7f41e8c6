-------------------------------- MODULE Dhcpd --------------------------------
(***************************************************************************)
(* The DHCP server of the soft AP (lwip/port/dhcpd.c), the stations that   *)
(* use it and the radio link between them.                                 *)
(*                                                                         *)
(* The server is the code's: a table of leases that never expire and the   *)
(* list of declined addresses.  It runs in the TCP/IP thread, so that each *)
(* packet is handled in one step.                                          *)
(*                                                                         *)
(* The stations and the link are external, and modelled from the packets   *)
(* the code accepts: the packets of one station arrive in order, any may   *)
(* be lost, a station sends again what is not answered, and it may leave   *)
(* with packets of its own still waiting at the server.  A station only    *)
(* takes replies to its present exchange (xid): "fresh" marks the packets  *)
(* that belong to it.                                                      *)
(***************************************************************************)
EXTENDS Naturals, Sequences, FiniteSets

CONSTANTS
    Clients,       \* the stations
    NoMac,         \* the all-zero chaddr of an empty lease
    Stations,      \* CFG_STA_NUM: stations associated at a time
    MaxLeases,     \* DHCPD_MAX_LEASES
    NumAddrs,      \* addresses from server_config.start to server_config.end
    DeclineMax,    \* DECLINE_IP_MAX
    NetifBound,    \* lwIP's udp_bind sets netif_idx of UdpPcb
    Foreign,       \* addresses that hosts unknown to the server use
    MaxFlight      \* bound: packets on their way to the server

ASSUME DhcpdAssumption ==
    /\ NoMac \notin Clients
    /\ Stations \in Nat /\ MaxLeases \in Nat /\ NumAddrs \in Nat
    /\ DeclineMax \in Nat /\ MaxFlight \in Nat /\ NetifBound \in BOOLEAN
    /\ Foreign \subseteq 1..NumAddrs

VARIABLES
    leases,     \* leases: chaddr, yiaddr and the DELETED flag
    declined,   \* decline_ip
    cl,         \* what each station is doing
    ip,         \* the address it asks for, uses or remembers; 0 if none
    up,         \* its packets on their way to the server
    down        \* the reply on its way to it; a newer reply replaces it

server == <<leases, declined>>
station == <<cl, ip, up, down>>
vars == <<server, station>>

Slots == 1..MaxLeases
Addrs == 1..NumAddrs
Empty == [mac |-> NoMac, ip |-> 0, del |-> FALSE]
NoReply == [t |-> "none", ip |-> 0]
Packet(t, a) == [t |-> t, ip |-> a, fresh |-> TRUE]

Init ==
    /\ leases = [i \in Slots |-> Empty]
    /\ declined = [d \in 1..DeclineMax |-> 0]
    /\ cl = [c \in Clients |-> "away"]
    /\ ip = [c \in Clients |-> 0]
    /\ up = [c \in Clients |-> <<>>]
    /\ down = [c \in Clients |-> NoReply]

-----------------------------------------------------------------------------
(* Searches over the tables                                                *)

\* DHCPD_FindLeaseByChaddr returns lease i.
FindLeaseByChaddr(i, c) ==
    /\ leases[i].mac = c
    /\ \A j \in Slots : j < i => leases[j].mac # c
HasLease(c) == \E i \in Slots : leases[i].mac = c

InDeclined(a) == \E d \in 1..DeclineMax : declined[d] = a
FindDeclined(d, a) == declined[d] = a /\ \A e \in 1..DeclineMax : e < d => declined[e] # a

\* A bug for FindAddress: the address of a deleted lease counts as free.
FindAddressOfDeleted(a) ==
    LET unused == {x \in Addrs : \A i \in Slots : leases[i].del \/ leases[i].ip # x}
    IN \/ a \in unused /\ \A x \in unused : a <= x
       \/ unused = {} /\ a = 0

\* DHCPD_FindAddress returns a: the first address in no lease, deleted ones
\* included, nor in the ARP table, which the server only sees when its socket
\* is bound to an interface; 0 if there is none.
FindAddress(a) ==
    \E arp \in IF NetifBound THEN SUBSET Foreign ELSE {{}} :
        LET unused == {x \in Addrs : x \notin arp /\ \A i \in Slots : leases[i].ip # x}
        IN \/ a \in unused /\ \A x \in unused : a <= x
           \/ unused = {} /\ a = 0

\* A bug for Fillable: the last lease is taken over, deleted or not.
FillableLast(tab, i) ==
    \/ /\ tab[i] = [Empty EXCEPT !.ip = tab[i].ip]
       /\ \A j \in Slots : j < i => tab[j].del \/ tab[j].mac # NoMac
    \/ i = MaxLeases /\ \A j \in Slots : tab[j].del \/ tab[j].mac # NoMac

\* The lease discover fills in table tab: the first empty one, otherwise the
\* last deleted one.
Fillable(tab, i) ==
    \/ /\ tab[i] = [Empty EXCEPT !.ip = tab[i].ip]
       /\ \A j \in Slots : j < i => tab[j].del \/ tab[j].mac # NoMac
    \/ /\ tab[i].del
       /\ \A j \in Slots : /\ tab[j].del \/ tab[j].mac # NoMac
                           /\ j > i => ~tab[j].del

-----------------------------------------------------------------------------
(* Server                                                                  *)

\* What a station waits for; it takes no other reply.
Wants == [away |-> {}, selecting |-> {"offer"}, requesting |-> {"ack", "nak"},
          bound |-> {"nak"}]

Reply(c, t, a) ==
    down' = IF Head(up[c]).fresh /\ t \in Wants[cl[c]]
            THEN [down EXCEPT ![c] = [t |-> t, ip |-> a]] ELSE down

Take(c, types) ==
    /\ up[c] # <<>>
    /\ Head(up[c]).t \in types
    /\ up' = [up EXCEPT ![c] = Tail(@)]

\* A client whose address was not declined keeps its lease, deleted or not.
OfferKnown(c) ==
    /\ Take(c, {"discover"})
    /\ \E i \in Slots :
          /\ FindLeaseByChaddr(i, c)
          /\ ~InDeclined(leases[i].ip)
          /\ Reply(c, "offer", leases[i].ip)
    /\ UNCHANGED <<leases, declined, cl, ip>>

\* A bug for Fill: the address behind the one found.
FillOneOff(c, tab, i, a) ==
    /\ Fillable(tab, i)
    /\ leases' = [tab EXCEPT ![i].mac = c, ![i].ip = a + 1]
    /\ Reply(c, "offer", a + 1)

\* Any other is given the address found before its declined lease was wiped.
\* The DELETED flag of the lease it takes over stays until it is acknowledged.
Fill(c, tab, i, a) ==
    /\ Fillable(tab, i)
    /\ leases' = [tab EXCEPT ![i].mac = c, ![i].ip = a]
    /\ Reply(c, "offer", a)

OfferNew(c) ==
    /\ Take(c, {"discover"})
    /\ ~HasLease(c)
    /\ \E i \in Slots, a \in 0..NumAddrs : FindAddress(a) /\ Fill(c, leases, i, a)
    /\ UNCHANGED <<declined, cl, ip>>

\* A bug for OfferInstead: the declined lease is not wiped.
OfferInsteadKept(c) ==
    /\ Take(c, {"discover"})
    /\ \E i \in Slots, d \in 1..DeclineMax :
          /\ FindLeaseByChaddr(i, c)
          /\ FindDeclined(d, leases[i].ip)
          /\ declined' = [declined EXCEPT ![d] = 0]
          /\ \E j \in Slots, a \in 0..NumAddrs : FindAddress(a) /\ Fill(c, leases, j, a)
    /\ UNCHANGED <<cl, ip>>

OfferInstead(c) ==
    /\ Take(c, {"discover"})
    /\ \E i \in Slots, d \in 1..DeclineMax :
          /\ FindLeaseByChaddr(i, c)
          /\ FindDeclined(d, leases[i].ip)
          /\ declined' = [declined EXCEPT ![d] = 0]
          /\ \E j \in Slots, a \in 0..NumAddrs :
                FindAddress(a) /\ Fill(c, [leases EXCEPT ![i] = Empty], j, a)
    /\ UNCHANGED <<cl, ip>>

\* No lease is empty or deleted: discover returns -1, and UDP_Receive sends
\* payload_out as the last packet left it.  That reply has been on its way to
\* its station ever since, which takes it once, if at all.
Repeat(c) ==
    /\ Take(c, {"discover"})
    /\ ~HasLease(c) /\ ~\E i \in Slots : Fillable(leases, i)
    /\ UNCHANGED <<server, cl, ip, down>>

\* request: acknowledged are the address of the lease, and a renewal of it (or
\* of a lease that has none: the missing option reads as 0).
Granted(i, m) ==
    \/ m.t = "request" /\ m.ip = leases[i].ip
    \/ m.t = "renew" /\ leases[i].ip \in {0, m.ip}

\* A bug for Ack: the lease of a station that came back stays deleted.
AckKeepsDeleted(c) ==
    /\ Take(c, {"request", "renew"})
    /\ \E i \in Slots :
          /\ FindLeaseByChaddr(i, c)
          /\ Granted(i, Head(up[c]))
          /\ Reply(c, "ack", leases[i].ip)
    /\ UNCHANGED <<leases, declined, cl, ip>>

Ack(c) ==
    /\ Take(c, {"request", "renew"})
    /\ \E i \in Slots :
          /\ FindLeaseByChaddr(i, c)
          /\ Granted(i, Head(up[c]))
          /\ leases' = [leases EXCEPT ![i].del = FALSE]
          /\ Reply(c, "ack", leases[i].ip)
    /\ UNCHANGED <<declined, cl, ip>>

Nak(c) ==
    /\ Take(c, {"request", "renew"})
    /\ \A i \in Slots : FindLeaseByChaddr(i, c) => ~Granted(i, Head(up[c]))
    /\ Reply(c, "nak", 0)
    /\ UNCHANGED <<leases, declined, cl, ip>>

\* _dhcpd_delete_ipaddr_by_macaddr
Deleted(c) ==
    [i \in Slots |-> IF FindLeaseByChaddr(i, c) THEN [leases[i] EXCEPT !.del = TRUE]
                     ELSE leases[i]]

ReceiveRelease(c) ==
    /\ Take(c, {"release"})
    /\ leases' = Deleted(c)
    /\ UNCHANGED <<declined, cl, ip, down>>

ReceiveDecline(c) ==
    /\ Take(c, {"decline"})
    /\ IF ~InDeclined(Head(up[c]).ip) /\ InDeclined(0)
       THEN \E d \in 1..DeclineMax :
               FindDeclined(d, 0) /\ declined' = [declined EXCEPT ![d] = Head(up[c]).ip]
       ELSE UNCHANGED declined
    /\ UNCHANGED <<leases, cl, ip, down>>

\* The AP is stopped and started.  stop_dhcpd_daemon only frees a socket that
\* is bound to the interface; otherwise the server just keeps running.
Restart ==
    /\ NetifBound
    /\ \A c \in Clients : cl[c] = "away"
    /\ leases' = [i \in Slots |-> IF leases[i].mac # NoMac
                                 THEN [leases[i] EXCEPT !.del = TRUE] ELSE leases[i]]
    /\ declined' = [d \in 1..DeclineMax |-> 0]
    /\ up' = [c \in Clients |-> <<>>]
    /\ UNCHANGED <<cl, ip, down>>

-----------------------------------------------------------------------------
(* Stations (external)                                                     *)

\* When an exchange ends its packets on their way will not be answered; in
\* any new state the replies to the last one are ignored.
Stale(q) == [k \in DOMAIN q |-> [q[k] EXCEPT !.fresh = FALSE]]
Ignore(c) == down' = [down EXCEPT ![c] = NoReply]

Move(c, s, a) == cl' = [cl EXCEPT ![c] = s] /\ ip' = [ip EXCEPT ![c] = a]
Send(q, c, m) ==
    /\ Cardinality(UNION {{d} \X DOMAIN up[d] : d \in Clients}) < MaxFlight
    /\ up' = [up EXCEPT ![c] = Append(q, m)]

\* A station that remembers an address may ask for it at once.
Join(c) ==
    /\ cl[c] = "away"
    /\ Cardinality({d \in Clients : cl[d] # "away"}) < Stations
    /\ \/ Move(c, "selecting", 0)
       \/ ip[c] # 0 /\ Move(c, "requesting", ip[c])
    /\ UNCHANGED <<server, up, down>>

\* The MAC drops the station and has its lease deleted
\* (dhcpd_delete_ipaddr_by_macaddr); the station remembers the address it used.
Leave(c) ==
    /\ cl[c] # "away"
    /\ Move(c, "away", IF cl[c] = "bound" THEN ip[c] ELSE 0)
    /\ leases' = Deleted(c)
    /\ up' = [up EXCEPT ![c] = Stale(@)] /\ Ignore(c)
    /\ UNCHANGED declined

\* The first packet of an exchange, or one more.
Ask(c) ==
    /\ \/ cl[c] = "selecting" /\ Send(up[c], c, Packet("discover", 0))
       \/ cl[c] = "requesting" /\ Send(up[c], c, Packet("request", ip[c]))
    /\ UNCHANGED <<server, cl, ip, down>>

TakeOffer(c) ==
    /\ cl[c] = "selecting" /\ down[c].t = "offer" /\ down[c].ip # 0
    /\ Move(c, "requesting", down[c].ip)
    /\ Ignore(c)
    /\ UNCHANGED <<server, up>>

TakeAck(c) ==
    /\ cl[c] = "requesting" /\ down[c].t = "ack"
    /\ Move(c, "bound", down[c].ip)
    /\ Ignore(c)
    /\ UNCHANGED <<server, up>>

\* The address proves to be in use: the station declines it and starts over.
Decline(c) ==
    /\ cl[c] = "requesting" /\ down[c].t = "ack" /\ down[c].ip \in Foreign
    /\ Move(c, "selecting", 0)
    /\ Send(Stale(up[c]), c, [Packet("decline", down[c].ip) EXCEPT !.fresh = FALSE])
    /\ Ignore(c)
    /\ UNCHANGED server

Renew(c) ==
    /\ cl[c] = "bound"
    /\ Send(Stale(up[c]), c, Packet("renew", ip[c])) /\ Ignore(c)
    /\ UNCHANGED <<leases, declined, cl, ip>>

Release(c) ==
    /\ cl[c] = "bound"
    /\ Move(c, "selecting", 0)
    /\ Send(Stale(up[c]), c, [Packet("release", 0) EXCEPT !.fresh = FALSE])
    /\ Ignore(c)
    /\ UNCHANGED server

\* A NAK, or no answer in time: the station starts over.
StartOver(c) ==
    /\ cl[c] \in {"requesting", "bound"}
    /\ Move(c, "selecting", 0)
    /\ up' = [up EXCEPT ![c] = Stale(@)] /\ Ignore(c)
    /\ UNCHANGED server

\* A packet to the server is lost.  A reply is lost by never being taken.
Lose(c) ==
    /\ up[c] # <<>>
    /\ up' = [up EXCEPT ![c] = Tail(@)]
    /\ UNCHANGED <<server, cl, ip, down>>

Serve(c) ==
    \/ OfferKnown(c) \/ OfferNew(c) \/ OfferInstead(c) \/ Repeat(c)
    \/ Ack(c) \/ Nak(c) \/ ReceiveRelease(c) \/ ReceiveDecline(c)

Act(c) ==
    \/ Join(c) \/ Leave(c) \/ Ask(c) \/ TakeOffer(c) \/ TakeAck(c)
    \/ Decline(c) \/ Renew(c) \/ Release(c) \/ StartOver(c)

Next == Restart \/ \E c \in Clients : Serve(c) \/ Act(c) \/ Lose(c)

Spec == Init /\ [][Next]_vars

-----------------------------------------------------------------------------
(* Properties                                                              *)

Lease == [mac : Clients \cup {NoMac}, ip : 0..NumAddrs, del : BOOLEAN]
Packets == [t : {"discover", "request", "renew", "release", "decline"},
            ip : 0..NumAddrs, fresh : BOOLEAN]
Replies == [t : {"none", "offer", "ack", "nak"}, ip : 0..NumAddrs]

\* Types of the tables, the packets and the stations.
TypeOK ==
    /\ leases \in [Slots -> Lease]
    /\ declined \in [1..DeclineMax -> 0..NumAddrs]
    /\ cl \in [Clients -> {"away", "selecting", "requesting", "bound"}]
    /\ ip \in [Clients -> 0..NumAddrs]
    /\ up \in [Clients -> Seq(Packets)]
    /\ down \in [Clients -> Replies]

\* The table never holds two leases of one station, nor one address in two
\* leases, even deleted ones: the searches take the first they find, and a
\* deleted lease comes back to life when its station asks for it again.
LeasesDistinct ==
    \A i, j \in Slots :
        i # j => /\ leases[i].mac # NoMac => leases[i].mac # leases[j].mac
                 /\ leases[i].ip # 0 => leases[i].ip # leases[j].ip

\* Two associated stations never use one address, whatever packets were lost,
\* sent again, overtaken by a departure or answered with a stale buffer, and
\* although leases are taken over from stations that left.
NoSharedAddress ==
    \A c, d \in Clients :
        (cl[c] = "bound" /\ cl[d] = "bound" /\ c # d) => ip[c] # ip[d]

\* A station that uses an address has a lease for it that is not deleted, so
\* nobody can be given the lease.
Holds(c, a) == \E i \in Slots : leases[i] = [mac |-> c, ip |-> a, del |-> FALSE]
BoundHolds == \A c \in Clients : cl[c] = "bound" => Holds(c, ip[c])

\* The server never refuses a renewal to a station that is using its address.
RenewalGranted == \A c \in Clients : cl[c] = "bound" => down[c].t # "nak"
=============================================================================
