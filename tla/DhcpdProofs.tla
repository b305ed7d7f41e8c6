---------------------------- MODULE DhcpdProofs ----------------------------
(***************************************************************************)
(* Proofs about Dhcpd, for any number of stations, leases, addresses and   *)
(* packets on their way.                                                   *)
(*                                                                         *)
(* BoundHolds is not inductive: a packet of a station that is still on its *)
(* way may undo the lease after the station was given it.  The inductive   *)
(* invariant IInv adds what the queues may hold: the fresh packets of a    *)
(* station fit its state, and once its request was acknowledged nothing    *)
(* but requests and renewals of its own address is left behind it.         *)
(***************************************************************************)
EXTENDS Dhcpd, TLAPS

\* The fresh packets of a station belong to what it is doing; behind a
\* request there are only repetitions of it.
FreshFits(c) ==
    \A k \in DOMAIN up[c] : up[c][k].fresh =>
        /\ cl[c] # "away"
        /\ cl[c] = "selecting" => up[c][k].t = "discover"
        /\ cl[c] = "requesting" =>
              \/ up[c][k].t = "discover"
              \/ \A l \in k..Len(up[c]) : up[c][l].t = "request" /\ up[c][l].ip = ip[c]

\* A reply on its way is one the station waits for, and fits its address; no
\* NAK is on its way to a station that uses its address.
ReplyFits(c) ==
    /\ down[c].t = "offer" => cl[c] = "selecting"
    /\ down[c].t = "ack" => cl[c] = "requesting" /\ down[c].ip = ip[c]
    /\ down[c].t = "nak" => cl[c] = "requesting"
    /\ cl[c] \in {"requesting", "bound"} => ip[c] # 0

\* A station that was acknowledged has its lease, and nothing on its way to
\* the server would take it away.
Settled(c) == cl[c] = "bound" \/ down[c].t = "ack"
SettledHolds(c) ==
    Settled(c) =>
        /\ Holds(c, ip[c])
        /\ \A k \in DOMAIN up[c] : up[c][k].t \in {"request", "renew"} /\ up[c][k].ip = ip[c]

Exchanges == \A c \in Clients : FreshFits(c) /\ ReplyFits(c) /\ SettledHolds(c)

IInv == TypeOK /\ LeasesDistinct /\ Exchanges

-----------------------------------------------------------------------------
(* Queues                                                                   *)

\* Taking the head off a queue shifts the others by one.
LEMMA TailFacts ==
    ASSUME NEW S, NEW q \in Seq(S), q # <<>>
    PROVE  /\ Tail(q) \in Seq(S)
           /\ Len(Tail(q)) = Len(q) - 1 /\ Len(q) \in Nat /\ Len(q) > 0
           /\ \A k \in 1..Len(Tail(q)) : Tail(q)[k] = q[k + 1]
           /\ Head(q) = q[1] /\ q[1] \in S
  OBVIOUS

\* A stale queue holds the same packets, none of them fresh.
LEMMA StaleFacts ==
    ASSUME NEW q \in Seq(Packets)
    PROVE  /\ Stale(q) \in Seq(Packets)
           /\ Len(Stale(q)) = Len(q)
           /\ \A k \in DOMAIN Stale(q) :
                  /\ k \in DOMAIN q
                  /\ ~Stale(q)[k].fresh
                  /\ Stale(q)[k].t = q[k].t /\ Stale(q)[k].ip = q[k].ip
  <1>1. q \in [1..Len(q) -> Packets] /\ Len(q) \in Nat /\ DOMAIN q = 1..Len(q)
    OBVIOUS
  <1>2. Stale(q) \in [1..Len(q) -> Packets]
    BY <1>1 DEF Stale, Packets
  <1>3. Stale(q) \in Seq(Packets) /\ Len(Stale(q)) = Len(q)
    BY <1>1, <1>2
  <1>. QED
    BY <1>1, <1>3 DEF Stale, Packets

\* The packets of the stations are packets.
LEMMA PacketType ==
    ASSUME NEW a \in 0..NumAddrs
    PROVE  /\ \A t \in {"discover", "request", "renew"} : Packet(t, a) \in Packets
           /\ \A t \in {"release", "decline"} :
                  [Packet(t, a) EXCEPT !.fresh = FALSE] \in Packets
  BY DEF Packet, Packets

-----------------------------------------------------------------------------
(* Types                                                                    *)

\* The initial state is well typed.
LEMMA TypeInit == Init => TypeOK
  <1>1. Empty \in Lease /\ NoReply \in Replies
    BY DhcpdAssumption DEF DhcpdAssumption, Empty, Lease, NoReply, Replies
  <1>2. <<>> \in Seq(Packets)
    OBVIOUS
  <1>. QED
    BY <1>1, <1>2, DhcpdAssumption DEF DhcpdAssumption, Init, TypeOK

\* A reply keeps the type of what is on its way.
LEMMA ReplyType ==
    ASSUME TypeOK, NEW c \in Clients, NEW t \in {"offer", "ack", "nak"},
           NEW a \in 0..NumAddrs, Reply(c, t, a)
    PROVE  down' \in [Clients -> Replies]
  BY DEF TypeOK, Reply, Replies

\* Taking a packet keeps the type of the queues.
LEMMA TakeType ==
    ASSUME TypeOK, NEW c \in Clients, NEW types, Take(c, types)
    PROVE  /\ up' \in [Clients -> Seq(Packets)]
           /\ up[c] \in Seq(Packets) /\ up[c] # <<>> /\ Head(up[c]) \in Packets
           /\ Head(up[c]).t \in types
           /\ up'[c] = Tail(up[c])
           /\ \A e \in Clients : e # c => up'[e] = up[e]
  <1>1. up[c] \in Seq(Packets) /\ up[c] # <<>>
    BY DEF TypeOK, Take
  <1>2. Tail(up[c]) \in Seq(Packets) /\ Head(up[c]) \in Packets
    BY <1>1, TailFacts
  <1>. QED
    BY <1>1, <1>2 DEF TypeOK, Take

\* Filling a lease keeps the type of the table.
LEMMA FillType ==
    ASSUME TypeOK, NEW c \in Clients, NEW tab \in [Slots -> Lease], NEW i \in Slots,
           NEW a \in 0..NumAddrs, Fill(c, tab, i, a)
    PROVE  leases' \in [Slots -> Lease] /\ down' \in [Clients -> Replies]
  <1>1. Reply(c, "offer", a)
    BY DEF Fill
  <1>. QED
    BY <1>1, ReplyType DEF Fill, Lease

\* Marking a lease deleted keeps the type of the table.
LEMMA DeletedType ==
    ASSUME TypeOK, NEW c \in Clients
    PROVE  Deleted(c) \in [Slots -> Lease]
  BY DEF TypeOK, Deleted, Lease

\* Each packet the server handles keeps the types.
LEMMA TypeServe ==
    ASSUME TypeOK, NEW c \in Clients, Serve(c)
    PROVE  TypeOK'
  <1>1. CASE OfferKnown(c)
    <2>1. Take(c, {"discover"}) BY <1>1 DEF OfferKnown
    <2>2. PICK i \in Slots : Reply(c, "offer", leases[i].ip) BY <1>1 DEF OfferKnown
    <2>3. leases[i].ip \in 0..NumAddrs BY DEF TypeOK, Lease
    <2>4. down' \in [Clients -> Replies] BY <2>2, <2>3, ReplyType
    <2>. QED BY <1>1, <2>1, <2>4, TakeType DEF OfferKnown, TypeOK
  <1>2. CASE OfferNew(c)
    <2>1. Take(c, {"discover"}) BY <1>2 DEF OfferNew
    <2>2. PICK i \in Slots, a \in 0..NumAddrs : Fill(c, leases, i, a)
      BY <1>2 DEF OfferNew
    <2>3. leases \in [Slots -> Lease] BY DEF TypeOK
    <2>4. leases' \in [Slots -> Lease] /\ down' \in [Clients -> Replies]
      BY <2>2, <2>3, FillType
    <2>. QED BY <1>2, <2>1, <2>4, TakeType DEF OfferNew, TypeOK
  <1>3. CASE OfferInstead(c)
    <2>1. Take(c, {"discover"}) BY <1>3 DEF OfferInstead
    <2>2. PICK i \in Slots, d \in 1..DeclineMax :
            /\ declined' = [declined EXCEPT ![d] = 0]
            /\ \E j \in Slots, a \in 0..NumAddrs :
                  FindAddress(a) /\ Fill(c, [leases EXCEPT ![i] = Empty], j, a)
      BY <1>3 DEF OfferInstead
    <2>3. PICK j \in Slots, a \in 0..NumAddrs : Fill(c, [leases EXCEPT ![i] = Empty], j, a)
      BY <2>2
    <2>4. [leases EXCEPT ![i] = Empty] \in [Slots -> Lease]
      BY DhcpdAssumption DEF DhcpdAssumption, TypeOK, Empty, Lease
    <2>5. leases' \in [Slots -> Lease] /\ down' \in [Clients -> Replies]
      BY <2>3, <2>4, FillType
    <2>6. declined' \in [1..DeclineMax -> 0..NumAddrs]
      BY <2>2, DhcpdAssumption DEF DhcpdAssumption, TypeOK
    <2>. QED BY <1>3, <2>1, <2>5, <2>6, TakeType DEF OfferInstead, TypeOK
  <1>4. CASE Repeat(c)
    <2>1. Take(c, {"discover"}) BY <1>4 DEF Repeat
    <2>. QED BY <1>4, <2>1, TakeType DEF Repeat, TypeOK, server
  <1>5. CASE Ack(c)
    <2>1. Take(c, {"request", "renew"}) BY <1>5 DEF Ack
    <2>2. PICK i \in Slots : /\ leases' = [leases EXCEPT ![i].del = FALSE]
                             /\ Reply(c, "ack", leases[i].ip)
      BY <1>5 DEF Ack
    <2>3. leases[i].ip \in 0..NumAddrs /\ leases' \in [Slots -> Lease]
      BY <2>2 DEF TypeOK, Lease
    <2>4. down' \in [Clients -> Replies] BY <2>2, <2>3, ReplyType
    <2>. QED BY <1>5, <2>1, <2>3, <2>4, TakeType DEF Ack, TypeOK
  <1>6. CASE Nak(c)
    <2>1. Take(c, {"request", "renew"}) /\ Reply(c, "nak", 0) BY <1>6 DEF Nak
    <2>2. down' \in [Clients -> Replies]
      BY <2>1, ReplyType, DhcpdAssumption DEF DhcpdAssumption
    <2>. QED BY <1>6, <2>1, <2>2, TakeType DEF Nak, TypeOK
  <1>7. CASE ReceiveRelease(c)
    <2>1. Take(c, {"release"}) BY <1>7 DEF ReceiveRelease
    <2>. QED BY <1>7, <2>1, TakeType, DeletedType DEF ReceiveRelease, TypeOK
  <1>8. CASE ReceiveDecline(c)
    <2>1. Take(c, {"decline"}) BY <1>8 DEF ReceiveDecline
    <2>2. Head(up[c]).ip \in 0..NumAddrs BY <2>1, TakeType DEF Packets
    <2>3. declined' \in [1..DeclineMax -> 0..NumAddrs]
      BY <1>8, <2>2 DEF ReceiveDecline, TypeOK
    <2>. QED BY <1>8, <2>1, <2>3, TakeType DEF ReceiveDecline, TypeOK
  <1>. QED
    BY <1>1, <1>2, <1>3, <1>4, <1>5, <1>6, <1>7, <1>8 DEF Serve

\* Changes of state and packets sent keep the types.
LEMMA MoveType ==
    ASSUME TypeOK, NEW c \in Clients, NEW a \in 0..NumAddrs,
           NEW s \in {"away", "selecting", "requesting", "bound"}, Move(c, s, a)
    PROVE  /\ cl' \in [Clients -> {"away", "selecting", "requesting", "bound"}]
           /\ ip' \in [Clients -> 0..NumAddrs]
  BY DEF TypeOK, Move

LEMMA SendType ==
    ASSUME TypeOK, NEW c \in Clients, NEW q \in Seq(Packets), NEW m \in Packets,
           Send(q, c, m)
    PROVE  up' \in [Clients -> Seq(Packets)]
  <1>1. Append(q, m) \in Seq(Packets)
    OBVIOUS
  <1>. QED
    BY <1>1 DEF TypeOK, Send

\* Queues going stale keep their type, and so do replies that are ignored.
LEMMA StaleType ==
    ASSUME TypeOK, NEW c \in Clients
    PROVE  /\ Stale(up[c]) \in Seq(Packets)
           /\ [up EXCEPT ![c] = Stale(@)] \in [Clients -> Seq(Packets)]
           /\ [down EXCEPT ![c] = NoReply] \in [Clients -> Replies]
  <1>1. up[c] \in Seq(Packets) /\ NoReply \in Replies
    BY DhcpdAssumption DEF DhcpdAssumption, TypeOK, NoReply, Replies
  <1>. QED
    BY <1>1, StaleFacts DEF TypeOK

\* Each step of a station keeps the types.
LEMMA TypeAct ==
    ASSUME TypeOK, NEW c \in Clients, Act(c)
    PROVE  TypeOK'
  <1>0. /\ ip[c] \in 0..NumAddrs /\ 0 \in 0..NumAddrs
        /\ down[c].ip \in 0..NumAddrs /\ up[c] \in Seq(Packets)
    BY DhcpdAssumption DEF DhcpdAssumption, TypeOK, Replies
  <1>1. CASE Join(c)
    <2>1. \/ Move(c, "selecting", 0) \/ Move(c, "requesting", ip[c])
      BY <1>1 DEF Join
    <2>. QED BY <1>0, <1>1, <2>1, MoveType DEF Join, TypeOK, server
  <1>2. CASE Leave(c)
    <2>1. \/ Move(c, "away", 0) \/ Move(c, "away", ip[c])
      BY <1>2 DEF Leave
    <2>2. cl' \in [Clients -> {"away", "selecting", "requesting", "bound"}]
          /\ ip' \in [Clients -> 0..NumAddrs]
      BY <1>0, <2>1, MoveType
    <2>. QED BY <1>2, <2>2, DeletedType, StaleType DEF Leave, Ignore, TypeOK
  <1>3. CASE Ask(c)
    <2>1. \/ Send(up[c], c, Packet("discover", 0))
          \/ Send(up[c], c, Packet("request", ip[c]))
      BY <1>3 DEF Ask
    <2>2. up' \in [Clients -> Seq(Packets)]
      BY <1>0, <2>1, PacketType, SendType
    <2>. QED BY <1>3, <2>2 DEF Ask, TypeOK, server
  <1>4. CASE TakeOffer(c)
    <2>1. Move(c, "requesting", down[c].ip) BY <1>4 DEF TakeOffer
    <2>. QED BY <1>0, <1>4, <2>1, MoveType, StaleType DEF TakeOffer, Ignore, TypeOK, server
  <1>5. CASE TakeAck(c)
    <2>1. Move(c, "bound", down[c].ip) BY <1>5 DEF TakeAck
    <2>. QED BY <1>0, <1>5, <2>1, MoveType, StaleType DEF TakeAck, Ignore, TypeOK, server
  <1>6. CASE Decline(c)
    <2>1. Move(c, "selecting", 0) BY <1>6 DEF Decline
    <2>2. Send(Stale(up[c]), c, [Packet("decline", down[c].ip) EXCEPT !.fresh = FALSE])
      BY <1>6 DEF Decline
    <2>3. up' \in [Clients -> Seq(Packets)]
      BY <1>0, <2>2, PacketType, SendType, StaleType
    <2>. QED BY <1>0, <1>6, <2>1, <2>3, MoveType, StaleType DEF Decline, Ignore, TypeOK, server
  <1>7. CASE Renew(c)
    <2>1. Send(Stale(up[c]), c, Packet("renew", ip[c])) BY <1>7 DEF Renew
    <2>2. up' \in [Clients -> Seq(Packets)]
      BY <1>0, <2>1, PacketType, SendType, StaleType
    <2>. QED BY <1>7, <2>2, StaleType DEF Renew, Ignore, TypeOK, server
  <1>8. CASE Release(c)
    <2>1. Move(c, "selecting", 0) BY <1>8 DEF Release
    <2>2. Send(Stale(up[c]), c, [Packet("release", 0) EXCEPT !.fresh = FALSE])
      BY <1>8 DEF Release
    <2>3. up' \in [Clients -> Seq(Packets)]
      BY <1>0, <2>2, PacketType, SendType, StaleType
    <2>. QED BY <1>0, <1>8, <2>1, <2>3, MoveType, StaleType DEF Release, Ignore, TypeOK, server
  <1>9. CASE StartOver(c)
    <2>1. Move(c, "selecting", 0) BY <1>9 DEF StartOver
    <2>. QED BY <1>0, <1>9, <2>1, MoveType, StaleType DEF StartOver, Ignore, TypeOK, server
  <1>. QED
    BY <1>1, <1>2, <1>3, <1>4, <1>5, <1>6, <1>7, <1>8, <1>9 DEF Act

\* The AP starting again and packets lost keep the types, and so does a step
\* that changes nothing.
LEMMA TypeNext == TypeOK /\ [Next]_vars => TypeOK'
  <1>. SUFFICES ASSUME TypeOK, [Next]_vars PROVE TypeOK'
    OBVIOUS
  <1>1. CASE Restart
    <2>1. <<>> \in Seq(Packets) OBVIOUS
    <2>2. leases' \in [Slots -> Lease] BY <1>1 DEF Restart, TypeOK, Lease
    <2>3. declined' \in [1..DeclineMax -> 0..NumAddrs]
      BY <1>1, DhcpdAssumption DEF DhcpdAssumption, Restart
    <2>. QED BY <1>1, <2>1, <2>2, <2>3 DEF Restart, TypeOK
  <1>2. ASSUME NEW c \in Clients, Lose(c) PROVE TypeOK'
    <2>1. up[c] \in Seq(Packets) /\ up[c] # <<>> BY <1>2 DEF TypeOK, Lose
    <2>2. Tail(up[c]) \in Seq(Packets) BY <2>1, TailFacts
    <2>. QED BY <1>2, <2>2 DEF Lose, TypeOK, server
  <1>3. CASE UNCHANGED vars
    BY <1>3 DEF vars, server, station, TypeOK
  <1>. QED
    BY <1>1, <1>2, <1>3, TypeServe, TypeAct DEF Next

\* The types of the tables, the packets and the stations hold for any number
\* of them.
THEOREM TypeCorrect == Spec => []TypeOK
  BY TypeInit, TypeNext, PTL DEF Spec

-----------------------------------------------------------------------------
(* Leases                                                                   *)

\* A table whose stations and addresses are the old ones stays distinct.
LEMMA DistinctKept ==
    ASSUME LeasesDistinct,
           \A i \in Slots : leases'[i].mac = leases[i].mac /\ leases'[i].ip = leases[i].ip
    PROVE  LeasesDistinct'
  BY DEF LeasesDistinct

\* Filling a lease keeps the table distinct when the station has no other
\* and the address is free.
LEMMA FillDistinct ==
    ASSUME TypeOK, LeasesDistinct, NEW c \in Clients, NEW tab \in [Slots -> Lease],
           \A i \in Slots : tab[i] \in {leases[i], Empty} /\ tab[i].mac # c,
           NEW i \in Slots, NEW a \in 0..NumAddrs, FindAddress(a), Fill(c, tab, i, a)
    PROVE  LeasesDistinct'
  <1>1. leases' = [tab EXCEPT ![i].mac = c, ![i].ip = a]
    BY DEF Fill
  <1>2. a # 0 => \A j \in Slots : leases[j].ip # a
    BY DEF FindAddress
  <1>3. leases'[i].mac = c /\ leases'[i].ip = a
    BY <1>1 DEF Lease
  <1>4. \A j \in Slots : j # i => leases'[j] = tab[j]
    BY <1>1
  <1>5. \A j \in Slots : j # i =>
           leases'[j].mac # c /\ (leases'[j].ip # 0 => leases'[j].ip # a)
    BY <1>2, <1>4 DEF Empty
  <1>6. \A j, k \in Slots : (j # i /\ k # i /\ j # k) =>
           /\ leases'[j].mac # NoMac => leases'[j].mac # leases'[k].mac
           /\ leases'[j].ip # 0 => leases'[j].ip # leases'[k].ip
    BY <1>4 DEF LeasesDistinct, Empty
  <1>. QED
    BY <1>3, <1>5, <1>6 DEF LeasesDistinct

\* A station found in the table has that lease and no other.
LEMMA FoundOnly ==
    ASSUME LeasesDistinct, NEW c \in Clients, NEW i \in Slots, leases[i].mac = c
    PROVE  /\ FindLeaseByChaddr(i, c)
           /\ \A j \in Slots : j # i => leases[j].mac # c
  BY DhcpdAssumption DEF DhcpdAssumption, LeasesDistinct, FindLeaseByChaddr, Slots

\* No packet, departure or restart makes two leases alike.
LEMMA DistinctNext == TypeOK /\ LeasesDistinct /\ [Next]_vars => LeasesDistinct'
  <1>. SUFFICES ASSUME TypeOK, LeasesDistinct, [Next]_vars PROVE LeasesDistinct'
    OBVIOUS
  <1>1. CASE UNCHANGED leases
    BY <1>1, DistinctKept
  <1>2. ASSUME NEW c \in Clients, leases' = Deleted(c) PROVE LeasesDistinct'
    BY <1>2, DistinctKept DEF TypeOK, Deleted, Lease
  <1>3. CASE Restart
    BY <1>3, DistinctKept DEF Restart, TypeOK, Lease
  <1>4. ASSUME NEW c \in Clients, Ack(c) PROVE LeasesDistinct'
    <2>1. PICK i \in Slots : leases' = [leases EXCEPT ![i].del = FALSE]
      BY <1>4 DEF Ack
    <2>. QED BY <2>1, DistinctKept DEF TypeOK, Lease
  <1>5. ASSUME NEW c \in Clients, OfferNew(c) PROVE LeasesDistinct'
    <2>1. PICK i \in Slots, a \in 0..NumAddrs : FindAddress(a) /\ Fill(c, leases, i, a)
      BY <1>5 DEF OfferNew
    <2>2. leases \in [Slots -> Lease] /\ \A j \in Slots : leases[j].mac # c
      BY <1>5 DEF OfferNew, HasLease, TypeOK
    <2>. QED BY <2>1, <2>2, FillDistinct
  <1>6. ASSUME NEW c \in Clients, OfferInstead(c) PROVE LeasesDistinct'
    <2>1. PICK i \in Slots :
            /\ FindLeaseByChaddr(i, c)
            /\ \E j \in Slots, a \in 0..NumAddrs :
                  FindAddress(a) /\ Fill(c, [leases EXCEPT ![i] = Empty], j, a)
      BY <1>6 DEF OfferInstead
    <2>2. PICK j \in Slots, a \in 0..NumAddrs :
            FindAddress(a) /\ Fill(c, [leases EXCEPT ![i] = Empty], j, a)
      BY <2>1
    <2> DEFINE tab == [leases EXCEPT ![i] = Empty]
    <2>3. tab \in [Slots -> Lease]
      BY DhcpdAssumption DEF DhcpdAssumption, TypeOK, Empty, Lease
    <2>4. leases[i].mac = c BY <2>1 DEF FindLeaseByChaddr
    <2>5. \A k \in Slots : tab[k] \in {leases[k], Empty} /\ tab[k].mac # c
      BY <2>4, FoundOnly, DhcpdAssumption DEF DhcpdAssumption, TypeOK, Empty
    <2>. HIDE DEF tab
    <2>6. Fill(c, tab, j, a) BY <2>2 DEF tab
    <2>. QED BY <2>2, <2>3, <2>5, <2>6, FillDistinct
  <1>7. ASSUME NEW c \in Clients, Serve(c) PROVE LeasesDistinct'
    BY <1>1, <1>2, <1>4, <1>5, <1>6, <1>7
    DEF Serve, OfferKnown, Repeat, Nak, ReceiveRelease, ReceiveDecline, server
  <1>8. ASSUME NEW c \in Clients, Act(c) \/ Lose(c) PROVE LeasesDistinct'
    BY <1>1, <1>2, <1>8
    DEF Act, Join, Leave, Ask, TakeOffer, TakeAck, Decline, Renew, Release,
        StartOver, Lose, server
  <1>. QED
    BY <1>1, <1>3, <1>7, <1>8 DEF Next, vars, server

\* The leases of the stations stay distinct, deleted or not, for any table.
THEOREM LeasesStayDistinct == Spec => []LeasesDistinct
  <1>1. Init => LeasesDistinct
    BY DEF Init, LeasesDistinct, Empty
  <1>2. TypeOK /\ LeasesDistinct /\ [Next]_vars => LeasesDistinct'
    BY DistinctNext
  <1>. QED
    BY <1>1, <1>2, TypeCorrect, PTL DEF Spec

-----------------------------------------------------------------------------
(* Exchanges                                                                *)

\* What a station has in use is left as it is.
KeepsLease(e) == \A i \in Slots : (leases[i].mac = e /\ ~leases[i].del) => leases'[i] = leases[i]

LEMMA HoldsKept ==
    ASSUME NEW e, NEW a, KeepsLease(e), Holds(e, a)
    PROVE  Holds(e, a)'
  <1>1. PICK i \in Slots : leases[i] = [mac |-> e, ip |-> a, del |-> FALSE]
    BY DEF Holds
  <1>2. leases'[i] = leases[i]
    BY <1>1 DEF KeepsLease
  <1>. QED
    BY <1>1, <1>2 DEF Holds, Slots

\* A station that does nothing keeps its exchange if it keeps its lease.
LEMMA Bystander ==
    ASSUME NEW e \in Clients, FreshFits(e), ReplyFits(e), SettledHolds(e), KeepsLease(e),
           cl'[e] = cl[e], ip'[e] = ip[e], up'[e] = up[e], down'[e] = down[e]
    PROVE  FreshFits(e)' /\ ReplyFits(e)' /\ SettledHolds(e)'
  <1>1. FreshFits(e)'
    BY DEF FreshFits
  <1>2. ReplyFits(e)'
    BY DEF ReplyFits
  <1>3. SettledHolds(e)'
    BY HoldsKept DEF SettledHolds, Settled
  <1>. QED
    BY <1>1, <1>2, <1>3

\* When a packet is taken, what is left still fits the station.
LEMMA TakeFits ==
    ASSUME TypeOK, NEW c \in Clients, up[c] # <<>>, up'[c] = Tail(up[c]),
           cl' = cl, ip' = ip, FreshFits(c)
    PROVE  /\ FreshFits(c)'
           /\ \A k \in DOMAIN up'[c] : k + 1 \in DOMAIN up[c] /\ up'[c][k] = up[c][k + 1]
  <1>1. up[c] \in Seq(Packets)
    BY DEF TypeOK
  <1>2. /\ Len(up'[c]) = Len(up[c]) - 1 /\ Len(up[c]) \in Nat
        /\ DOMAIN up[c] = 1..Len(up[c]) /\ DOMAIN up'[c] = 1..Len(up'[c])
        /\ \A k \in 1..Len(up'[c]) : up'[c][k] = up[c][k + 1]
    BY <1>1, TailFacts
  <1>3. \A k \in DOMAIN up'[c] : k + 1 \in DOMAIN up[c] /\ up'[c][k] = up[c][k + 1]
    BY <1>2
  <1>4. ASSUME NEW k \in DOMAIN up'[c], up'[c][k].fresh
        PROVE  /\ cl'[c] # "away"
               /\ cl'[c] = "selecting" => up'[c][k].t = "discover"
               /\ cl'[c] = "requesting" =>
                    \/ up'[c][k].t = "discover"
                    \/ \A l \in k..Len(up'[c]) :
                          up'[c][l].t = "request" /\ up'[c][l].ip = ip'[c]
    <2>1. k + 1 \in DOMAIN up[c] /\ up[c][k + 1].fresh /\ k \in 1..Len(up'[c])
      BY <1>2, <1>3, <1>4
    <2>2. /\ cl[c] # "away"
          /\ cl[c] = "selecting" => up[c][k + 1].t = "discover"
          /\ cl[c] = "requesting" =>
                \/ up[c][k + 1].t = "discover"
                \/ \A l \in (k + 1)..Len(up[c]) : up[c][l].t = "request" /\ up[c][l].ip = ip[c]
      BY <2>1 DEF FreshFits
    <2>3. \A l \in k..Len(up'[c]) : l + 1 \in (k + 1)..Len(up[c]) /\ up'[c][l] = up[c][l + 1]
      BY <1>2, <2>1
    <2>. QED BY <1>3, <2>2, <2>3
  <1>5. FreshFits(c)'
    BY <1>4 DEF FreshFits
  <1>. QED
    BY <1>3, <1>5

\* An exchange that goes on while its settled station loses nothing.
LEMMA SettledTake ==
    ASSUME TypeOK, NEW c \in Clients, up[c] # <<>>, up'[c] = Tail(up[c]),
           cl' = cl, ip' = ip, FreshFits(c), SettledHolds(c), Settled(c), KeepsLease(c)
    PROVE  SettledHolds(c)'
  <1>1. \A k \in DOMAIN up'[c] : k + 1 \in DOMAIN up[c] /\ up'[c][k] = up[c][k + 1]
    BY TakeFits
  <1>2. Holds(c, ip[c])'
    BY HoldsKept DEF SettledHolds
  <1>3. \A k \in DOMAIN up'[c] : up'[c][k].t \in {"request", "renew"} /\ up'[c][k].ip = ip'[c]
    BY <1>1 DEF SettledHolds
  <1>. QED
    BY <1>2, <1>3 DEF SettledHolds, Holds

\* The head of a queue, as a member of it.
LEMMA HeadFacts ==
    ASSUME TypeOK, NEW c \in Clients, up[c] # <<>>
    PROVE  /\ 1 \in DOMAIN up[c] /\ Head(up[c]) = up[c][1]
           /\ Head(up[c]) \in Packets
           /\ DOMAIN up[c] = 1..Len(up[c])
  <1>1. up[c] \in Seq(Packets)
    BY DEF TypeOK
  <1>. QED
    BY <1>1, TailFacts

\* What the steps of one station do to what the others have in use.
LEMMA FillKeeps ==
    ASSUME TypeOK, NEW e \in Clients, NEW c \in Clients, NEW i \in Slots,
           NEW a \in 0..NumAddrs,
           NEW tab \in [Slots -> Lease],
           \A j \in Slots : tab[j] = leases[j] \/ (tab[j] = Empty /\ leases[j].mac # e),
           Fill(c, tab, i, a)
    PROVE  KeepsLease(e)
  <1>1. leases' = [tab EXCEPT ![i].mac = c, ![i].ip = a]
    BY DEF Fill
  <1>2. tab[i].del \/ tab[i].mac = NoMac
    BY DEF Fill, Fillable, Empty
  <1>3. ASSUME NEW j \in Slots, leases[j].mac = e, ~leases[j].del
        PROVE  leases'[j] = leases[j]
    <2>1. tab[j] = leases[j] BY <1>3
    <2>2. j # i BY <1>2, <1>3, <2>1, DhcpdAssumption DEF DhcpdAssumption
    <2>. QED BY <1>1, <2>1, <2>2
  <1>. QED
    BY <1>3 DEF KeepsLease

LEMMA DeletedKeeps ==
    ASSUME TypeOK, NEW e \in Clients, NEW c \in Clients, e # c, leases' = Deleted(c)
    PROVE  KeepsLease(e)
  BY DEF KeepsLease, Deleted, FindLeaseByChaddr

\* An offer is taken by nobody who is settled.
LEMMA OfferFits ==
    ASSUME TypeOK, NEW c \in Clients, Take(c, {"discover"}), Exchanges,
           cl' = cl, ip' = ip,
           down' = down \/ \E a \in 0..NumAddrs : Reply(c, "offer", a),
           \A e \in Clients : e # c => KeepsLease(e)
    PROVE  Exchanges'
  <1>1. /\ up[c] # <<>> /\ up'[c] = Tail(up[c]) /\ Head(up[c]).t = "discover"
        /\ \A e \in Clients : e # c => up'[e] = up[e] /\ down'[e] = down[e]
    BY TakeType DEF Reply, TypeOK
  <1>2. \A e \in Clients : e # c => FreshFits(e)' /\ ReplyFits(e)' /\ SettledHolds(e)'
    BY <1>1, Bystander DEF Exchanges
  <1>3. ~Settled(c)
    BY <1>1, HeadFacts DEF Exchanges, SettledHolds
  <1>4. FreshFits(c)'
    BY <1>1, TakeFits DEF Exchanges
  <1>5. \/ down'[c] = down[c]
        \/ down'[c].t = "offer" /\ cl[c] = "selecting"
    <2>1. cl[c] \in {"away", "selecting", "requesting", "bound"} BY DEF TypeOK
    <2>. QED BY <2>1 DEF Reply, Wants, TypeOK
  <1>6. ReplyFits(c)'
    BY <1>5 DEF ReplyFits, Exchanges
  <1>7. SettledHolds(c)'
    BY <1>3, <1>5 DEF SettledHolds, Settled
  <1>. QED
    BY <1>2, <1>4, <1>6, <1>7 DEF Exchanges

\* What an acknowledgement is given for.
LEMMA AckFits ==
    ASSUME TypeOK, LeasesDistinct, Exchanges, NEW c \in Clients, Ack(c)
    PROVE  Exchanges'
  <1>1. /\ Take(c, {"request", "renew"}) /\ cl' = cl /\ ip' = ip
    BY DEF Ack
  <1>2. PICK i \in Slots :
          /\ leases[i].mac = c
          /\ Granted(i, Head(up[c]))
          /\ leases' = [leases EXCEPT ![i].del = FALSE]
          /\ Reply(c, "ack", leases[i].ip)
    BY DEF Ack, FindLeaseByChaddr
  <1>3. /\ up[c] # <<>> /\ up'[c] = Tail(up[c]) /\ Head(up[c]).t \in {"request", "renew"}
        /\ \A e \in Clients : e # c => up'[e] = up[e] /\ down'[e] = down[e]
    BY <1>1, <1>2, TakeType DEF Reply, TypeOK
  <1>4. \A e \in Clients : KeepsLease(e)
    BY <1>2 DEF KeepsLease, TypeOK, Lease
  <1>5. \A e \in Clients : e # c => FreshFits(e)' /\ ReplyFits(e)' /\ SettledHolds(e)'
    BY <1>1, <1>3, <1>4, Bystander DEF Exchanges
  <1>6. FreshFits(c)'
    BY <1>1, <1>3, TakeFits DEF Exchanges
  <1>7. CASE Head(up[c]).fresh /\ cl[c] = "requesting"
    <2>1. \A l \in DOMAIN up[c] : up[c][l].t = "request" /\ up[c][l].ip = ip[c]
      BY <1>3, <1>7, HeadFacts DEF Exchanges, FreshFits
    <2>2. leases[i].ip = ip[c]
      BY <1>2, <2>1, <1>3, HeadFacts DEF Granted
    <2>3. down'[c] = [t |-> "ack", ip |-> ip[c]]
      BY <1>2, <1>7, <2>2 DEF Reply, Wants, TypeOK
    <2>4. leases'[i] = [mac |-> c, ip |-> ip[c], del |-> FALSE]
      BY <1>2, <2>2 DEF TypeOK, Lease
    <2>5. \A k \in DOMAIN up'[c] : up'[c][k].t = "request" /\ up'[c][k].ip = ip'[c]
      BY <1>1, <1>3, <2>1, TakeFits DEF Exchanges
    <2>6. ReplyFits(c)'
      BY <1>1, <1>7, <2>3 DEF ReplyFits, Exchanges
    <2>7. SettledHolds(c)'
      BY <1>1, <2>4, <2>5 DEF SettledHolds, Holds, Slots
    <2>. QED BY <1>5, <1>6, <2>6, <2>7 DEF Exchanges
  <1>8. CASE ~(Head(up[c]).fresh /\ cl[c] = "requesting")
    <2>1. down'[c] = down[c]
      <3>1. cl[c] \in {"away", "selecting", "requesting", "bound"} BY DEF TypeOK
      <3>. QED BY <1>2, <1>8, <3>1 DEF Reply, Wants
    <2>2. ReplyFits(c)'
      BY <1>1, <2>1 DEF ReplyFits, Exchanges
    <2>3. SettledHolds(c)'
      <3>1. CASE Settled(c)
        BY <1>1, <1>3, <1>4, <3>1, SettledTake DEF Exchanges
      <3>2. CASE ~Settled(c)
        BY <1>1, <2>1, <3>2 DEF SettledHolds, Settled
      <3>. QED BY <3>1, <3>2
    <2>. QED BY <1>5, <1>6, <2>2, <2>3 DEF Exchanges
  <1>. QED
    BY <1>7, <1>8

\* No station that is settled is refused.
LEMMA NakFits ==
    ASSUME TypeOK, LeasesDistinct, Exchanges, NEW c \in Clients, Nak(c)
    PROVE  Exchanges'
  <1>1. /\ Take(c, {"request", "renew"}) /\ cl' = cl /\ ip' = ip /\ leases' = leases
        /\ Reply(c, "nak", 0)
    BY DEF Nak
  <1>2. /\ up[c] # <<>> /\ up'[c] = Tail(up[c]) /\ Head(up[c]).t \in {"request", "renew"}
        /\ \A e \in Clients : e # c => up'[e] = up[e] /\ down'[e] = down[e]
    BY <1>1, TakeType DEF Reply, TypeOK
  <1>3. \A e \in Clients : KeepsLease(e)
    BY <1>1 DEF KeepsLease
  <1>4. \A e \in Clients : e # c => FreshFits(e)' /\ ReplyFits(e)' /\ SettledHolds(e)'
    BY <1>1, <1>2, <1>3, Bystander DEF Exchanges
  <1>5. FreshFits(c)'
    BY <1>1, <1>2, TakeFits DEF Exchanges
  <1>6. ~Settled(c)
    <2>. SUFFICES ASSUME Settled(c) PROVE FALSE OBVIOUS
    <2>1. PICK i \in Slots : leases[i] = [mac |-> c, ip |-> ip[c], del |-> FALSE]
      BY DEF Exchanges, SettledHolds, Holds
    <2>2. FindLeaseByChaddr(i, c) BY <2>1, FoundOnly
    <2>3. Head(up[c]).ip = ip[c]
      BY <1>2, HeadFacts DEF Exchanges, SettledHolds
    <2>4. Granted(i, Head(up[c])) BY <1>2, <2>1, <2>3 DEF Granted
    <2>. QED BY <2>2, <2>4 DEF Nak
  <1>7. \/ down'[c] = down[c]
        \/ down'[c].t = "nak" /\ cl[c] = "requesting"
    <2>1. cl[c] \in {"away", "selecting", "requesting", "bound"} BY DEF TypeOK
    <2>. QED BY <1>1, <1>6, <2>1 DEF Reply, Wants, TypeOK, Settled
  <1>8. ReplyFits(c)'
    BY <1>1, <1>7 DEF ReplyFits, Exchanges
  <1>9. SettledHolds(c)'
    BY <1>1, <1>6, <1>7 DEF SettledHolds, Settled
  <1>. QED
    BY <1>4, <1>5, <1>8, <1>9 DEF Exchanges

\* A release or a decline is the packet of a station that starts over.
LEMMA FarewellFits ==
    ASSUME TypeOK, Exchanges, NEW c \in Clients, Take(c, {"release", "decline"}),
           cl' = cl, ip' = ip, down' = down, leases' \in {leases, Deleted(c)}
    PROVE  Exchanges'
  <1>1. /\ up[c] # <<>> /\ up'[c] = Tail(up[c]) /\ Head(up[c]).t \in {"release", "decline"}
        /\ \A e \in Clients : e # c => up'[e] = up[e]
    BY TakeType
  <1>2. \A e \in Clients : e # c => KeepsLease(e)
    BY DeletedKeeps DEF KeepsLease
  <1>3. \A e \in Clients : e # c => FreshFits(e)' /\ ReplyFits(e)' /\ SettledHolds(e)'
    BY <1>1, <1>2, Bystander DEF Exchanges
  <1>4. FreshFits(c)'
    BY <1>1, TakeFits DEF Exchanges
  <1>5. ~Settled(c)
    BY <1>1, HeadFacts DEF Exchanges, SettledHolds
  <1>6. ReplyFits(c)' /\ SettledHolds(c)'
    BY <1>5 DEF ReplyFits, Exchanges, SettledHolds, Settled
  <1>. QED
    BY <1>3, <1>4, <1>6 DEF Exchanges

\* No packet the server handles breaks an exchange.
LEMMA ServeFits ==
    ASSUME TypeOK, LeasesDistinct, Exchanges, NEW c \in Clients, Serve(c)
    PROVE  Exchanges'
  <1>0. 0 \in 0..NumAddrs /\ \A i \in Slots : leases[i].ip \in 0..NumAddrs
    BY DhcpdAssumption DEF DhcpdAssumption, TypeOK, Lease
  <1>1. CASE OfferKnown(c)
    <2>1. \A e \in Clients : KeepsLease(e) BY <1>1 DEF OfferKnown, KeepsLease
    <2>2. \E a \in 0..NumAddrs : Reply(c, "offer", a) BY <1>0, <1>1 DEF OfferKnown
    <2>. QED BY <1>1, <2>1, <2>2, OfferFits DEF OfferKnown
  <1>2. CASE OfferNew(c)
    <2>1. PICK i \in Slots, a \in 0..NumAddrs : Fill(c, leases, i, a)
      BY <1>2 DEF OfferNew
    <2>2. \A e \in Clients : KeepsLease(e) BY <2>1, FillKeeps DEF TypeOK
    <2>3. \E b \in 0..NumAddrs : Reply(c, "offer", b) BY <2>1 DEF Fill
    <2>. QED BY <1>2, <2>2, <2>3, OfferFits DEF OfferNew
  <1>3. CASE OfferInstead(c)
    <2>1. PICK i \in Slots :
            /\ leases[i].mac = c
            /\ \E j \in Slots, a \in 0..NumAddrs : Fill(c, [leases EXCEPT ![i] = Empty], j, a)
      BY <1>3 DEF OfferInstead, FindLeaseByChaddr
    <2>2. PICK j \in Slots, a \in 0..NumAddrs : Fill(c, [leases EXCEPT ![i] = Empty], j, a)
      BY <2>1
    <2> DEFINE tab == [leases EXCEPT ![i] = Empty]
    <2>3. tab \in [Slots -> Lease]
      BY DhcpdAssumption DEF DhcpdAssumption, TypeOK, Empty, Lease
    <2>4. \A e \in Clients : e # c =>
             \A k \in Slots : tab[k] = leases[k] \/ (tab[k] = Empty /\ leases[k].mac # e)
      BY <2>1 DEF TypeOK
    <2>5. \E b \in 0..NumAddrs : Reply(c, "offer", b) BY <2>2 DEF Fill
    <2>6. Fill(c, tab, j, a) BY <2>2
    <2>. HIDE DEF tab
    <2>7. \A e \in Clients : e # c => KeepsLease(e) BY <2>3, <2>4, <2>6, FillKeeps
    <2>. QED BY <1>3, <2>5, <2>7, OfferFits DEF OfferInstead
  <1>4. CASE Repeat(c)
    <2>1. \A e \in Clients : KeepsLease(e) BY <1>4 DEF Repeat, KeepsLease, server
    <2>. QED BY <1>4, <2>1, OfferFits DEF Repeat
  <1>5. CASE Ack(c)
    BY <1>5, AckFits
  <1>6. CASE Nak(c)
    BY <1>6, NakFits
  <1>7. CASE ReceiveRelease(c)
    <2>1. Take(c, {"release", "decline"}) BY <1>7 DEF ReceiveRelease, Take
    <2>. QED BY <1>7, <2>1, FarewellFits DEF ReceiveRelease
  <1>8. CASE ReceiveDecline(c)
    <2>1. Take(c, {"release", "decline"}) BY <1>8 DEF ReceiveDecline, Take
    <2>. QED BY <1>8, <2>1, FarewellFits DEF ReceiveDecline
  <1>. QED
    BY <1>1, <1>2, <1>3, <1>4, <1>5, <1>6, <1>7, <1>8 DEF Serve

\* A station whose packets are all stale, but for one it may just have sent,
\* and to which nothing is on its way, fits any state in which that packet
\* belongs to the exchange, unless it says it is settled.
LEMMA NewExchange ==
    ASSUME NEW c \in Clients, down'[c] = NoReply,
           cl'[c] \in {"away", "selecting"},
           \A k \in DOMAIN up'[c] : ~up'[c][k].fresh
    PROVE  FreshFits(c)' /\ ReplyFits(c)' /\ SettledHolds(c)'
  BY DEF FreshFits, ReplyFits, SettledHolds, Settled, NoReply

\* What a queue holds after one more packet.
LEMMA AppendFacts ==
    ASSUME NEW q \in Seq(Packets), NEW m \in Packets
    PROVE  /\ Append(q, m) \in Seq(Packets)
           /\ Len(Append(q, m)) = Len(q) + 1 /\ Len(q) \in Nat
           /\ DOMAIN q = 1..Len(q) /\ DOMAIN Append(q, m) = 1..(Len(q) + 1)
           /\ \A k \in 1..Len(q) : Append(q, m)[k] = q[k]
           /\ Append(q, m)[Len(q) + 1] = m
  OBVIOUS

\* A farewell goes out behind stale packets only.
LEMMA FarewellStale ==
    ASSUME TypeOK, NEW c \in Clients, NEW m \in Packets, ~m.fresh
    PROVE  \A k \in DOMAIN Append(Stale(up[c]), m) : ~Append(Stale(up[c]), m)[k].fresh
  <1>1. up[c] \in Seq(Packets)
    BY DEF TypeOK
  <1>2. /\ Stale(up[c]) \in Seq(Packets)
        /\ \A k \in DOMAIN Stale(up[c]) : ~Stale(up[c])[k].fresh
    BY <1>1, StaleFacts
  <1>. QED
    BY <1>2, AppendFacts

\* Asking (again) is behind requests for the same address only.
LEMMA AskFits ==
    ASSUME TypeOK, NEW c \in Clients, Ask(c), FreshFits(c), ReplyFits(c), SettledHolds(c)
    PROVE  FreshFits(c)' /\ ReplyFits(c)' /\ SettledHolds(c)'
  <1>1. up[c] \in Seq(Packets) /\ ip[c] \in 0..NumAddrs /\ 0 \in 0..NumAddrs
    BY DhcpdAssumption DEF DhcpdAssumption, TypeOK
  <1>2. UNCHANGED <<leases, cl, ip, down>>
    BY DEF Ask, server
  <1>3. PICK m \in Packets :
          /\ up'[c] = Append(up[c], m)
          /\ m.fresh
          /\ \/ cl[c] = "selecting" /\ m.t = "discover"
             \/ cl[c] = "requesting" /\ m.t = "request" /\ m.ip = ip[c]
    <2>1. Packet("discover", 0) \in Packets /\ Packet("request", ip[c]) \in Packets
      BY <1>1, PacketType
    <2>. QED BY <2>1 DEF Ask, Send, Packet, TypeOK
  <1>4. /\ DOMAIN up[c] = 1..Len(up[c]) /\ DOMAIN up'[c] = 1..(Len(up[c]) + 1)
        /\ Len(up'[c]) = Len(up[c]) + 1 /\ Len(up[c]) \in Nat
        /\ \A k \in 1..Len(up[c]) : up'[c][k] = up[c][k]
        /\ up'[c][Len(up[c]) + 1] = m
    BY <1>1, <1>3, AppendFacts
  <1>5. FreshFits(c)'
    <2>1. ASSUME NEW k \in DOMAIN up'[c], up'[c][k].fresh
          PROVE  /\ cl'[c] # "away"
                 /\ cl'[c] = "selecting" => up'[c][k].t = "discover"
                 /\ cl'[c] = "requesting" =>
                      \/ up'[c][k].t = "discover"
                      \/ \A l \in k..Len(up'[c]) :
                            up'[c][l].t = "request" /\ up'[c][l].ip = ip'[c]
      <3>1. CASE k = Len(up[c]) + 1
        BY <1>2, <1>3, <1>4, <3>1
      <3>2. CASE k # Len(up[c]) + 1
        <4>1. k \in DOMAIN up[c] /\ up[c][k].fresh BY <1>4, <2>1, <3>2
        <4>2. /\ cl[c] # "away"
              /\ cl[c] = "selecting" => up[c][k].t = "discover"
              /\ cl[c] = "requesting" =>
                   \/ up[c][k].t = "discover"
                   \/ \A l \in k..Len(up[c]) : up[c][l].t = "request" /\ up[c][l].ip = ip[c]
          BY <4>1 DEF FreshFits
        <4>3. \A l \in k..Len(up'[c]) : l \in k..Len(up[c]) \/ l = Len(up[c]) + 1
          BY <1>4, <4>1
        <4>4. k \in 1..Len(up[c]) BY <1>4, <4>1
        <4>5. \A l \in k..Len(up[c]) : l \in 1..Len(up[c]) BY <4>4
        <4>. QED BY <1>2, <1>3, <1>4, <4>1, <4>2, <4>3, <4>5
      <3>. QED BY <3>1, <3>2
    <2>. QED BY <2>1 DEF FreshFits
  <1>6. ReplyFits(c)'
    BY <1>2 DEF ReplyFits
  <1>7. SettledHolds(c)'
    <2>1. ASSUME Settled(c)
          PROVE  \A k \in DOMAIN up'[c] :
                    up'[c][k].t \in {"request", "renew"} /\ up'[c][k].ip = ip[c]
      <3>1. cl[c] = "requesting" BY <1>3, <2>1 DEF Settled, ReplyFits
      <3>. QED BY <1>3, <1>4, <2>1, <3>1 DEF SettledHolds
    <2>. QED BY <1>2, <2>1 DEF SettledHolds, Settled, Holds
  <1>. QED
    BY <1>5, <1>6, <1>7

\* A renewal is behind requests and renewals of the same address only.
LEMMA RenewFits ==
    ASSUME TypeOK, NEW c \in Clients, Renew(c), FreshFits(c), ReplyFits(c), SettledHolds(c)
    PROVE  FreshFits(c)' /\ ReplyFits(c)' /\ SettledHolds(c)'
  <1>1. up[c] \in Seq(Packets) /\ ip[c] \in 0..NumAddrs
    BY DEF TypeOK
  <1>2. cl[c] = "bound" /\ UNCHANGED <<leases, cl, ip>> /\ down'[c] = NoReply
    BY DEF Renew, Ignore, TypeOK
  <1>3. up'[c] = Append(Stale(up[c]), Packet("renew", ip[c]))
    BY DEF Renew, Send, TypeOK
  <1>4. /\ Stale(up[c]) \in Seq(Packets) /\ Len(Stale(up[c])) = Len(up[c])
        /\ \A k \in DOMAIN Stale(up[c]) :
              k \in DOMAIN up[c] /\ Stale(up[c])[k].t = up[c][k].t
                                 /\ Stale(up[c])[k].ip = up[c][k].ip
    BY <1>1, StaleFacts
  <1>5. Packet("renew", ip[c]) \in Packets
    BY <1>1, PacketType
  <1>6. FreshFits(c)' /\ ReplyFits(c)'
    BY <1>2 DEF FreshFits, ReplyFits, NoReply
  <1>7. Holds(c, ip[c]) /\ \A k \in DOMAIN up[c] :
           up[c][k].t \in {"request", "renew"} /\ up[c][k].ip = ip[c]
    BY <1>2 DEF SettledHolds, Settled
  <1>8. \A k \in DOMAIN up'[c] : up'[c][k].t \in {"request", "renew"} /\ up'[c][k].ip = ip[c]
    BY <1>3, <1>4, <1>5, <1>7, AppendFacts DEF Packet
  <1>9. SettledHolds(c)'
    BY <1>2, <1>7, <1>8 DEF SettledHolds, Holds
  <1>. QED
    BY <1>6, <1>9

\* Each step of a station leaves it with an exchange that fits.
LEMMA OwnStep ==
    ASSUME TypeOK, NEW c \in Clients, Act(c), FreshFits(c), ReplyFits(c), SettledHolds(c)
    PROVE  FreshFits(c)' /\ ReplyFits(c)' /\ SettledHolds(c)'
  <1>0. /\ up[c] \in Seq(Packets) /\ ip[c] \in 0..NumAddrs /\ 0 \in 0..NumAddrs
        /\ down[c].ip \in 0..NumAddrs
    BY DhcpdAssumption DEF DhcpdAssumption, TypeOK, Replies
  <1>1. \A k \in DOMAIN Stale(up[c]) : ~Stale(up[c])[k].fresh
    BY <1>0, StaleFacts
  <1>2. CASE Join(c)
    <2>1. /\ cl[c] = "away" /\ UNCHANGED <<leases, up, down>>
          /\ \/ cl'[c] = "selecting" /\ ip'[c] = 0
             \/ cl'[c] = "requesting" /\ ip'[c] = ip[c] /\ ip[c] # 0
      BY <1>2 DEF Join, Move, TypeOK, server
    <2>2. FreshFits(c)' BY <2>1 DEF FreshFits
    <2>3. down[c].t \notin {"offer", "ack", "nak"} BY <2>1 DEF ReplyFits
    <2>4. ReplyFits(c)' /\ SettledHolds(c)'
      BY <2>1, <2>3 DEF ReplyFits, SettledHolds, Settled
    <2>. QED BY <2>2, <2>4
  <1>3. CASE Leave(c)
    <2>1. cl'[c] = "away" /\ up'[c] = Stale(up[c]) /\ down'[c] = NoReply
      BY <1>3 DEF Leave, Move, Ignore, TypeOK
    <2>. QED BY <1>1, <2>1, NewExchange
  <1>4. CASE Ask(c)
    BY <1>4, AskFits
  <1>5. CASE TakeOffer(c)
    <2>1. /\ cl[c] = "selecting" /\ cl'[c] = "requesting" /\ ip'[c] # 0
          /\ down'[c] = NoReply /\ up' = up
      BY <1>5 DEF TakeOffer, Move, Ignore, TypeOK
    <2>2. FreshFits(c)' BY <2>1 DEF FreshFits
    <2>3. ReplyFits(c)' /\ SettledHolds(c)'
      BY <2>1 DEF ReplyFits, SettledHolds, Settled, NoReply
    <2>. QED BY <2>2, <2>3
  <1>6. CASE TakeAck(c)
    <2>1. /\ cl[c] = "requesting" /\ down[c].t = "ack" /\ cl'[c] = "bound"
          /\ ip'[c] = ip[c] /\ down'[c] = NoReply /\ up' = up /\ leases' = leases
      BY <1>6 DEF TakeAck, Move, Ignore, TypeOK, server, ReplyFits
    <2>2. FreshFits(c)' BY <2>1 DEF FreshFits
    <2>3. ReplyFits(c)' BY <2>1 DEF ReplyFits, NoReply
    <2>4. SettledHolds(c)' BY <2>1 DEF SettledHolds, Settled, Holds
    <2>. QED BY <2>2, <2>3, <2>4
  <1>7. CASE Decline(c)
    <2>1. /\ cl'[c] = "selecting" /\ down'[c] = NoReply
          /\ up'[c] = Append(Stale(up[c]), [Packet("decline", down[c].ip) EXCEPT !.fresh = FALSE])
      BY <1>7 DEF Decline, Send, Move, Ignore, TypeOK
    <2>2. /\ [Packet("decline", down[c].ip) EXCEPT !.fresh = FALSE] \in Packets
          /\ ~[Packet("decline", down[c].ip) EXCEPT !.fresh = FALSE].fresh
      BY <1>0, PacketType DEF Packet
    <2>. QED BY <2>1, <2>2, FarewellStale, NewExchange
  <1>8. CASE Renew(c)
    BY <1>8, RenewFits
  <1>9. CASE Release(c)
    <2>1. /\ cl'[c] = "selecting" /\ down'[c] = NoReply
          /\ up'[c] = Append(Stale(up[c]), [Packet("release", 0) EXCEPT !.fresh = FALSE])
      BY <1>9 DEF Release, Send, Move, Ignore, TypeOK
    <2>2. /\ [Packet("release", 0) EXCEPT !.fresh = FALSE] \in Packets
          /\ ~[Packet("release", 0) EXCEPT !.fresh = FALSE].fresh
      BY <1>0, PacketType DEF Packet
    <2>. QED BY <2>1, <2>2, FarewellStale, NewExchange
  <1>10. CASE StartOver(c)
    <2>1. cl'[c] = "selecting" /\ up'[c] = Stale(up[c]) /\ down'[c] = NoReply
      BY <1>10 DEF StartOver, Move, Ignore, TypeOK
    <2>. QED BY <1>1, <2>1, NewExchange
  <1>. QED
    BY <1>2, <1>3, <1>4, <1>5, <1>6, <1>7, <1>8, <1>9, <1>10 DEF Act

\* A step of one station leaves the others alone, and their leases too.
LEMMA ActFits ==
    ASSUME TypeOK, Exchanges, NEW c \in Clients, Act(c)
    PROVE  Exchanges'
  <1>1. \A e \in Clients : e # c => cl'[e] = cl[e] /\ ip'[e] = ip[e]
    BY DEF Act, Join, Leave, Ask, TakeOffer, TakeAck, Decline, Renew, Release,
           StartOver, Move, TypeOK
  <1>2. \A e \in Clients : e # c => up'[e] = up[e]
    BY DEF Act, Join, Leave, Ask, TakeOffer, TakeAck, Decline, Renew, Release,
           StartOver, Send, TypeOK
  <1>3. \A e \in Clients : e # c => down'[e] = down[e]
    BY DEF Act, Join, Leave, Ask, TakeOffer, TakeAck, Decline, Renew, Release,
           StartOver, Ignore, TypeOK
  <1>4. leases' = leases \/ leases' = Deleted(c)
    BY DEF Act, Join, Leave, Ask, TakeOffer, TakeAck, Decline, Renew, Release,
           StartOver, server
  <1>5. \A e \in Clients : e # c => KeepsLease(e)
    BY <1>4, DeletedKeeps DEF KeepsLease
  <1>6. \A e \in Clients : e # c => FreshFits(e)' /\ ReplyFits(e)' /\ SettledHolds(e)'
    BY <1>1, <1>2, <1>3, <1>5, Bystander DEF Exchanges
  <1>7. FreshFits(c)' /\ ReplyFits(c)' /\ SettledHolds(c)'
    BY OwnStep DEF Exchanges
  <1>. QED
    BY <1>6, <1>7 DEF Exchanges

\* The inductive step.
LEMMA FitsNext == IInv /\ [Next]_vars => Exchanges'
  <1>. SUFFICES ASSUME TypeOK, LeasesDistinct, Exchanges, [Next]_vars PROVE Exchanges'
    BY DEF IInv
  <1>1. CASE Restart
    <2>1. \A e \in Clients : /\ cl[e] = "away" /\ cl'[e] = cl[e] /\ ip'[e] = ip[e]
                             /\ down'[e] = down[e] /\ up'[e] = <<>>
      BY <1>1 DEF Restart
    <2>2. \A e \in Clients : FreshFits(e)' BY <2>1 DEF FreshFits
    <2>3. \A e \in Clients : ReplyFits(e)' /\ ~Settled(e)'
      BY <2>1 DEF ReplyFits, Exchanges, Settled
    <2>. QED BY <2>2, <2>3 DEF Exchanges, SettledHolds
  <1>2. ASSUME NEW c \in Clients, Lose(c) PROVE Exchanges'
    <2>1. /\ up[c] # <<>> /\ up'[c] = Tail(up[c]) /\ UNCHANGED <<leases, cl, ip, down>>
          /\ \A e \in Clients : e # c => up'[e] = up[e]
      BY <1>2 DEF Lose, TypeOK, server
    <2>2. \A e \in Clients : KeepsLease(e) BY <2>1 DEF KeepsLease
    <2>3. \A e \in Clients : e # c => FreshFits(e)' /\ ReplyFits(e)' /\ SettledHolds(e)'
      BY <2>1, <2>2, Bystander DEF Exchanges
    <2>4. FreshFits(c)' BY <2>1, TakeFits DEF Exchanges
    <2>5. ReplyFits(c)' BY <2>1 DEF ReplyFits, Exchanges
    <2>6. SettledHolds(c)'
      <3>1. CASE Settled(c) BY <2>1, <2>2, <3>1, SettledTake DEF Exchanges
      <3>2. CASE ~Settled(c) BY <2>1, <3>2 DEF SettledHolds, Settled
      <3>. QED BY <3>1, <3>2
    <2>. QED BY <2>3, <2>4, <2>5, <2>6 DEF Exchanges
  <1>3. CASE UNCHANGED vars
    BY <1>3 DEF vars, server, station, Exchanges, FreshFits, ReplyFits, SettledHolds,
                Settled, Holds
  <1>. QED
    BY <1>1, <1>2, <1>3, ServeFits, ActFits DEF Next

-----------------------------------------------------------------------------
(* Theorems                                                                 *)

\* The inductive invariant holds from the start and in every step.
THEOREM Inductive == Spec => []IInv
  <1>1. Init => Exchanges
    BY DEF Init, Exchanges, FreshFits, ReplyFits, SettledHolds, Settled, NoReply
  <1>2. Init => IInv
    BY <1>1, TypeInit DEF IInv, Init, LeasesDistinct, Empty
  <1>3. IInv /\ [Next]_vars => IInv'
    BY TypeNext, DistinctNext, FitsNext DEF IInv
  <1>. QED
    BY <1>2, <1>3, PTL DEF Spec

\* However many stations come and go and whatever packets are lost, sent
\* again or late: a station that uses an address has a lease for it.
THEOREM LeaseBehindAddress == Spec => []BoundHolds
  <1>1. IInv => BoundHolds
    BY DEF IInv, Exchanges, SettledHolds, Settled, BoundHolds
  <1>. QED
    BY <1>1, Inductive, PTL

\* ... no two stations use the same address,
THEOREM AddressesNotShared == Spec => []NoSharedAddress
  <1>1. ASSUME IInv PROVE NoSharedAddress
    <2>1. SUFFICES ASSUME NEW c \in Clients, NEW d \in Clients, cl[c] = "bound",
                          cl[d] = "bound", c # d, ip[c] = ip[d]
                   PROVE  FALSE
      BY DEF NoSharedAddress
    <2>2. Holds(c, ip[c]) /\ Holds(d, ip[d]) /\ ip[c] # 0
      BY <1>1, <2>1 DEF IInv, Exchanges, SettledHolds, Settled, ReplyFits
    <2>3. PICK i \in Slots : leases[i] = [mac |-> c, ip |-> ip[c], del |-> FALSE]
      BY <2>2 DEF Holds
    <2>4. PICK j \in Slots : leases[j] = [mac |-> d, ip |-> ip[d], del |-> FALSE]
      BY <2>2 DEF Holds
    <2>. QED BY <1>1, <2>1, <2>2, <2>3, <2>4 DEF IInv, LeasesDistinct
  <1>. QED
    BY <1>1, Inductive, PTL

\* ... and none is refused the renewal of the address it uses.
THEOREM RenewalsGranted == Spec => []RenewalGranted
  <1>1. IInv => RenewalGranted
    BY DEF IInv, Exchanges, ReplyFits, RenewalGranted
  <1>. QED
    BY <1>1, Inductive, PTL
=============================================================================
