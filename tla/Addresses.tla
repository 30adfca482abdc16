------------------------------ MODULE Addresses ------------------------------
(***************************************************************************)
(* How nodes learn of each other: the addresses a node holds in memory and *)
(* in addr.dat, their announcement every day and their way through the     *)
(* network, the seeds, and what makes an address that is not heard of any  *)
(* more go.  Which of the addresses it holds a node connects to is left    *)
(* out: connections are made by configuration or to hard-coded seeds.      *)
(***************************************************************************)
EXTENDS Integers, Sequences, FiniteSets, FiniteSetsExt, Functions

CONSTANTS
    Node,         \* a node is its address
    Public,       \* those whose own address is routable
    MayLeave,     \* those that may go for good,
    MayRestart,   \* and those that may stop and start again
    Configured,   \* <<n, p>>: n has p in -addnode, -connect or its anchors
    ConnectOnly,  \* those that have it in -connect, and open no other connections
    Seeds,        \* hard-coded
    Irc,          \* nodes in the channel
    Situations,   \* what there may be in the beginning: nodes, those that just started, connections, restarts made
    InDNS,        \* addresses the DNS seeds answer with
    Few,          \* 10: a message of more addresses is taken for an answer to getaddr
    RelayNodes,   \* 10: peers a new address is relayed to
    FewPeers,     \* 3: with less the hard-coded seeds are tried
    MaxConnections, \* 8: with so many no address is looked for, nor cleaned up
    MaxRestarts   \* how often a node restarts

ASSUME AddressesAssumption == /\ UNION {Public, MayLeave, MayRestart, Irc, ConnectOnly} \subseteq Node
                              /\ InDNS \cup Seeds \subseteq Public
                              /\ Configured \subseteq Node \X Node
                              /\ \A s \in Situations : s.started \subseteq s.online /\ s.online \subseteq Node
                                     /\ s.links \subseteq s.online \X s.online /\ s.restarts \in Nat
                                     /\ \A l \in s.links : l[1] # l[2]
                              /\ {Few, RelayNodes, FewPeers, MaxConnections, MaxRestarts} \subseteq Nat

\* The age of an address in half days, 2 for all that is more than a day.  What is stamped
\* two hours old by the one who stores it is 0.
Fresh == 0
Old == 2

VARIABLES
    online,
    mapAddresses, \* per node: the age of each address it holds,
    blank,        \* those that ConnectNode put there by their key, with no address in them,
    addrdb,       \* and the age of each record of addr.dat
    toTry,        \* configured connections a node has not tried since its start
    unasked,      \* nodes that have not asked the DNS seeds since
    links,        \* <<n, p>>: n has opened a connection to p
    opening,      \* those of which n has not set fGetAddr yet
    fGetAddr,     \* <<n, p>>: n awaits an answer to getaddr from p
    setAddrKnown, \* <<<<n, p>>, a>>: a went between n and p, as n knows,
    vAddrToSend,  \* or is to be sent to p by n
    sent,         \* messages under way, on each connection from either end
    sinceBroadcast, \* half days since the node's last rebroadcast
    restarts

peerVars_ == <<links, opening, fGetAddr, setAddrKnown, vAddrToSend, sent>>
bookVars == <<mapAddresses, blank, addrdb>>
startVars == <<toTry, unasked>>
addressVars == <<online, bookVars, startVars, peerVars_, sinceBroadcast, restarts>>

\* The connections, seen from either end.
Connected == links \cup {<<l[2], l[1]>> : l \in links}
Peers(n) == {p \in Node : <<n, p>> \in Connected}

\* The addresses a node really holds.
Held(n) == DOMAIN mapAddresses[n] \ blank[n]

AddressesTypeOK ==
    /\ online \subseteq Node /\ unasked \subseteq online /\ toTry \subseteq Configured
    /\ \A n \in Node :
         /\ blank[n] \subseteq DOMAIN mapAddresses[n]
         /\ DOMAIN mapAddresses[n] \subseteq Node \ {n}
         /\ DOMAIN addrdb[n] \subseteq Public \ {n}
         /\ \A a \in DOMAIN addrdb[n] : addrdb[n][a] \in Fresh .. Old
         /\ \A a \in blank[n] : mapAddresses[n][a] \in Fresh .. Old
         /\ \A a \in Held(n) : a \in DOMAIN addrdb[n] /\ mapAddresses[n][a] = addrdb[n][a]
    /\ links \subseteq online \X online /\ opening \subseteq links
    /\ setAddrKnown \cup vAddrToSend \subseteq Connected \X Public
    /\ DOMAIN sent = Connected

-----------------------------------------------------------------------------
(* The addresses a node holds                                              *)

\* New addresses get a record, those held the later time.
AddAddress(book, n, as, age) ==
    [a \in DOMAIN book \cup (as \ {n}) |-> IF a \notin DOMAIN book THEN age
                                           ELSE IF a \in as THEN Min({age, book[a]}) ELSE book[a]]

\* Mutant of Written: what has no address in it is written as well.
WrittenAll(n, book) == [a \in DOMAIN addrdb[n] \cup DOMAIN book |->
                           IF a \in DOMAIN book THEN book[a] ELSE addrdb[n][a]]
\* What changes is written, under the key of the address that is in it: what has none in it is
\* written in another place, which is left out.
Written(n, book) ==
    [a \in DOMAIN addrdb[n] \cup (DOMAIN book \ blank[n]) |->
        IF a \in DOMAIN book \ blank[n] THEN book[a] ELSE addrdb[n][a]]
Holds(n, book) ==
    /\ mapAddresses' = [mapAddresses EXCEPT ![n] = book]
    /\ addrdb' = [addrdb EXCEPT ![n] = Written(n, book)]
    /\ UNCHANGED blank

\* AddressCurrentlyConnected
Seen(book, p) == IF p \in DOMAIN book THEN [book EXCEPT ![p] = Fresh] ELSE book

\* The channel names the nodes that are in it.
IrcName(n, p) ==
    /\ {n, p} \subseteq Irc \cap online /\ p \in Public \ {n}
    /\ Holds(n, AddAddress(mapAddresses[n], n, {p}, Fresh))
    /\ UNCHANGED <<online, startVars, peerVars_, sinceBroadcast, restarts>>

\* QueryDNSSeeds, after what is configured has been tried: what they answer is stamped three
\* days old.
QueryDNSSeeds(n) ==
    /\ n \in unasked /\ \A l \in toTry : l[1] # n
    /\ unasked' = unasked \ {n}
    /\ Holds(n, AddAddress(mapAddresses[n], n, InDNS, Old))
    /\ UNCHANGED <<online, toTry, peerVars_, sinceBroadcast, restarts>>

\* The nodes that come to look for addresses, and to clean up, in ThreadOpenConnections2.
Looking(n) == /\ n \in online \ (ConnectOnly \cup unasked)
              /\ Cardinality(Peers(n)) < MaxConnections

Expired(book) == {a \in DOMAIN book : book[a] > Fresh}
\* The hourly clean-up: of memory, not of the file.
Cleanup(n) ==
    /\ Looking(n)
    /\ Expired(mapAddresses[n]) # {}
    /\ mapAddresses' = [mapAddresses EXCEPT ![n] = Restrict(@, DOMAIN @ \ Expired(@))]
    /\ blank' = [blank EXCEPT ![n] = @ \ Expired(mapAddresses[n])]
    /\ UNCHANGED <<online, addrdb, startVars, peerVars_, sinceBroadcast, restarts>>

\* A version, addr, inv, getdata or ping message of a peer the node connected to.
Heard(n, p) ==
    /\ <<n, p>> \in links
    /\ Seen(mapAddresses[n], p) # mapAddresses[n]
    /\ Holds(n, Seen(mapAddresses[n], p))
    /\ UNCHANGED <<online, startVars, peerVars_, sinceBroadcast, restarts>>

-----------------------------------------------------------------------------
(* Connections                                                             *)

Addr(as) == [type |-> "addr", addr |-> as]

\* OpenNetworkConnection, where the node holds the addresses of book: ConnectNode notes the
\* time of the attempt, which puts an entry with no address in it where there is none.  If
\* the peer is there, the node tells it its address and asks for others.
Open(n, p, book) ==
    /\ n \in online /\ p \notin {n} \cup Peers(n)
    /\ mapAddresses' = [mapAddresses EXCEPT ![n] =
           [a \in DOMAIN book \cup {p} |-> IF a \in DOMAIN book THEN book[a] ELSE Fresh]]
    /\ blank' = [blank EXCEPT ![n] = @ \cup ({p} \ DOMAIN book)]
    /\ addrdb' = [addrdb EXCEPT ![n] = Written(n, book)]
    /\ IF p \in online
       THEN /\ links' = links \cup {<<n, p>>} /\ opening' = opening \cup {<<n, p>>}
            /\ LET first == (IF n \in Public THEN <<Addr({n})>> ELSE <<>>) \o <<[type |-> "getaddr"]>>
               IN  sent' = [l \in DOMAIN sent \cup {<<n, p>>, <<p, n>>} |->
                               CASE l = <<n, p>> -> first [] l = <<p, n>> -> <<>> [] OTHER -> sent[l]]
       ELSE UNCHANGED <<links, opening, sent>>
    /\ UNCHANGED <<online, unasked, fGetAddr, setAddrKnown, vAddrToSend, sinceBroadcast, restarts>>

\* What is configured is tried when the node starts, -connect again and again.
TryConfigured(n, p) ==
    /\ <<n, p>> \in toTry
    /\ toTry' = IF n \in ConnectOnly THEN toTry ELSE toTry \ {<<n, p>>}
    /\ IF p \in Peers(n)
       THEN UNCHANGED <<online, bookVars, unasked, peerVars_, sinceBroadcast, restarts>>
       ELSE Open(n, p, mapAddresses[n])

\* With few connections the hard-coded seeds are tried every 15 seconds, and first noted as
\* if they had been heard of, dead or alive.
NeedsSeeds(n) == Looking(n) /\ Cardinality(Peers(n)) < FewPeers
TrySeed(n, p) ==
    /\ NeedsSeeds(n) /\ p \in Seeds
    /\ Open(n, p, AddAddress(mapAddresses[n], n, {p}, Fresh))
    /\ UNCHANGED toTry

\* Only then it notes that it awaits an answer; another thread reads the note.
AwaitAnswer(n, p) ==
    /\ <<n, p>> \in opening
    /\ opening' = opening \ {<<n, p>>}
    /\ fGetAddr' = fGetAddr \cup {<<n, p>>}
    /\ UNCHANGED <<online, bookVars, startVars, links, setAddrKnown, vAddrToSend, sent, sinceBroadcast, restarts>>

\* What belongs to the CNode objects of a node's connections goes with them.
Without(ls, n) == {l \in ls : n \notin {l[1], l[2]}}
Closed(n) ==
    /\ links' = Without(links, n)
    /\ opening' = Without(opening, n)
    /\ fGetAddr' = Without(fGetAddr, n)
    /\ setAddrKnown' = {k \in setAddrKnown : n \notin {k[1][1], k[1][2]}}
    /\ vAddrToSend' = {k \in vAddrToSend : n \notin {k[1][1], k[1][2]}}
    /\ sent' = Restrict(sent, Without(DOMAIN sent, n))

\* A node goes for good.
Leave(n) ==
    /\ n \in MayLeave \cap online
    /\ online' = online \ {n}
    /\ Closed(n)
    /\ mapAddresses' = [mapAddresses EXCEPT ![n] = <<>>]
    /\ blank' = [blank EXCEPT ![n] = {}]
    /\ toTry' = {l \in toTry : l[1] # n} /\ unasked' = unasked \ {n}
    /\ UNCHANGED <<addrdb, sinceBroadcast, restarts>>

\* Or stops and starts again, with its records.
OwnConfigured(n) == {l \in Configured : l[1] = n}
RestartNode(n) ==
    /\ n \in MayRestart \cap online
    /\ restarts < MaxRestarts /\ restarts' = restarts + 1
    /\ Closed(n)
    /\ mapAddresses' = [mapAddresses EXCEPT ![n] = addrdb[n]]
    /\ blank' = [blank EXCEPT ![n] = {}]
    /\ toTry' = toTry \cup OwnConfigured(n) /\ unasked' = unasked \cup ({n} \ ConnectOnly)
    /\ sinceBroadcast' = [sinceBroadcast EXCEPT ![n] = Old]
    /\ UNCHANGED <<online, addrdb>>

-----------------------------------------------------------------------------
(* Messages                                                                *)

Of(f, n, p) == {a \in Public : <<<<n, p>>, a>> \in f}
On(n, p, as) == {<<n, p>>} \X as

\* Mutant of Forgotten: the sets are kept.
Remembered(n) == {}
\* SendMessages, once a day: what the peers know is forgotten, and the own address told.
Forgotten(n) == {k \in setAddrKnown : k[1][1] = n}
Rebroadcast(n) ==
    /\ n \in online /\ Peers(n) # {}
    /\ sinceBroadcast[n] = Old
    /\ sinceBroadcast' = [sinceBroadcast EXCEPT ![n] = 0]
    /\ setAddrKnown' = setAddrKnown \ Forgotten(n)
    /\ vAddrToSend' = vAddrToSend \cup ((({n} \X Peers(n)) \X ({n} \cap Public)) \ setAddrKnown')
    /\ UNCHANGED <<online, bookVars, startVars, links, opening, fGetAddr, sent, restarts>>

\* Mutant of Known: what is sent is not noted.
KnownBefore(n, p) == setAddrKnown
Known(n, p) == setAddrKnown \cup On(n, p, Of(vAddrToSend, n, p))
\* SendMessages, in its turn: what the peer does not know yet.
Trickle(n, p) ==
    /\ Of(vAddrToSend, n, p) # {}
    /\ LET new == Of(vAddrToSend \ setAddrKnown, n, p)
       IN  sent' = IF new = {} THEN sent ELSE [sent EXCEPT ![<<n, p>>] = Append(@, Addr(new))]
    /\ setAddrKnown' = Known(n, p)
    /\ vAddrToSend' = vAddrToSend \ On(n, p, Public)
    /\ UNCHANGED <<online, bookVars, startVars, links, opening, fGetAddr, sinceBroadcast, restarts>>

Receive(n, p, type) ==
    /\ <<p, n>> \in Connected /\ sent[p, n] # <<>> /\ Head(sent[p, n]).type = type
    /\ sent' = [sent EXCEPT ![<<p, n>>] = Tail(@)]

\* Message addr: the addresses are stored, as old if they may be the answer to getaddr,
\* and relayed if the node awaits no answer.
Stamp(n, p, as) == IF <<n, p>> \in fGetAddr \/ Cardinality(as) > Few THEN Old ELSE Fresh
Targets(n) == kSubset(Min({RelayNodes, Cardinality(Peers(n))}), Peers(n))
GotAddr(n, p) ==
    /\ Receive(n, p, "addr")
    /\ LET as == Head(sent[p, n]).addr
           book == AddAddress(mapAddresses[n], n, as, Stamp(n, p, as))
       IN  /\ Holds(n, IF <<n, p>> \in links THEN Seen(book, p) ELSE book)
           /\ setAddrKnown' = setAddrKnown \cup On(n, p, as)
           /\ IF <<n, p>> \in fGetAddr THEN UNCHANGED vAddrToSend
              ELSE \E to \in [as -> Targets(n)] :
                     vAddrToSend' = vAddrToSend \cup
                         (UNION {({n} \X to[a]) \X {a} : a \in as} \ setAddrKnown')
    /\ fGetAddr' = fGetAddr \ {<<n, p>>}
    /\ UNCHANGED <<online, startVars, links, opening, sinceBroadcast, restarts>>

\* Message getaddr: what was heard of within a day, instead of what was to be sent.
GetAddr(n, p) ==
    /\ Receive(n, p, "getaddr")
    /\ LET recent == {a \in Held(n) : mapAddresses[n][a] < Old}
       IN  vAddrToSend' = (vAddrToSend \ On(n, p, Public)) \cup (On(n, p, recent) \ setAddrKnown)
    /\ UNCHANGED <<online, bookVars, startVars, links, opening, fGetAddr, setAddrKnown, sinceBroadcast, restarts>>

-----------------------------------------------------------------------------
\* Half a day passes.  Messages take seconds, a peer says something every half hour, a clean-up
\* is made every hour and connections are opened within minutes: at the end of it there is
\* nothing left to do, and who is connected has been heard of.
Tried(n, as) == \A a \in as : IF a \in online THEN a \in Peers(n)
                             ELSE a \in DOMAIN mapAddresses[n] /\ mapAddresses[n][a] = Fresh
Quiet ==
    /\ vAddrToSend = {} /\ opening = {} /\ unasked = {}
    /\ \A l \in Connected : sent[l] = <<>>
    /\ \A n \in online : /\ Peers(n) # {} => sinceBroadcast[n] < Old
                         /\ Looking(n) => Expired(mapAddresses[n]) = {}
                         /\ NeedsSeeds(n) => Tried(n, Seeds \ {n})
    /\ \A l \in links : Seen(mapAddresses[l[1]], l[2]) = mapAddresses[l[1]]
    /\ \A l \in toTry : l[1] \in ConnectOnly /\ (l[2] \in Peers(l[1]) \/ l[2] \in DOMAIN mapAddresses[l[1]] \ online)
Aged(book, now) == [a \in DOMAIN book |-> IF a \in now THEN book[a] ELSE Min({book[a] + 1, Old})]
OpenedTo(n) == {p \in Node : <<n, p>> \in links}
HalfDay ==
    /\ Quiet
    /\ mapAddresses' = [n \in Node |-> Aged(mapAddresses[n], OpenedTo(n))]
    /\ addrdb' = [n \in Node |-> Aged(addrdb[n], OpenedTo(n) \cap Held(n))]
    /\ sinceBroadcast' = [n \in Node |-> Min({sinceBroadcast[n] + 1, Old})]
    /\ UNCHANGED <<online, blank, startVars, peerVars_, restarts>>

\* Who has been running for a while has tried what is configured, and asked the DNS seeds.
AddressesInit ==
    /\ \E s \in Situations :
         /\ online = s.online /\ links = s.links /\ restarts = s.restarts
         /\ unasked = s.started \ ConnectOnly
         /\ toTry = {l \in Configured : l[1] \in s.started \cup (s.online \cap ConnectOnly)}
         /\ addrdb = [n \in Node |-> IF n \in s.online \ s.started THEN AddAddress(<<>>, n, InDNS, Old) ELSE <<>>]
    /\ blank = [n \in Node |-> OpenedTo(n) \ DOMAIN addrdb[n]]
    /\ mapAddresses = [n \in Node |-> [a \in DOMAIN addrdb[n] \cup blank[n] |->
                          IF a \in DOMAIN addrdb[n] THEN addrdb[n][a] ELSE Fresh]]
    /\ opening = {} /\ fGetAddr = {}
    /\ setAddrKnown = {} /\ vAddrToSend = {}
    /\ sent = [l \in Connected |-> <<>>]
    /\ sinceBroadcast = [n \in Node |-> Old]

\* What the threads do without being asked, and the rest.
AddressWork ==
    \/ \E n \in online : Cleanup(n) \/ Rebroadcast(n) \/ QueryDNSSeeds(n)
    \/ \E n \in online, p \in Seeds : TrySeed(n, p)
    \/ \E l \in toTry : TryConfigured(l[1], l[2])
    \/ \E l \in opening : AwaitAnswer(l[1], l[2])
    \/ \E l \in links : Heard(l[1], l[2])
    \/ \E c \in Connected : Trickle(c[1], c[2]) \/ GotAddr(c[1], c[2]) \/ GetAddr(c[1], c[2])
Events == \/ \E n \in online : Leave(n) \/ RestartNode(n)
          \/ \E n, p \in Irc : IrcName(n, p)

AddressesNext == online # {} /\ (AddressWork \/ Events \/ HalfDay)

\* The threads go on, and so does time.  No choice between them is needed: the work of half
\* a day comes to an end.
GoesOn == online # {} /\ (AddressWork \/ HalfDay)
AddressesFairness == WF_addressVars(GoesOn)

AddressesSpec == AddressesInit /\ [][AddressesNext]_addressVars /\ AddressesFairness

-----------------------------------------------------------------------------
\* Again and again every node has heard, within half a day, of every other that is online and
\* has a routable address, though each forgets what is older and tells a peer nothing twice a
\* day; unless it has opened a connection to it, before it held its address.
Announced == []<>(\A n \in online : (Public \cap online) \ {n} \subseteq Held(n) \cup OpenedTo(n))

\* The addresses of nodes that are not there are gone in the end from the memory of every node
\* that comes to clean up, unless they are seeds it goes on trying: they do not go round in
\* the network, nor come back from a file, the DNS or the attempt to connect.
Forgets(n) == DOMAIN mapAddresses[n] \subseteq online \cup (IF NeedsSeeds(n) THEN Seeds ELSE {})
DeadForgotten == <>[](\A n \in Node : Looking(n) => Forgets(n))
=============================================================================
