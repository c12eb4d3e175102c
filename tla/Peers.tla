------------------------------- MODULE Peers -------------------------------
(***************************************************************************)
(* The peers of one node (network/p2p.py): the routing table of DHT, the   *)
(* addresses and the loop of PeerDiscovery, and the connections on which   *)
(* the node sends.                                                         *)
(*                                                                         *)
(* A node of this program answers PING and PEER_DISCOVERY on the           *)
(* connection they came in on, which the one who asked never reads, so no  *)
(* answer of it ever arrives.  Answering is the set of the peers that run  *)
(* a program which sends PONG and PEER_LIST on a connection of its own,    *)
(* where this one reads; Mentioned are the peers their lists name.  A list *)
(* of several peers does what as many lists of one peer do.                *)
(***************************************************************************)
EXTENDS Naturals, FiniteSets

CONSTANTS
  Peer,            \* the other nodes
  Answering, Mentioned,
  BucketOf,        \* _bucket_index of a peer
  K,               \* size of a bucket: dht_kademlia_k
  DeadTime,        \* from when on a peer is pruned: one hour
  Unlisted,        \* no entry in _known_peers
  ConnectBound     \* bound: calls of connect_to_peer

ASSUME PeersAssumption ==
  /\ Answering \subseteq Peer /\ Mentioned \subseteq Peer
  /\ BucketOf \in [Peer -> Nat]
  /\ K \in Nat \ {0} /\ DeadTime \in Nat /\ ConnectBound \in Nat
  /\ Unlisted \notin Nat

VARIABLES
  buckets,    \* the peers in the k-buckets
  lastSeen,   \* _known_peers: how long ago a peer was last seen
  scored,     \* the keys of peer_scores
  addresses,  \* the keys of _known_addresses
  conn,       \* the keys of _connections
  live,       \* those of them whose connection still works
  up,         \* the peers that listen
  phase,      \* where the discovery loop is
  todo,       \* the addresses it has still to look at in this iteration
  calls       \* calls of connect_to_peer so far

table == <<buckets, lastSeen, scored>>
links == <<conn, live>>
discovery == <<phase, todo>>
peersVars == <<table, addresses, links, up, discovery, calls>>

Index == {BucketOf[m] : m \in Peer}

PeersTypeOK ==
  /\ buckets \in [Index -> SUBSET Peer]
  /\ lastSeen \in [Peer -> 0 .. DeadTime + 1 \cup {Unlisted}]
  /\ scored \subseteq Peer /\ addresses \subseteq Peer
  /\ live \subseteq conn /\ conn \subseteq Peer /\ up \subseteq Peer
  /\ phase \in {"sleep", "connect", "prune"} /\ todo \subseteq Peer
  /\ calls \in 0 .. ConnectBound

PeersInit ==
  /\ buckets = [i \in Index |-> {}]
  /\ lastSeen = [m \in Peer |-> Unlisted]
  /\ scored = {} /\ addresses = {}
  /\ conn = {} /\ live = {} /\ up = Peer
  /\ phase = "sleep" /\ todo = {} /\ calls = 0

-----------------------------------------------------------------------------
(***************************************************************************)
(* The routing table.                                                      *)
(***************************************************************************)

\* KBucket.add_peer: a peer that is there is replaced; a full bucket refuses.
Accepts(m) == m \in buckets[BucketOf[m]] \/ Cardinality(buckets[BucketOf[m]]) < K

\* DHT.add_peer with a new PeerIdentity, seen now.
add_peer(m) ==
  IF Accepts(m)
  THEN /\ buckets' = [buckets EXCEPT ![BucketOf[m]] = @ \cup {m}]
       /\ lastSeen' = [lastSeen EXCEPT ![m] = 0]
       /\ scored' = scored \cup {m}
  ELSE UNCHANGED table

\* Mutant: the peer keeps its place in the bucket.
remove_peersFromMaps(gone) ==
  /\ lastSeen' = [m \in Peer |-> IF m \in gone THEN Unlisted ELSE lastSeen[m]]
  /\ scored' = scored \ gone
  /\ UNCHANGED buckets

\* DHT.remove_peer for each of several peers.
remove_peers(gone) ==
  /\ buckets' = [i \in Index |-> buckets[i] \ gone]
  /\ lastSeen' = [m \in Peer |-> IF m \in gone THEN Unlisted ELSE lastSeen[m]]
  /\ scored' = scored \ gone

-----------------------------------------------------------------------------
(***************************************************************************)
(* The other nodes, the program and time.                                  *)
(***************************************************************************)

PeersTick ==
  /\ lastSeen' = [m \in Peer |->
       IF lastSeen[m] \in 0 .. DeadTime THEN lastSeen[m] + 1 ELSE lastSeen[m]]
  /\ UNCHANGED <<buckets, scored, addresses, links, up, discovery, calls>>

\* A peer ends, and with it its connections, or comes back.
Ends(m) ==
  /\ m \in up /\ up' = up \ {m} /\ live' = live \ {m}
  /\ UNCHANGED <<table, addresses, conn, discovery, calls>>

Returns(m) ==
  /\ m \notin up /\ up' = up \cup {m}
  /\ UNCHANGED <<table, addresses, links, discovery, calls>>

\* P2PTransport.connect: it holds on to a connection it has, working or not.
connect(m) ==
  IF m \in up \ conn
  THEN conn' = conn \cup {m} /\ live' = live \cup {m}
  ELSE UNCHANGED links

\* connect_to_peer with add_seed_address.  When the connection cannot be made
\* nothing changes.
connect_to_peer(m) ==
  /\ calls < ConnectBound /\ calls' = calls + 1
  /\ m \in up \cup conn
  /\ connect(m)
  /\ add_peer(m)
  /\ addresses' = addresses \cup {m}
  /\ UNCHANGED <<up, discovery>>

\* _handle_pong.
Pong(m) ==
  /\ m \in Answering \cap up /\ lastSeen[m] # Unlisted
  /\ lastSeen' = [lastSeen EXCEPT ![m] = 0]
  /\ UNCHANGED <<buckets, scored, addresses, links, up, discovery, calls>>

\* _handle_peer_list: a peer the node has no entry of joins the table, as if
\* seen now; its addresses do not join those of the discovery.
PeerList(m) ==
  /\ Answering \cap up # {} /\ m \in Mentioned
  /\ lastSeen[m] = Unlisted
  /\ add_peer(m)
  /\ UNCHANGED <<addresses, links, up, discovery, calls>>

-----------------------------------------------------------------------------
(***************************************************************************)
(* The discovery loop.                                                     *)
(***************************************************************************)

BeginRound ==
  /\ phase = "sleep"
  /\ phase' = "connect" /\ todo' = addresses
  /\ UNCHANGED <<table, addresses, links, up, calls>>

\* One of the known addresses.
Reconnect(m) ==
  /\ phase = "connect" /\ m \in todo
  /\ todo' = todo \ {m}
  /\ connect(m)
  /\ UNCHANGED <<table, addresses, up, phase, calls>>

\* Mutant: the connections on which it fails stay.
AskKeeping ==
  /\ phase = "connect" /\ todo = {}
  /\ phase' = "prune"
  /\ UNCHANGED <<table, addresses, links, up, todo, calls>>

\* The broadcast of PEER_DISCOVERY: the connections on which it fails go.
Ask ==
  /\ phase = "connect" /\ todo = {}
  /\ phase' = "prune"
  /\ conn' = live
  /\ UNCHANGED <<table, addresses, live, up, todo, calls>>

Prune ==
  /\ phase = "prune" /\ phase' = "sleep"
  /\ remove_peers({m \in Peer : lastSeen[m] # Unlisted /\ lastSeen[m] > DeadTime})
  /\ UNCHANGED <<addresses, links, up, todo, calls>>

-----------------------------------------------------------------------------

PeersNext ==
  \/ PeersTick
  \/ \E m \in Peer : Ends(m) \/ Returns(m) \/ connect_to_peer(m) \/ Pong(m) \/ PeerList(m)
  \/ \E m \in Peer : Reconnect(m)
  \/ BeginRound \/ Ask \/ Prune

\* Time passes and the loop goes on: what it waits for has a time limit, or
\* ends with the connection.
PeersFairness ==
  /\ WF_peersVars(PeersTick) /\ WF_peersVars(BeginRound) /\ WF_peersVars(Ask) /\ WF_peersVars(Prune)
  /\ \A m \in Peer : WF_peersVars(Reconnect(m))

PeersSpec == PeersInit /\ [][PeersNext]_peersVars /\ PeersFairness

-----------------------------------------------------------------------------
(***************************************************************************)
(* Properties.                                                             *)
(***************************************************************************)

\* The three books of the table hold the same peers, whatever order peers are
\* refused, replaced, pruned and added again in: no peer keeps a place in a
\* bucket that nobody can find it in, and no bucket holds more than K.
BooksAgree ==
  \A m \in Peer :
    /\ lastSeen[m] # Unlisted <=> m \in buckets[BucketOf[m]]
    /\ lastSeen[m] # Unlisted <=> m \in scored
    /\ Cardinality(buckets[BucketOf[m]]) <= K

\* The table and the connections drift apart.  A peer that nobody speaks of
\* again leaves the table for good, an hour after the program connected to it,
\* though it stays up and the discovery loop keeps or makes the connection for
\* ever; a peer known from a list alone is never connected.
ForgottenYetConnected ==
  \A m \in Peer :
    /\ m \notin Answering \cup Mentioned => <>[](lastSeen[m] = Unlisted)
    /\ <>[](m \in up \cap addresses) => <>[](m \in live)
    /\ [](m \in conn => m \in addresses)

=============================================================================
