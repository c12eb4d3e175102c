------------------------------- MODULE Gossip -------------------------------
(***************************************************************************)
(* Transactions, blocks, jobs and capabilities on the P2P network          *)
(* (network/p2p.py): GossipEngine announces, P2PNode asks the announcer    *)
(* for what it lacks and relays, PeerDiscovery keeps the connections up.   *)
(*                                                                         *)
(* A connection is used in one direction: a node sends on the connections  *)
(* it opened and reads those that others opened to it.  The answer to a    *)
(* request is written into the connection the request came by, against its *)
(* direction, where nobody reads.  Answers to pings and to requests for    *)
(* peers or miners end there as well and are left out.                     *)
(*                                                                         *)
(* What becomes of the messages on their way is: a connection that fails   *)
(* loses them.  A connection that its reader has closed swallows what is   *)
(* written to it first and raises an error from then on.                   *)
(***************************************************************************)
EXTENDS Naturals, Sequences, FiniteSets

CONSTANTS
  Node, Tx, Block,
  Job,             \* raw jobs: those the API broadcasts, not the subnet
  Truncated,       \* what _handle_block_announce makes of the hash of a block
  Origin,          \* Origin[i]: the node that has item i to announce
  Listening,       \* nodes with callbacks for transactions, blocks and jobs
  Capable,         \* nodes that mine and register for it
  Address,         \* Address[n]: the nodes n knows an address of
  Hops,            \* the ttl of a new message
  BroadcastBound,  \* bound: messages broadcast by all nodes
  BreakBound       \* bound: connections that break

Item == Tx \cup Block \cup Job
Key == Item \cup {Truncated}
Edge == Node \X Node

ASSUME GossipAssumption ==
  /\ Tx \cap Block = {} /\ (Tx \cup Block) \cap Job = {} /\ Truncated \notin Item
  /\ Origin \in [Item -> Node]
  /\ Listening \subseteq Node /\ Capable \subseteq Node
  /\ Address \in [Node -> SUBSET Node] /\ \A n \in Node : n \notin Address[n]
  /\ Hops \in Nat /\ BroadcastBound \in Nat /\ BreakBound \in Nat

VARIABLES
  link,        \* link[<<m, n>>]: the entry for n in transport._connections of m
  wire,        \* wire[<<m, n>>]: what m sent to n and n has not read
  back,        \* back[<<m, n>>]: the items n has answered to m there
  pending,     \* pending[n]: the keys of pending_txs, pending_blocks and _pending_jobs
  seen,        \* seen[n]: dht.seen_messages
  registered,  \* registered[n]: the keys of _miner_capabilities
  sent,        \* messages broadcast so far: the clock of the message ids
  broken       \* connections broken so far

vars == <<link, wire, back, pending, seen, registered, sent, broken>>

\* Stands for msg_id, which is made of the sender, the type and the time.
Id == [item : Item, from : Node, no : Nat]

Message ==
  [type : {"ANNOUNCE"}, id : Id, ttl : 0 .. Hops]
    \cup [type : {"REQUEST"}, key : Key, from : Node]
    \cup [type : {"REGISTER"}, from : Node, ttl : 0 .. Hops]

\* up: n reads what m sends.  closed: n does not, and m will not notice when it
\* sends the next time.  reset: m will.
TypeOK ==
  /\ link \in [Edge -> {"none", "up", "closed", "reset"}]
  /\ wire \in [Edge -> Seq(Message)]
  /\ \A e \in Edge : link[e] # "up" => wire[e] = <<>>
  /\ back \in [Edge -> SUBSET Item]
  /\ pending \in [Node -> SUBSET Item]
  /\ seen \in [Node -> SUBSET Id]
  /\ registered \in [Node -> SUBSET Node]
  /\ sent \in Nat
  /\ broken \in Nat

\* connect_to_peer has been called for every known address.
Init ==
  /\ link = [e \in Edge |-> IF e[2] \in Address[e[1]] THEN "up" ELSE "none"]
  /\ wire = [e \in Edge |-> <<>>]
  /\ back = [e \in Edge |-> {}]
  /\ pending = [n \in Node |-> {}]
  /\ seen = [n \in Node |-> {}]
  /\ registered = [n \in Node |-> {}]
  /\ sent = 0
  /\ broken = 0

-----------------------------------------------------------------------------
(***************************************************************************)
(* The transport.                                                          *)
(***************************************************************************)


\* What becomes of a connection on which broadcast sends.
Noticed(state) ==
  CASE state = "closed" -> "reset" [] state = "reset" -> "none" [] OTHER -> state

\* P2PTransport.send without its error, and the loop body of broadcast:
\* n sends msg to each node of to.
Written(w, n, to, msg) ==
  [e \in Edge |-> IF e[1] = n /\ e[2] \in to /\ link[e] = "up" THEN Append(w[e], msg) ELSE w[e]]

Used(l, n, to) ==
  [e \in Edge |-> IF e[1] = n /\ e[2] \in to THEN Noticed(l[e]) ELSE l[e]]

Broadcast(n, msg) ==
  /\ wire' = Written(wire, n, Node, msg)
  /\ link' = Used(link, n, Node)

\* handle_connection of n reads the first message on the connection of m.
Reads(m, n, type) == wire[<<m, n>>] # <<>> /\ Head(wire[<<m, n>>]).type = type

Rest(m, n) == [wire EXCEPT ![<<m, n>>] = Tail(@)]

Closed(m, n) ==
  /\ \E state \in {"closed", "reset"} : link' = [link EXCEPT ![<<m, n>>] = state]
  /\ wire' = [wire EXCEPT ![<<m, n>>] = <<>>]

\* A connection fails.
Break(m, n) ==
  /\ link[<<m, n>>] = "up" /\ broken < BreakBound
  /\ broken' = broken + 1
  /\ Closed(m, n)
  /\ UNCHANGED <<back, pending, seen, registered, sent>>

\* One round of _discovery_loop: connect where there is no connection, then
\* send PEER_DISCOVERY on every one, which is when a dead one is noticed.
\* Only rounds that change something are of interest.
Discover(n) ==
  /\ link' = [e \in Edge |->
                IF e[1] = n /\ e[2] \in Address[n] /\ link[e] = "none" THEN "up"
                ELSE IF e[1] = n THEN Noticed(link[e]) ELSE link[e]]
  /\ link' # link
  /\ back' = [e \in Edge |-> IF link[e] = "none" /\ link'[e] = "up" THEN {} ELSE back[e]]
  /\ UNCHANGED <<wire, pending, seen, registered, sent, broken>>

-----------------------------------------------------------------------------
(***************************************************************************)
(* What a node sends of its own accord.                                    *)
(***************************************************************************)

NextId(n, i) == [item |-> i, from |-> n, no |-> sent]

\* announce_transaction, announce_block or broadcast_job, or a transaction's
\* turn in _gossip_loop.
Announce(n, i) ==
  /\ sent < BroadcastBound /\ sent' = sent + 1
  /\ Broadcast(n, [type |-> "ANNOUNCE", id |-> NextId(n, i), ttl |-> Hops])
  /\ UNCHANGED <<back, seen, registered, broken>>

Publish(n, i) ==
  /\ Origin[i] = n /\ i \notin pending[n]
  /\ pending' = [pending EXCEPT ![n] = @ \cup {i}]
  /\ Announce(n, i)

AnnounceItem(n, i) == i \in Tx \cup Block /\ Publish(n, i)

BroadcastJob(n, j) == j \in Job /\ Publish(n, j)

Reannounce(n, t) ==
  /\ t \in Tx \cap pending[n]
  /\ Announce(n, t)
  /\ UNCHANGED pending

\* broadcast_miner_capabilities.
Register(n) ==
  /\ n \in Capable
  /\ sent < BroadcastBound /\ sent' = sent + 1
  /\ Broadcast(n, [type |-> "REGISTER", from |-> n, ttl |-> Hops])
  /\ UNCHANGED <<back, pending, seen, registered, broken>>

-----------------------------------------------------------------------------
(***************************************************************************)
(* The handlers of P2PNode.                                                *)
(***************************************************************************)

\* Mutant: nothing is relayed.
RelayedNot(w, n, from, msg) == w

\* Mutant: the hop limit is not counted down.
RelayedForever(w, n, from, msg) ==
  IF msg.ttl > 0 THEN Written(w, n, Node \ {from}, msg) ELSE w

\* The re-broadcast at the end of a handler, to all but the sender.
Relayed(w, n, from, msg) ==
  IF msg.ttl > 0
  THEN Written(w, n, Node \ {from}, [msg EXCEPT !.ttl = @ - 1])
  ELSE w

RelayUsed(l, n, from, msg) == IF msg.ttl > 0 THEN Used(l, n, Node \ {from}) ELSE l

\* What the handler of an announcement takes for the item's key: the payload of
\* TX_ANNOUNCE, but 32 of the 64 characters of a block's hash.
KeyOf(i) == IF i \in Block THEN Truncated ELSE i

Wants(n, i) == n \in Listening /\ KeyOf(i) \notin pending[n]

\* The announcer may be many hops away.
CannotAsk(n, msg) == Wants(n, msg.id.item) /\ link[<<n, msg.id.from>>] \in {"none", "reset"}

AskAndRelay(m, n, msg) ==
  LET to == IF Wants(n, msg.id.item) THEN {msg.id.from} ELSE {}
      ask == [type |-> "REQUEST", key |-> KeyOf(msg.id.item), from |-> n]
  IN  /\ ~CannotAsk(n, msg)
      /\ wire' = Relayed(Written(Rest(m, n), n, to, ask), n, msg.id.from, msg)
      /\ link' = RelayUsed(Used(link, n, to), n, msg.id.from, msg)

\* Mutant: each copy is handled.
HandleAnnounceAgain(m, n, msg) == AskAndRelay(m, n, msg)

\* A new announcement: n asks the announcer for an item it lacks, then relays.
HandleAnnounce(m, n, msg) ==
  /\ msg.id \notin seen[n]
  /\ AskAndRelay(m, n, msg)

\* send raises ConnectionError: handle_connection ends, which closes the
\* connection to whoever passed the announcement on, and nothing is relayed.
FailAnnounce(m, n, msg) ==
  /\ msg.id \notin seen[n]
  /\ CannotAsk(n, msg)
  /\ Closed(m, n)

ReceiveAnnounce(m, n) ==
  /\ Reads(m, n, "ANNOUNCE")
  /\ LET msg == Head(wire[<<m, n>>])
     IN  /\ HandleAnnounce(m, n, msg) \/ FailAnnounce(m, n, msg)
         /\ seen' = [seen EXCEPT ![n] = @ \cup {msg.id}]
  /\ UNCHANGED <<back, pending, registered, sent, broken>>

ReceiveDuplicate(m, n) ==
  /\ Reads(m, n, "ANNOUNCE")
  /\ Head(wire[<<m, n>>]).id \in seen[n]
  /\ wire' = Rest(m, n)
  /\ UNCHANGED <<link, back, pending, seen, registered, sent, broken>>

\* What a book of n has under the key that was asked for is sent back.
AnswerFrom(m, n, book) ==
  /\ back' = [back EXCEPT ![<<m, n>>] = @ \cup (book \cap {Head(wire[<<m, n>>]).key})]
  /\ wire' = Rest(m, n)
  /\ UNCHANGED <<link, pending, seen, registered, sent, broken>>

\* Mutant: only blocks are looked up.
ReceiveRequestTruncated(m, n) ==
  /\ Reads(m, n, "REQUEST") /\ Head(wire[<<m, n>>]).key \notin Job
  /\ AnswerFrom(m, n, pending[n] \cap Block)

ReceiveRequest(m, n) ==
  /\ Reads(m, n, "REQUEST") /\ Head(wire[<<m, n>>]).key \notin Job
  /\ AnswerFrom(m, n, pending[n] \ Job)

ReceiveJobRequest(m, n) ==
  /\ Reads(m, n, "REQUEST") /\ Head(wire[<<m, n>>]).key \in Job
  /\ AnswerFrom(m, n, pending[n] \cap Job)

\* There is no duplicate filter here: only the hop limit ends the relaying.
ReceiveRegister(m, n) ==
  /\ Reads(m, n, "REGISTER")
  /\ LET msg == Head(wire[<<m, n>>])
     IN  /\ registered' = [registered EXCEPT ![n] = @ \cup {msg.from}]
         /\ wire' = Relayed(Rest(m, n), n, msg.from, msg)
         /\ link' = RelayUsed(link, n, msg.from, msg)
  /\ UNCHANGED <<back, pending, seen, sent, broken>>

Deliver(m, n) ==
  \/ ReceiveAnnounce(m, n) \/ ReceiveDuplicate(m, n)
  \/ ReceiveRequest(m, n) \/ ReceiveJobRequest(m, n)
  \/ ReceiveRegister(m, n)

Next ==
  \/ \E n \in Node :
       \/ \E i \in Item : AnnounceItem(n, i) \/ BroadcastJob(n, i) \/ Reannounce(n, i)
       \/ Register(n) \/ Discover(n)
  \/ \E m, n \in Node : Deliver(m, n) \/ Break(m, n)

Spec == Init /\ [][Next]_vars

\* What has arrived is read, and each node's discovery goes on.
FairSpec ==
  /\ Spec
  /\ WF_vars(\E m, n \in Node : Deliver(m, n))
  /\ \A n \in Node : WF_vars(Discover(n))

-----------------------------------------------------------------------------
(***************************************************************************)
(* Properties.                                                             *)
(***************************************************************************)

Requests(n, key) ==
  UNION {{<<e, k>> : k \in {k \in DOMAIN wire[e] :
            wire[e][k].type = "REQUEST" /\ wire[e][k].key = key /\ wire[e][k].from = n}} : e \in Edge}

\* However many copies of an announcement the relays bring, a node asks for the
\* item once for each announcement: the filter is passed before the request.
AskedOnce ==
  \A n \in Node, key \in Key :
    Cardinality(Requests(n, key)) <= Cardinality({id \in seen[n] : KeyOf(id.item) = key})

\* Relaying comes to an end, for announcements by the filter, for
\* registrations, which have none, by the hop limit.
FloodEnds == <>[](\A e \in Edge : wire[e] = <<>>)

\* Unless a connection breaks, an announced item becomes known to every node
\* within reach of its relays, though the announcer may not be connected to all.
FloodReaches ==
  \A i \in Item :
    i \in pending[Origin[i]]
      ~> broken > 0 \/ \A n \in Node \ {Origin[i]} : \E id \in seen[n] : id.item = i


Asked(n, i) ==
  \E k \in DOMAIN wire[<<n, Origin[i]>>] :
    LET msg == wire[<<n, Origin[i]>>][k] IN msg.type = "REQUEST" /\ msg.key = KeyOf(i) /\ msg.from = n

Answered(n, i) == i \in back[<<n, Origin[i]>>] \/ link[<<n, Origin[i]>>] # "up"

\* A request for a transaction or a job is answered, if its connection lasts,
\* even if the request and the announcer's next announcement cross.
KeyAnswered == \A n \in Listening, i \in Tx \cup Job : Asked(n, i) ~> Answered(n, i)

=============================================================================
