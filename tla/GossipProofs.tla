---------------------------- MODULE GossipProofs ----------------------------
(***************************************************************************)
(* Requests on the gossip network, for any number of nodes and items, any  *)
(* addresses and hop limit, and any number of messages and of broken       *)
(* connections.                                                            *)
(***************************************************************************)
EXTENDS Gossip, FiniteSetTheorems, TLAPS

Wires == [Edge -> Seq(Message)]

IsAsk(msg, a, key) == msg.type = "REQUEST" /\ msg.key = key /\ msg.from = a

\* Where on connections w requests of node a for key are.
Asks(w, a, key) ==
  {x \in Edge \X Nat : x[2] \in 1 .. Len(w[x[1]]) /\ IsAsk(w[x[1]][x[2]], a, key)}

\* The announcements node a has handled of items with key.
News(a, key) == {id \in seen[a] : KeyOf(id.item) = key}

AsksMatch ==
  \A a \in Node, key \in Key :
    IsFiniteSet(Asks(wire, a, key)) /\ Cardinality(Asks(wire, a, key)) <= Cardinality(News(a, key))

GossipInv == TypeOK /\ AsksMatch /\ \A a \in Node : IsFiniteSet(seen[a])

\* An item's key is a key.
LEMMA KeyOfItem == ASSUME NEW i \in Item PROVE KeyOf(i) \in Key
  BY DEF KeyOf, Key

-----------------------------------------------------------------------------
(***************************************************************************)
(* The connections: what is sent and read.                                 *)
(***************************************************************************)

\* A write appends to the connections that are up, and to no other.
LEMMA WrittenWires ==
  ASSUME NEW w \in Wires, NEW n \in Node, NEW to, NEW msg \in Message
  PROVE  /\ Written(w, n, to, msg) \in Wires
         /\ \A e \in Edge : Written(w, n, to, msg)[e] =
              IF e[1] = n /\ e[2] \in to /\ link[e] = "up" THEN Append(w[e], msg) ELSE w[e]
<1>1. \A e \in Edge : w[e] \in Seq(Message) /\ Append(w[e], msg) \in Seq(Message)
  BY DEF Wires
<1> QED BY <1>1 DEF Written, Wires

\* What is not a request of a for key makes none.
LEMMA WrittenNews ==
  ASSUME NEW w \in Wires, NEW n \in Node, NEW to, NEW msg \in Message, NEW a, NEW key,
         ~IsAsk(msg, a, key)
  PROVE  Asks(Written(w, n, to, msg), a, key) \subseteq Asks(w, a, key)
<1> DEFINE d == Written(w, n, to, msg)
<1> SUFFICES ASSUME NEW e \in Edge, NEW k \in Nat, k \in 1 .. Len(d[e]), IsAsk(d[e][k], a, key)
             PROVE  k \in 1 .. Len(w[e]) /\ IsAsk(w[e][k], a, key)
  BY DEF Asks
<1>0. d[e] = IF e[1] = n /\ e[2] \in to /\ link[e] = "up" THEN Append(w[e], msg) ELSE w[e]
  BY WrittenWires
<1>1. w[e] \in Seq(Message) /\ (d[e] = w[e] \/ d[e] = Append(w[e], msg))
  BY <1>0 DEF Wires
<1> HIDE DEF d
<1>2. (k \in 1 .. Len(w[e]) /\ d[e][k] = w[e][k]) \/ d[e][k] = msg
  BY <1>1, SMTT(60)
<1> QED BY <1>2

\* What is sent to one node at most makes one request at most.
LEMMA WrittenAsk ==
  ASSUME NEW w \in Wires, NEW n \in Node, NEW b \in Node, NEW to \in SUBSET {b}, NEW msg \in Message,
         NEW a, NEW key
  PROVE  Asks(Written(w, n, to, msg), a, key)
           \subseteq Asks(w, a, key) \cup {<<<<n, b>>, Len(w[<<n, b>>]) + 1>>}
<1> DEFINE d == Written(w, n, to, msg)
<1> SUFFICES ASSUME NEW e \in Edge, NEW k \in Nat, k \in 1 .. Len(d[e]), IsAsk(d[e][k], a, key),
                    ~(k \in 1 .. Len(w[e]) /\ IsAsk(w[e][k], a, key))
             PROVE  e = <<n, b>> /\ k = Len(w[<<n, b>>]) + 1
  BY DEF Asks
<1>0. d[e] = IF e[1] = n /\ e[2] \in to /\ link[e] = "up" THEN Append(w[e], msg) ELSE w[e]
  BY WrittenWires
<1>1. w[e] \in Seq(Message) /\ (d[e] = w[e] \/ (d[e] = Append(w[e], msg) /\ e[1] = n /\ e[2] = b))
  BY <1>0 DEF Wires
<1>2. e[1] = n /\ e[2] = b => e = <<n, b>>
  BY DEF Edge
<1> HIDE DEF d
<1>3. d[e] = Append(w[e], msg) /\ e = <<n, b>>
  BY <1>1, <1>2
<1>4. k \in 1 .. Len(w[e]) => d[e][k] = w[e][k]
  BY <1>1, <1>3
<1>5. k = Len(w[e]) + 1
  BY <1>1, <1>3, <1>4
<1> QED BY <1>3, <1>5

\* Reading the first message leaves the requests behind it.
LEMMA RestAsks ==
  ASSUME TypeOK, NEW m \in Node, NEW n \in Node, wire[<<m, n>>] # <<>>, NEW a, NEW key,
         IsFiniteSet(Asks(wire, a, key))
  PROVE  /\ Rest(m, n) \in Wires /\ IsFiniteSet(Asks(Rest(m, n), a, key))
         /\ Cardinality(Asks(Rest(m, n), a, key)) <= Cardinality(Asks(wire, a, key))
<1> DEFINE d == Rest(m, n)
           q == wire[<<m, n>>]
           f == [x \in Asks(d, a, key) |-> IF x[1] = <<m, n>> THEN <<x[1], x[2] + 1>> ELSE x]
<1>1. <<m, n>> \in Edge /\ wire \in Wires /\ q \in Seq(Message) /\ q # <<>>
  BY DEF TypeOK, Wires, Edge
<1>2. Tail(q) \in Seq(Message)
      /\ \A i \in 1 .. Len(Tail(q)) : i + 1 \in 1 .. Len(q) /\ Tail(q)[i] = q[i + 1]
  BY <1>1
<1>3. d[<<m, n>>] = Tail(q) /\ \A e \in Edge : e # <<m, n>> => d[e] = wire[e]
  BY <1>1 DEF Rest, Wires
<1>4. d \in Wires
  BY <1>1, <1>2 DEF Rest, Wires
<1>5. ASSUME NEW x \in Asks(d, a, key)
      PROVE  f[x] \in Asks(wire, a, key)
  <2>1. x \in Edge \X Nat /\ x[2] \in 1 .. Len(d[x[1]]) /\ IsAsk(d[x[1]][x[2]], a, key)
    BY DEF Asks
  <2>2. CASE x[1] = <<m, n>>
    <3>1. x[2] + 1 \in 1 .. Len(q) /\ IsAsk(q[x[2] + 1], a, key)
      BY <1>2, <1>3, <2>1, <2>2
    <3>2. f[x] = <<<<m, n>>, x[2] + 1>> /\ x[2] + 1 \in Nat
      BY <2>1, <2>2
    <3>3. <<<<m, n>>, x[2] + 1>> \in Asks(wire, a, key)
      BY <1>1, <3>1, <3>2 DEF Asks
    <3>4. QED
      BY <3>2, <3>3
  <2>3. CASE x[1] # <<m, n>>
    BY <1>3, <2>1, <2>3 DEF Asks
  <2>4. QED
    BY <2>2, <2>3
<1>6. ASSUME NEW x \in Asks(d, a, key), NEW y \in Asks(d, a, key), f[x] = f[y]
      PROVE  x = y
  <2>1. x \in Edge \X Nat /\ y \in Edge \X Nat
    BY DEF Asks
  <2>2. x = <<x[1], x[2]>> /\ y = <<y[1], y[2]>> /\ x[2] \in Nat /\ y[2] \in Nat
    BY <2>1
  <2>3. /\ f[x] = IF x[1] = <<m, n>> THEN <<x[1], x[2] + 1>> ELSE <<x[1], x[2]>>
        /\ f[y] = IF y[1] = <<m, n>> THEN <<y[1], y[2] + 1>> ELSE <<y[1], y[2]>>
    BY <2>2
  <2>4. x[1] = y[1] /\ x[2] = y[2]
    BY <1>6, <2>2, <2>3
  <2>5. QED
    BY <2>2, <2>4
<1>7. f \in Injection(Asks(d, a, key), Asks(wire, a, key))
  <2>1. f \in [Asks(d, a, key) -> Asks(wire, a, key)]
    BY <1>5
  <2>2. \A x, y \in DOMAIN f : f[x] = f[y] => x = y
    BY <1>6
  <2> HIDE DEF f
  <2>3. QED
    BY <2>1, <2>2 DEF Injection, IsInjective
<1> QED BY <1>4, <1>7, FS_Injection

-----------------------------------------------------------------------------
(***************************************************************************)
(* The steps.                                                              *)
(***************************************************************************)

\* The requests of a for key on connections w are not more than on wire.
NoMore(w, a, key) ==
  IsFiniteSet(Asks(w, a, key)) /\ Cardinality(Asks(w, a, key)) <= Cardinality(Asks(wire, a, key))

\* A part of requests that are not more than those on wire is not more either.
LEMMA FewerAsks ==
  ASSUME NEW v, NEW w, NEW a, NEW key, Asks(v, a, key) \subseteq Asks(w, a, key), NoMore(w, a, key),
         IsFiniteSet(Asks(wire, a, key))
  PROVE  NoMore(v, a, key)
<1>1. IsFiniteSet(Asks(v, a, key)) /\ Cardinality(Asks(v, a, key)) <= Cardinality(Asks(w, a, key))
  BY FS_Subset DEF NoMore
<1>2. /\ Cardinality(Asks(v, a, key)) \in Nat /\ Cardinality(Asks(w, a, key)) \in Nat
      /\ Cardinality(Asks(wire, a, key)) \in Nat
  BY <1>1, FS_CardinalityType DEF NoMore
<1> QED BY <1>1, <1>2 DEF NoMore

\* The relaying of an announcement or of a registration.
LEMMA RelayedWires ==
  ASSUME NEW w \in Wires, NEW n \in Node, NEW from, NEW msg \in Message, msg.type # "REQUEST"
  PROVE  /\ Relayed(w, n, from, msg) \in Wires
         /\ \A a, key : Asks(Relayed(w, n, from, msg), a, key) \subseteq Asks(w, a, key)
<1> DEFINE next == [msg EXCEPT !.ttl = @ - 1]
<1>1. CASE msg.ttl > 0
  <2>1. msg.ttl \in 0 .. Hops /\ Hops \in Nat
    BY GossipAssumption DEF Message
  <2>2. msg.ttl - 1 \in 0 .. Hops
    BY <1>1, <2>1
  <2>3. next \in Message /\ next.type = msg.type
    <3>1. CASE msg \in [type : {"ANNOUNCE"}, id : Id, ttl : 0 .. Hops]
      <4>1. next \in [type : {"ANNOUNCE"}, id : Id, ttl : 0 .. Hops] /\ next.type = msg.type
        BY <2>2, <3>1
      <4>2. QED
        BY <4>1 DEF Message
    <3>2. CASE msg \in [type : {"REGISTER"}, from : Node, ttl : 0 .. Hops]
      <4>1. next \in [type : {"REGISTER"}, from : Node, ttl : 0 .. Hops] /\ next.type = msg.type
        BY <2>2, <3>2
      <4>2. QED
        BY <4>1 DEF Message
    <3>3. msg \notin [type : {"REQUEST"}, key : Key, from : Node]
      OBVIOUS
    <3>4. QED
      BY <3>1, <3>2, <3>3 DEF Message
  <2>4. Relayed(w, n, from, msg) = Written(w, n, Node \ {from}, next)
    BY <1>1 DEF Relayed
  <2> HIDE DEF next
  <2>5. \A a, key : ~IsAsk(next, a, key)
    BY <2>3 DEF IsAsk
  <2>6. QED
    BY <2>3, <2>4, <2>5, WrittenWires, WrittenNews
<1>2. CASE ~(msg.ttl > 0)
  BY <1>2 DEF Relayed
<1> QED BY <1>1, <1>2

\* Nothing is on connections w that are not up according to l.
Quiet(l, w) ==
  l \in [Edge -> {"none", "up", "closed", "reset"}] /\ \A e \in Edge : l[e] # "up" => w[e] = <<>>

\* Marking connections as used opens none.
LEMMA UsedQuiet ==
  ASSUME NEW l, NEW w, NEW n, NEW to, Quiet(l, w)
  PROVE  Quiet(Used(l, n, to), w)
<1> DEFINE d == Used(l, n, to)
<1>1. \A e \in Edge : d[e] = l[e] \/ d[e] = Noticed(l[e])
  BY DEF Used
<1>2. \A e \in Edge : /\ Noticed(l[e]) \in {"none", "up", "closed", "reset"}
                      /\ Noticed(l[e]) = "up" <=> l[e] = "up"
  BY DEF Noticed, Quiet
<1>3. d \in [Edge -> {"none", "up", "closed", "reset"}]
  <2>1. \A e \in Edge : d[e] \in {"none", "up", "closed", "reset"}
    BY <1>1, <1>2 DEF Quiet
  <2>2. d = [e \in Edge |-> d[e]]
    BY DEF Used
  <2> HIDE DEF d
  <2>3. QED
    BY <2>1, <2>2
<1> HIDE DEF d
<1>4. Quiet(d, w)
  BY <1>1, <1>2, <1>3 DEF Quiet
<1> QED BY <1>4 DEF d

\* A write puts nothing on a connection that is not up.
LEMMA WrittenQuiet ==
  ASSUME NEW w \in Wires, NEW n \in Node, NEW to, NEW msg \in Message, Quiet(link, w)
  PROVE  Quiet(link, Written(w, n, to, msg))
  BY WrittenWires DEF Quiet

\* Nor does passing a message on.
LEMMA RelayedQuiet ==
  ASSUME NEW w \in Wires, NEW n \in Node, NEW from, NEW msg, Quiet(link, w)
  PROVE  Quiet(link, Relayed(w, n, from, msg))
  BY DEF Quiet, Relayed, Written

\* Nor does reading one.
LEMMA RestQuiet ==
  ASSUME TypeOK, NEW m \in Node, NEW n \in Node, wire[<<m, n>>] # <<>>
  PROVE  Quiet(link, wire) /\ Quiet(link, Rest(m, n))
<1>1. /\ \A e \in Edge : e # <<m, n>> => Rest(m, n)[e] = wire[e]
      /\ <<m, n>> \in Edge
      /\ Quiet(link, wire)
  BY DEF TypeOK, Rest, Quiet, Edge
<1>2. link[<<m, n>>] = "up"
  BY <1>1 DEF Quiet
<1> QED BY <1>1, <1>2 DEF Quiet

\* Closing a connection drops what is on it, and adds nothing.
LEMMA ClosedQuiet ==
  ASSUME TypeOK, NEW m \in Node, NEW n \in Node, Closed(m, n)
  PROVE  /\ wire' \in Wires /\ Quiet(link', wire')
         /\ \A a, key : Asks(wire', a, key) \subseteq Asks(wire, a, key)
<1>1. wire \in Wires /\ Quiet(link, wire) /\ <<m, n>> \in Edge
  BY DEF TypeOK, Wires, Quiet, Edge
<1>2. wire' = [wire EXCEPT ![<<m, n>>] = <<>>]
  BY DEF Closed
<1>3. wire' \in Wires
  BY <1>1, <1>2 DEF Wires
<1>4. \A e \in Edge : wire'[e] = IF e = <<m, n>> THEN <<>> ELSE wire[e]
  BY <1>1, <1>2 DEF Wires
<1>5. PICK state \in {"closed", "reset"} : link' = [link EXCEPT ![<<m, n>>] = state]
  BY DEF Closed
<1>6. Quiet(link', wire')
  BY <1>1, <1>4, <1>5 DEF Quiet
<1>7. ASSUME NEW a, NEW key, NEW x \in Asks(wire', a, key)
      PROVE  x \in Asks(wire, a, key)
  <2>1. x \in Edge \X Nat /\ x[2] \in 1 .. Len(wire'[x[1]]) /\ IsAsk(wire'[x[1]][x[2]], a, key)
    BY DEF Asks
  <2>2. x[1] \in Edge
    BY <2>1
  <2>3. wire'[x[1]] # <<>>
    BY <2>1
  <2>4. wire'[x[1]] = wire[x[1]]
    BY <1>4, <2>2, <2>3
  <2>5. QED
    BY <2>1, <2>4 DEF Asks
<1> QED BY <1>3, <1>6, <1>7

\* What a step does to the connections and to what is on them.
AskStep ==
  \/ /\ \A a \in Node, key \in Key : NoMore(wire', a, key)
     /\ UNCHANGED seen \/ \E n \in Node, id \in Id : seen' = [seen EXCEPT ![n] = @ \cup {id}]
  \/ \E n \in Node, id \in Id :
       /\ id \notin seen[n] /\ seen' = [seen EXCEPT ![n] = @ \cup {id}]
       /\ \A a \in Node, key \in Key :
            \/ NoMore(wire', a, key)
            \/ /\ a = n /\ key = KeyOf(id.item) /\ IsFiniteSet(Asks(wire', a, key))
               /\ Cardinality(Asks(wire', a, key)) <= Cardinality(Asks(wire, a, key)) + 1

WireStep == wire' \in Wires /\ Quiet(link', wire') /\ AskStep

\* What GossipInv says of the connections.
LEMMA Same ==
  ASSUME GossipInv
  PROVE  wire \in Wires /\ Quiet(link, wire) /\ \A a \in Node, key \in Key : NoMore(wire, a, key)
<1>1. \A a \in Node, key \in Key : IsFiniteSet(Asks(wire, a, key))
  BY DEF GossipInv, AsksMatch
<1>2. \A a \in Node, key \in Key : NoMore(wire, a, key)
  BY <1>1, FS_CardinalityType DEF NoMore
<1> QED BY <1>2 DEF GossipInv, TypeOK, Quiet, Wires

\* A broadcast of something other than a request.
LEMMA BroadcastStep ==
  ASSUME GossipInv, NEW n \in Node, NEW msg \in Message, msg.type # "REQUEST",
         Broadcast(n, msg), UNCHANGED seen
  PROVE  WireStep
<1>1. wire \in Wires /\ Quiet(link, wire) /\ \A a \in Node, key \in Key : NoMore(wire, a, key)
  BY Same
<1>2. wire' = Written(wire, n, Node, msg) /\ link' = Used(link, n, Node)
  BY DEF Broadcast
<1>3. wire' \in Wires /\ Quiet(link', wire')
  BY <1>1, <1>2, WrittenWires, WrittenQuiet, UsedQuiet
<1>4. ASSUME NEW a \in Node, NEW key \in Key
      PROVE  NoMore(wire', a, key)
  <2>1. ~IsAsk(msg, a, key)
    BY DEF IsAsk
  <2>2. Asks(wire', a, key) \subseteq Asks(wire, a, key)
    BY <1>1, <1>2, <2>1, WrittenNews
  <2>3. NoMore(wire, a, key) /\ IsFiniteSet(Asks(wire, a, key))
    BY <1>1 DEF NoMore
  <2>4. QED
    BY <2>2, <2>3, FewerAsks
<1> QED BY <1>3, <1>4 DEF WireStep, AskStep

\* The first message is read, if it is one.
LEMMA RestStep ==
  ASSUME GossipInv, NEW m \in Node, NEW n \in Node, wire[<<m, n>>] # <<>>
  PROVE  /\ Head(wire[<<m, n>>]) \in Message
         /\ Rest(m, n) \in Wires /\ Quiet(link, Rest(m, n))
         /\ \A a \in Node, key \in Key : NoMore(Rest(m, n), a, key)
<1>1. TypeOK /\ \A a \in Node, key \in Key : IsFiniteSet(Asks(wire, a, key))
  BY DEF GossipInv, AsksMatch
<1>2. wire[<<m, n>>] \in Seq(Message)
  BY <1>1 DEF TypeOK, Edge
<1>3. Rest(m, n) \in Wires
  <2>1. <<m, n>> \in Edge /\ Tail(wire[<<m, n>>]) \in Seq(Message)
    BY <1>2 DEF Edge
  <2>2. QED
    BY <1>1, <2>1 DEF TypeOK, Rest, Wires
<1>4. \A a \in Node, key \in Key : NoMore(Rest(m, n), a, key)
  BY <1>1, RestAsks DEF NoMore
<1> QED BY <1>1, <1>2, <1>3, <1>4, RestQuiet

\* The handler of an announcement: the filter, the request and the relaying.
LEMMA AnnounceStep ==
  ASSUME GossipInv, NEW m \in Node, NEW n \in Node, ReceiveAnnounce(m, n)
  PROVE  WireStep
<1> DEFINE msg == Head(wire[<<m, n>>])
           to  == IF Wants(n, msg.id.item) THEN {msg.id.from} ELSE {}
           ask == [type |-> "REQUEST", key |-> KeyOf(msg.id.item), from |-> n]
           w   == Written(Rest(m, n), n, to, ask)
<1>1. wire[<<m, n>>] # <<>> /\ msg.type = "ANNOUNCE" /\ seen' = [seen EXCEPT ![n] = @ \cup {msg.id}]
  BY DEF ReceiveAnnounce, Reads
<1>2. msg \in Message
  BY <1>1, RestStep
<1>3. msg.id \in Id /\ msg.id.item \in Item /\ msg.id.from \in Node
  BY <1>1, <1>2 DEF Message, Id
<1>4. ask \in Message /\ to \in SUBSET {msg.id.from}
  BY <1>3, KeyOfItem DEF Message
<1>5. TypeOK /\ \A a \in Node, key \in Key : IsFiniteSet(Asks(wire, a, key)) /\ NoMore(wire, a, key)
  BY Same DEF GossipInv, AsksMatch
<1>6. ASSUME HandleAnnounce(m, n, msg)
      PROVE  WireStep
  <2>1. /\ msg.id \notin seen[n]
        /\ wire' = Relayed(w, n, msg.id.from, msg)
        /\ link' = RelayUsed(Used(link, n, to), n, msg.id.from, msg)
    BY <1>6 DEF HandleAnnounce, AskAndRelay
  <2>2. Rest(m, n) \in Wires /\ Quiet(link, Rest(m, n))
        /\ \A a \in Node, key \in Key : NoMore(Rest(m, n), a, key)
    BY <1>1, RestStep
  <2>3. w \in Wires /\ Quiet(link, w)
    BY <1>4, <2>2, WrittenWires, WrittenQuiet
  <2> HIDE DEF msg, to, ask
  <2>4. wire' \in Wires /\ Quiet(link, wire') /\ \A a, key : Asks(wire', a, key) \subseteq Asks(w, a, key)
    BY <1>1, <1>2, <2>1, <2>3, RelayedWires, RelayedQuiet
  <2>5. Quiet(link', wire')
    BY <2>1, <2>4, UsedQuiet DEF RelayUsed
  <2>6. ASSUME NEW a \in Node, NEW key \in Key, ~(a = n /\ key = KeyOf(msg.id.item))
        PROVE  NoMore(wire', a, key)
    <3>1. ~IsAsk(ask, a, key)
      BY <2>6 DEF IsAsk, ask
    <3>2. Asks(w, a, key) \subseteq Asks(Rest(m, n), a, key)
      BY <1>4, <2>2, <3>1, WrittenNews
    <3>3. NoMore(w, a, key)
      BY <1>5, <2>2, <3>2, FewerAsks
    <3>4. QED
      BY <1>5, <2>4, <3>3, FewerAsks
  <2>7. ASSUME NEW a \in Node, NEW key \in Key, a = n, key = KeyOf(msg.id.item)
        PROVE  /\ IsFiniteSet(Asks(wire', a, key))
               /\ Cardinality(Asks(wire', a, key)) <= Cardinality(Asks(wire, a, key)) + 1
    <3> DEFINE old == Asks(Rest(m, n), a, key)
               x   == <<<<n, msg.id.from>>, Len(Rest(m, n)[<<n, msg.id.from>>]) + 1>>
    <3>1. Asks(w, a, key) \subseteq old \cup {x}
      BY <1>3, <1>4, <2>2, WrittenAsk
    <3>2. Asks(wire', a, key) \subseteq old \cup {x}
      BY <2>4, <3>1
    <3>3. IsFiniteSet(old) /\ Cardinality(old) <= Cardinality(Asks(wire, a, key))
      BY <2>2 DEF NoMore
    <3> HIDE DEF old, x
    <3>4. IsFiniteSet(old \cup {x}) /\ Cardinality(old \cup {x}) <= Cardinality(old) + 1
      <4>1. Cardinality(old) \in Nat
        BY <3>3, FS_CardinalityType
      <4>2. /\ IsFiniteSet(old \cup {x})
            /\ Cardinality(old \cup {x}) = IF x \in old THEN Cardinality(old) ELSE Cardinality(old) + 1
        BY <3>3, FS_AddElement
      <4>3. QED
        BY <4>1, <4>2
    <3>5. IsFiniteSet(Asks(wire', a, key))
          /\ Cardinality(Asks(wire', a, key)) <= Cardinality(old \cup {x})
      BY <3>2, <3>4, FS_Subset
    <3>6. /\ Cardinality(Asks(wire', a, key)) \in Nat /\ Cardinality(old \cup {x}) \in Nat
          /\ Cardinality(old) \in Nat /\ Cardinality(Asks(wire, a, key)) \in Nat
      BY <1>5, <3>3, <3>4, <3>5, FS_CardinalityType
    <3>7. QED
      BY <3>3, <3>4, <3>5, <3>6
  <2>8. AskStep
    BY <1>1, <1>3, <2>1, <2>6, <2>7 DEF AskStep
  <2>9. QED
    BY <2>4, <2>5, <2>8 DEF WireStep
<1>7. ASSUME FailAnnounce(m, n, msg)
      PROVE  WireStep
  <2>1. /\ wire' \in Wires /\ Quiet(link', wire')
        /\ \A a, key : Asks(wire', a, key) \subseteq Asks(wire, a, key)
    BY <1>5, <1>7, ClosedQuiet DEF FailAnnounce
  <2>2. \A a \in Node, key \in Key : NoMore(wire', a, key)
    BY <1>5, <2>1, FewerAsks
  <2> HIDE DEF msg
  <2>3. QED
    BY <1>1, <1>3, <2>1, <2>2 DEF WireStep, AskStep
<1> QED BY <1>6, <1>7 DEF ReceiveAnnounce

\* What a step may do to the connections.
LEMMA WireSteps ==
  ASSUME GossipInv, [Next]_vars
  PROVE  WireStep
<1>0. /\ wire \in Wires /\ Quiet(link, wire) /\ \A a \in Node, key \in Key : NoMore(wire, a, key)
      /\ TypeOK
  BY Same DEF GossipInv
<1>f. \A a \in Node, key \in Key : IsFiniteSet(Asks(wire, a, key))
  BY DEF GossipInv, AsksMatch
<1>1. ASSUME NEW n \in Node, NEW i \in Item, Announce(n, i)
      PROVE  WireStep
  <2> DEFINE msg == [type |-> "ANNOUNCE", id |-> NextId(n, i), ttl |-> Hops]
  <2>1. NextId(n, i) \in Id
    BY <1>0 DEF NextId, Id, TypeOK
  <2>2. msg \in [type : {"ANNOUNCE"}, id : Id, ttl : 0 .. Hops]
    BY <2>1, GossipAssumption
  <2>3. msg \in Message /\ msg.type # "REQUEST"
    BY <2>2 DEF Message
  <2>4. Broadcast(n, msg) /\ UNCHANGED seen
    BY <1>1 DEF Announce
  <2> HIDE DEF msg
  <2>5. QED
    BY <2>3, <2>4, BroadcastStep
<1>2. ASSUME NEW n \in Node, Register(n)
      PROVE  WireStep
  <2> DEFINE msg == [type |-> "REGISTER", from |-> n, ttl |-> Hops]
  <2>1. msg \in [type : {"REGISTER"}, from : Node, ttl : 0 .. Hops]
    BY GossipAssumption
  <2>2. msg \in Message /\ msg.type # "REQUEST"
    BY <2>1 DEF Message
  <2>3. Broadcast(n, msg) /\ UNCHANGED seen
    BY <1>2 DEF Register
  <2> HIDE DEF msg
  <2>4. QED
    BY <2>2, <2>3, BroadcastStep
<1>3. ASSUME NEW n \in Node, Discover(n)
      PROVE  WireStep
  <2>1. UNCHANGED <<wire, seen>>
    BY <1>3 DEF Discover
  <2>2. ASSUME NEW e \in Edge
        PROVE  /\ link'[e] \in {"up", Noticed(link[e]), link[e]}
               /\ link'[e] # "up" => link[e] # "up"
    BY <1>0, <1>3 DEF Discover, Noticed, Quiet
  <2>3. link' \in [Edge -> {"none", "up", "closed", "reset"}]
    <3>1. \A e \in Edge : link'[e] \in {"none", "up", "closed", "reset"}
      BY <1>0, <2>2 DEF Noticed, Quiet
    <3>2. link' = [e \in Edge |-> link'[e]]
      BY <1>3 DEF Discover
    <3>3. QED
      BY <3>1, <3>2
  <2>4. Quiet(link', wire')
    BY <1>0, <2>1, <2>2, <2>3 DEF Quiet
  <2>5. QED
    BY <1>0, <2>1, <2>4 DEF WireStep, AskStep
<1>4. ASSUME NEW m \in Node, NEW n \in Node, Break(m, n)
      PROVE  WireStep
  <2>1. Closed(m, n) /\ UNCHANGED seen
    BY <1>4 DEF Break
  <2>2. /\ wire' \in Wires /\ Quiet(link', wire')
        /\ \A a, key : Asks(wire', a, key) \subseteq Asks(wire, a, key)
    BY <1>0, <2>1, ClosedQuiet
  <2>3. \A a \in Node, key \in Key : NoMore(wire', a, key)
    BY <1>0, <1>f, <2>2, FewerAsks
  <2>4. QED
    BY <2>1, <2>2, <2>3 DEF WireStep, AskStep
<1>5. ASSUME NEW m \in Node, NEW n \in Node, wire[<<m, n>>] # <<>>, wire' = Rest(m, n),
             UNCHANGED <<link, seen>>
      PROVE  WireStep
  BY <1>5, RestStep DEF WireStep, AskStep
<1>6. ASSUME NEW m \in Node, NEW n \in Node,
             ReceiveDuplicate(m, n) \/ ReceiveRequest(m, n) \/ ReceiveJobRequest(m, n)
      PROVE  WireStep
  BY <1>5, <1>6 DEF ReceiveDuplicate, ReceiveRequest, ReceiveJobRequest, AnswerFrom, Reads
<1>7. ASSUME NEW m \in Node, NEW n \in Node, ReceiveRegister(m, n)
      PROVE  WireStep
  <2> DEFINE msg == Head(wire[<<m, n>>])
  <2>1. /\ wire[<<m, n>>] # <<>> /\ msg.type = "REGISTER" /\ UNCHANGED seen
        /\ wire' = Relayed(Rest(m, n), n, msg.from, msg)
        /\ link' = RelayUsed(link, n, msg.from, msg)
    BY <1>7 DEF ReceiveRegister, Reads
  <2>2. /\ msg \in Message /\ Rest(m, n) \in Wires /\ Quiet(link, Rest(m, n))
        /\ \A a \in Node, key \in Key : NoMore(Rest(m, n), a, key)
    BY <2>1, RestStep
  <2> HIDE DEF msg
  <2>3. /\ wire' \in Wires /\ Quiet(link, wire')
        /\ \A a, key : Asks(wire', a, key) \subseteq Asks(Rest(m, n), a, key)
    BY <2>1, <2>2, RelayedWires, RelayedQuiet
  <2>4. Quiet(link', wire')
    BY <2>1, <2>3, UsedQuiet DEF RelayUsed
  <2>5. \A a \in Node, key \in Key : NoMore(wire', a, key)
    BY <1>f, <2>2, <2>3, FewerAsks
  <2>6. QED
    BY <2>1, <2>3, <2>4, <2>5 DEF WireStep, AskStep
<1>8. ASSUME UNCHANGED vars
      PROVE  WireStep
  BY <1>0, <1>8 DEF vars, WireStep, AskStep
<1>9. ASSUME NEW m \in Node, NEW n \in Node, Deliver(m, n)
      PROVE  WireStep
  BY <1>6, <1>7, <1>9, AnnounceStep DEF Deliver
<1>10. ASSUME NEW n \in Node, NEW i \in Item, AnnounceItem(n, i) \/ BroadcastJob(n, i) \/ Reannounce(n, i)
       PROVE  WireStep
  BY <1>1, <1>10 DEF AnnounceItem, BroadcastJob, Publish, Reannounce
<1> QED BY <1>2, <1>3, <1>4, <1>8, <1>9, <1>10 DEF Next

\* A step keeps the types.
LEMMA TypeStep ==
  ASSUME GossipInv, [Next]_vars
  PROVE  TypeOK'
<1>0. TypeOK
  BY DEF GossipInv
<1>1. /\ link' \in [Edge -> {"none", "up", "closed", "reset"}]
      /\ wire' \in [Edge -> Seq(Message)]
      /\ \A e \in Edge : link'[e] # "up" => wire'[e] = <<>>
  BY WireSteps DEF WireStep, Quiet, Wires
<1>2. seen' \in [Node -> SUBSET Id]
  <2>1. UNCHANGED seen \/ \E n \in Node, id \in Id : seen' = [seen EXCEPT ![n] = @ \cup {id}]
    BY WireSteps DEF WireStep, AskStep
  <2>2. QED
    BY <1>0, <2>1 DEF TypeOK
<1>3. pending' \in [Node -> SUBSET Item]
  <2>1. UNCHANGED pending \/ \E n \in Node, i \in Item : pending' = [pending EXCEPT ![n] = @ \cup {i}]
    BY ZenonT(60) DEF Next, vars, AnnounceItem, BroadcastJob, Publish, Reannounce, Register, Discover, Deliver,
           Break, ReceiveAnnounce, ReceiveDuplicate, ReceiveRequest, ReceiveJobRequest, AnswerFrom,
           ReceiveRegister
  <2>2. QED
    BY <1>0, <2>1 DEF TypeOK
<1>4. sent' \in Nat /\ broken' \in Nat
  <2>1. sent' \in {sent, sent + 1}
    BY ZenonT(60) DEF Next, vars, AnnounceItem, BroadcastJob, Publish, Announce, Reannounce, Register, Discover,
           Deliver, Break, ReceiveAnnounce, ReceiveDuplicate, ReceiveRequest, ReceiveJobRequest,
           AnswerFrom, ReceiveRegister
  <2>2. broken' \in {broken, broken + 1}
    BY ZenonT(60) DEF Next, vars, AnnounceItem, BroadcastJob, Publish, Announce, Reannounce, Register, Discover,
           Deliver, Break, ReceiveAnnounce, ReceiveDuplicate, ReceiveRequest, ReceiveJobRequest,
           AnswerFrom, ReceiveRegister
  <2>3. QED
    BY <1>0, <2>1, <2>2 DEF TypeOK
<1>5. registered' \in [Node -> SUBSET Node]
  <2>1. ASSUME NEW m \in Node, NEW n \in Node, ReceiveRegister(m, n)
        PROVE  registered' \in [Node -> SUBSET Node]
    <3> DEFINE msg == Head(wire[<<m, n>>])
    <3>1. /\ wire[<<m, n>>] # <<>> /\ msg.type = "REGISTER"
          /\ registered' = [registered EXCEPT ![n] = @ \cup {msg.from}]
      BY <2>1 DEF ReceiveRegister, Reads
    <3>2. msg \in Message
      BY <3>1, RestStep
    <3>3. msg.from \in Node
      BY <3>1, <3>2 DEF Message
    <3> HIDE DEF msg
    <3>4. QED
      BY <1>0, <3>1, <3>3 DEF TypeOK
  <2>2. ASSUME ~ \E m, n \in Node : ReceiveRegister(m, n)
        PROVE  UNCHANGED registered
    BY <2>2, ZenonT(60) DEF Next, vars, AnnounceItem, BroadcastJob, Publish, Announce, Reannounce, Register, Discover,
                Deliver, Break, ReceiveAnnounce, ReceiveDuplicate, ReceiveRequest, ReceiveJobRequest,
                AnswerFrom
  <2>3. QED
    BY <1>0, <2>1, <2>2 DEF TypeOK
<1>6. back' \in [Edge -> SUBSET Item]
  <2>1. ASSUME NEW m \in Node, NEW n \in Node, NEW book \in SUBSET Item, AnswerFrom(m, n, book)
        PROVE  back' \in [Edge -> SUBSET Item]
    BY <1>0, <2>1 DEF AnswerFrom, TypeOK
  <2>2. ASSUME NEW n \in Node, Discover(n)
        PROVE  back' \in [Edge -> SUBSET Item]
    BY <1>0, <2>2 DEF Discover, TypeOK
  <2>3. \A n \in Node : pending[n] \cap Job \in SUBSET Item /\ pending[n] \ Job \in SUBSET Item
    BY <1>0 DEF TypeOK
  <2>4. ASSUME NEW m \in Node, NEW n \in Node, ReceiveRequest(m, n) \/ ReceiveJobRequest(m, n)
        PROVE  back' \in [Edge -> SUBSET Item]
    BY <2>1, <2>3, <2>4 DEF ReceiveRequest, ReceiveJobRequest
  <2>5. ASSUME ~ \E m, n \in Node : ReceiveRequest(m, n) \/ ReceiveJobRequest(m, n),
               ~ \E n \in Node : Discover(n)
        PROVE  UNCHANGED back
    BY <2>5 DEF Next, vars, AnnounceItem, BroadcastJob, Publish, Announce, Reannounce, Register, Deliver,
                Break, ReceiveAnnounce, ReceiveDuplicate, ReceiveRegister
  <2>6. QED
    BY <1>0, <2>2, <2>4, <2>5 DEF TypeOK
<1> QED BY <1>1, <1>2, <1>3, <1>4, <1>5, <1>6 DEF TypeOK

\* A step sends a request only for what was not seen, and marks it as seen.
LEMMA AsksStep ==
  ASSUME GossipInv, [Next]_vars
  PROVE  AsksMatch' /\ \A a \in Node : IsFiniteSet(seen'[a])
<1>0. /\ seen \in [Node -> SUBSET Id] /\ AskStep /\ \A a \in Node : IsFiniteSet(seen[a])
      /\ \A a \in Node, key \in Key :
           /\ IsFiniteSet(Asks(wire, a, key))
           /\ Cardinality(Asks(wire, a, key)) <= Cardinality(News(a, key))
  BY WireSteps DEF GossipInv, TypeOK, AsksMatch, WireStep
<1>1. ASSUME NEW a \in Node
      PROVE  IsFiniteSet(seen'[a]) /\ (seen'[a] = seen[a] \/ \E id \in Id : seen'[a] = seen[a] \cup {id})
  <2>1. seen'[a] = seen[a] \/ \E id \in Id : seen'[a] = seen[a] \cup {id}
    BY <1>0 DEF AskStep
  <2>2. QED
    BY <1>0, <2>1, FS_AddElement
<1>2. ASSUME NEW a \in Node, NEW key \in Key
      PROVE  /\ IsFiniteSet(Asks(wire', a, key))
             /\ Cardinality(Asks(wire', a, key)) <= Cardinality(News(a, key)')
  <2> DEFINE c == Cardinality(Asks(wire, a, key))
             d == Cardinality(Asks(wire', a, key))
  <2>1. /\ News(a, key) \subseteq seen[a] /\ IsFiniteSet(News(a, key))
        /\ News(a, key)' \subseteq seen'[a] /\ IsFiniteSet(News(a, key)')
        /\ News(a, key) \subseteq News(a, key)'
    <3>1. /\ News(a, key) \subseteq seen[a] /\ News(a, key)' \subseteq seen'[a]
          /\ News(a, key) \subseteq News(a, key)'
      BY <1>1 DEF News
    <3>2. QED
      BY <1>0, <1>1, <3>1, FS_Subset
  <2>2. /\ Cardinality(News(a, key)) <= Cardinality(News(a, key)')
        /\ Cardinality(News(a, key)) \in Nat /\ Cardinality(News(a, key)') \in Nat
    BY <2>1, FS_Subset, FS_CardinalityType
  <2>3. c \in Nat /\ c <= Cardinality(News(a, key))
    BY <1>0, FS_CardinalityType
  <2>4. ASSUME NoMore(wire', a, key)
        PROVE  IsFiniteSet(Asks(wire', a, key)) /\ d <= Cardinality(News(a, key)')
    <3>1. IsFiniteSet(Asks(wire', a, key)) /\ d <= c
      BY <2>4 DEF NoMore
    <3>2. d \in Nat
      BY <3>1, FS_CardinalityType
    <3> HIDE DEF c, d
    <3>3. QED
      BY <2>2, <2>3, <3>1, <3>2
  <2>5. ASSUME NEW id \in Id, id \notin seen[a], seen' = [seen EXCEPT ![a] = @ \cup {id}],
               key = KeyOf(id.item), IsFiniteSet(Asks(wire', a, key)), d <= c + 1
        PROVE  d <= Cardinality(News(a, key)')
    <3>1. News(a, key)' = News(a, key) \cup {id} /\ id \notin News(a, key)
      BY <1>0, <2>5 DEF News
    <3>2. Cardinality(News(a, key)') = Cardinality(News(a, key)) + 1
      BY <2>1, <3>1, FS_AddElement
    <3>3. d \in Nat
      BY <2>5, FS_CardinalityType
    <3> HIDE DEF c, d
    <3>4. QED
      BY <2>2, <2>3, <2>5, <3>2, <3>3
  <2>6. QED
    BY <1>0, <2>4, <2>5 DEF AskStep
<1>3. AsksMatch'
  BY <1>2 DEF AsksMatch
<1> QED BY <1>1, <1>3

\* The initial states satisfy GossipInv.
LEMMA InitGossip == Init => GossipInv
<1> SUFFICES ASSUME Init PROVE GossipInv
  OBVIOUS
<1>1. \A e \in Edge : link[e] \in {"none", "up"} /\ wire[e] = <<>>
  BY DEF Init
<1>2. TypeOK
  BY <1>1, GossipAssumption DEF Init, TypeOK
<1>3. ASSUME NEW a \in Node, NEW key \in Key
      PROVE  Asks(wire, a, key) = {} /\ News(a, key) = {} /\ seen[a] = {}
  BY <1>1 DEF Init, Asks, News
<1>4. IsFiniteSet({}) /\ Cardinality({}) = 0
  BY FS_EmptySet
<1>5. \A a \in Node : seen[a] = {}
  BY DEF Init
<1>6. AsksMatch
  BY <1>3, <1>4 DEF AsksMatch
<1> QED BY <1>2, <1>4, <1>5, <1>6 DEF GossipInv

\* GossipInv is inductive.
LEMMA GossipStep == GossipInv /\ [Next]_vars => GossipInv'
  BY TypeStep, AsksStep DEF GossipInv

\* GossipInv holds in every state.
THEOREM GossipInvariant == Spec => []GossipInv
  BY InitGossip, GossipStep, PTL DEF Spec

\* The variables keep their types, and nothing is on its way on a connection
\* that is not up: what a closed connection swallows (P2PTransport.send) is not
\* taken for something that is still to be read.
THEOREM GossipTypes == Spec => []TypeOK
<1>1. GossipInv => TypeOK
  BY DEF GossipInv
<1> QED BY <1>1, GossipInvariant, PTL

\* However many copies of an announcement the relays bring, by whatever ways
\* and over whatever failures, a node has no more requests for an item on their
\* way than it has handled announcements of it (the filter of
\* _handle_tx_announce and its like comes before the request).
THEOREM OneRequestEach == Spec => []AskedOnce
<1>1. ASSUME TypeOK, NEW a, NEW key
      PROVE  Requests(a, key) = Asks(wire, a, key)
  <2>1. ASSUME NEW e \in Edge
        PROVE  DOMAIN wire[e] = 1 .. Len(wire[e]) /\ 1 .. Len(wire[e]) \subseteq Nat
    <3>1. wire[e] \in Seq(Message)
      BY <1>1 DEF TypeOK
    <3>2. QED
      BY <3>1
  <2>2. \A x \in Requests(a, key) : x \in Asks(wire, a, key)
    BY <2>1 DEF Requests, Asks, IsAsk
  <2>3. ASSUME NEW x \in Asks(wire, a, key)
        PROVE  x \in Requests(a, key)
    <3>1. PICK e \in Edge, k \in Nat : x = <<e, k>>
      BY DEF Asks
    <3>2. k \in 1 .. Len(wire[e]) /\ IsAsk(wire[e][k], a, key)
      BY <3>1 DEF Asks
    <3>3. QED
      BY <2>1, <3>1, <3>2 DEF Requests, IsAsk
  <2>4. QED
    BY <2>2, <2>3
<1>2. GossipInv => AskedOnce
  BY <1>1 DEF GossipInv, AsksMatch, AskedOnce, News
<1> QED BY <1>2, GossipInvariant, PTL

=============================================================================
