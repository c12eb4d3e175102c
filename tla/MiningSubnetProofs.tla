------------------------- MODULE MiningSubnetProofs -------------------------
(***************************************************************************)
(* Claims and credits on the mining subnet, for any number of nodes,       *)
(* miners and jobs, any hop limit and any number of broken connections.    *)
(***************************************************************************)
EXTENDS MiningSubnet, FiniteSetTheorems, TLAPS

\* Node n has already got to know job j: it made it, or it has handled the
\* first copy of its announcement.
Known(n, j) ==
  \/ Author[j] = n /\ j \in made
  \/ <<"ANNOUNCE", j, Author[j]>> \in seen[n]

\* An announcement never comes back to the node that made the job.
Fit(n, msg) == msg.type = "ANNOUNCE" => msg.from = Author[msg.job] /\ msg.from # n

Channels == [Node \X Node -> Seq(Message)]

AllFit(c) == \A e \in Node \X Node : \A i \in 1 .. Len(c[e]) : Fit(e[2], c[e][i])

NoWayBack == (\A n \in Node : n \notin peers[n]) /\ AllFit(chan)

\* A node keeps and works on jobs it knows: the announcement of such a job is
\* no news to it and cannot put it back among the pending ones.
PendingKnown ==
  \A n \in Node : /\ \A j \in pending[n] : Known(n, j)
                  /\ stage[n] # "idle" => Known(n, current[n])

SubnetInv == TypeOK /\ ClaimedArePending /\ WorkerHoldsClaim /\ NoWayBack /\ PendingKnown

-----------------------------------------------------------------------------
(***************************************************************************)
(* The channels: what is sent, read and passed on.                         *)
(***************************************************************************)

\* Messages that fit their receivers can be sent.
LEMMA SentFits ==
  ASSUME NEW c \in Channels, AllFit(c), NEW n \in Node, NEW msg \in Message, NEW exclude,
         \A k \in peers[n] \ exclude : Fit(k, msg)
  PROVE  Sent(c, n, msg, exclude) \in Channels /\ AllFit(Sent(c, n, msg, exclude))
<1> DEFINE d == Sent(c, n, msg, exclude)
<1>1. ASSUME NEW e \in Node \X Node
      PROVE  d[e] \in Seq(Message) /\ \A i \in 1 .. Len(d[e]) : Fit(e[2], d[e][i])
  <2>1. c[e] \in Seq(Message) /\ \A i \in 1 .. Len(c[e]) : Fit(e[2], c[e][i])
    BY DEF Channels, AllFit
  <2>2. CASE e[1] = n /\ e[2] \in peers[n] \ exclude
    <3>1. d[e] = Append(c[e], msg)
      BY <2>2 DEF Sent
    <3>2. Fit(e[2], msg)
      BY <2>2
    <3>3. ASSUME NEW i \in 1 .. Len(d[e])
          PROVE  Fit(e[2], d[e][i])
      <4>1. \/ i = Len(c[e]) + 1 /\ d[e][i] = msg
            \/ i \in 1 .. Len(c[e]) /\ d[e][i] = c[e][i]
        BY <2>1, <3>1
      <4>2. QED
        BY <2>1, <3>2, <4>1
    <3>4. QED
      BY <2>1, <3>1, <3>3
  <2>3. CASE ~(e[1] = n /\ e[2] \in peers[n] \ exclude)
    <3>1. d[e] = c[e]
      BY <2>3 DEF Sent
    <3>2. QED
      BY <2>1, <3>1
  <2>4. QED
    BY <2>2, <2>3
<1>2. d = [e \in Node \X Node |-> d[e]]
  BY DEF Sent
<1>3. d \in Channels
  BY <1>1, <1>2 DEF Channels
<1>4. AllFit(d)
  BY <1>1 DEF AllFit
<1> QED BY <1>3, <1>4

\* A message that is received fits its receiver.
LEMMA TakenFits ==
  ASSUME TypeOK, AllFit(chan), NEW m \in Node, NEW n \in Node, chan[<<m, n>>] # <<>>
  PROVE  /\ Head(chan[<<m, n>>]) \in Message /\ Fit(n, Head(chan[<<m, n>>]))
         /\ Taken(m, n) \in Channels /\ AllFit(Taken(m, n))
<1> DEFINE d == Taken(m, n)
           q == chan[<<m, n>>]
<1>1. <<m, n>> \in Node \X Node /\ <<m, n>>[2] = n
  OBVIOUS
<1>2. chan \in Channels /\ q \in Seq(Message) /\ q # <<>>
  BY <1>1 DEF TypeOK, Channels
<1>3. 1 \in 1 .. Len(q) /\ Head(q) = q[1] /\ Head(q) \in Message
  BY <1>2
<1>4. Fit(n, Head(q))
  BY <1>1, <1>3 DEF AllFit
<1>5. d[<<m, n>>] = Tail(q) /\ \A e \in Node \X Node : e # <<m, n>> => d[e] = chan[e]
  BY <1>1, <1>2 DEF Taken, Channels
<1>6. Tail(q) \in Seq(Message) /\ \A i \in 1 .. Len(Tail(q)) : i + 1 \in 1 .. Len(q) /\ Tail(q)[i] = q[i + 1]
  BY <1>2
<1>7. d \in Channels
  BY <1>1, <1>2, <1>6 DEF Taken, Channels
<1>8. ASSUME NEW e \in Node \X Node, NEW i \in 1 .. Len(d[e])
      PROVE  Fit(e[2], d[e][i])
  <2>1. CASE e = <<m, n>>
    <3>1. \A k \in 1 .. Len(q) : Fit(n, q[k])
      BY <1>1 DEF AllFit
    <3>2. i + 1 \in 1 .. Len(q) /\ d[e][i] = q[i + 1] /\ e[2] = n
      BY <1>5, <1>6, <2>1
    <3>3. QED
      BY <3>1, <3>2
  <2>2. CASE e # <<m, n>>
    BY <1>5, <2>2 DEF AllFit
  <2>3. QED
    BY <2>1, <2>2
<1>9. AllFit(d)
  BY <1>8 DEF AllFit
<1> QED BY <1>3, <1>4, <1>7, <1>9

\* It fits those it is passed on to, too.
LEMMA RelayedFits ==
  ASSUME TypeOK, AllFit(chan), NEW m \in Node, NEW n \in Node, chan[<<m, n>>] # <<>>
  PROVE  /\ Relayed(m, n, Head(chan[<<m, n>>])) \in Channels
         /\ AllFit(Relayed(m, n, Head(chan[<<m, n>>])))
<1> DEFINE msg == Head(chan[<<m, n>>])
           next == [msg EXCEPT !.ttl = @ - 1]
<1>1. msg \in Message /\ Fit(n, msg) /\ Taken(m, n) \in Channels /\ AllFit(Taken(m, n))
  BY TakenFits
<1>2. CASE msg.ttl > 0
  <2>1. next \in Message
    BY <1>1, <1>2, MiningSubnetAssumption DEF Message
  <2>2. next.type = msg.type /\ next.job = msg.job /\ next.from = msg.from
    BY <1>1 DEF Message
  <2>3. \A k \in peers[n] \ {msg.from} : Fit(k, next)
    BY <1>1, <2>2 DEF Fit
  <2>4. Relayed(m, n, msg) = Sent(Taken(m, n), n, next, {msg.from})
    BY <1>2 DEF Relayed
  <2>5. QED
    BY <1>1, <2>1, <2>3, <2>4, SentFits
<1>3. CASE ~(msg.ttl > 0)
  BY <1>1, <1>3 DEF Relayed
<1> QED BY <1>2, <1>3

\* So does a message of one's own.
LEMMA BroadcastFits ==
  ASSUME TypeOK, NoWayBack, NEW n \in Node, NEW j \in Job,
         NEW type \in {"ANNOUNCE", "CLAIM", "RESULT"}, type = "ANNOUNCE" => Author[j] = n,
         Broadcast(n, New(type, j, n))
  PROVE  chan' \in Channels /\ AllFit(chan')
<1>1. New(type, j, n) \in Message
  BY MiningSubnetAssumption DEF New, Message
<1>2. \A k \in peers[n] \ {} : Fit(k, New(type, j, n))
  BY DEF Fit, New, NoWayBack
<1>3. chan \in Channels /\ AllFit(chan)
  BY DEF TypeOK, Channels, NoWayBack
<1>4. chan' = Sent(chan, n, New(type, j, n), {})
  BY DEF Broadcast
<1> QED BY <1>1, <1>2, <1>3, <1>4, SentFits

-----------------------------------------------------------------------------
(***************************************************************************)
(* The invariant.                                                          *)
(***************************************************************************)

\* The initial states satisfy SubnetInv.
LEMMA InitInv == Init => SubnetInv
<1> SUFFICES ASSUME Init PROVE SubnetInv
  OBVIOUS
<1>1. TypeOK
  BY MiningSubnetAssumption DEF Init, TypeOK
<1>2. ClaimedArePending /\ WorkerHoldsClaim /\ PendingKnown
  BY DEF Init, ClaimedArePending, WorkerHoldsClaim, PendingKnown
<1>3. NoWayBack
  <2>1. ASSUME NEW e \in Node \X Node
        PROVE  1 .. Len(chan[e]) = {}
    BY DEF Init
  <2>2. QED
    BY <2>1 DEF Init, NoWayBack, AllFit
<1> QED BY <1>1, <1>2, <1>3 DEF SubnetInv

\* Whatever a step does to the channels, they keep holding what fits them.
LEMMA ChannelStep ==
  ASSUME SubnetInv, [Next]_vars
  PROVE  chan' \in Channels /\ NoWayBack'
<1>0. TypeOK /\ NoWayBack /\ chan \in Channels /\ AllFit(chan)
  BY DEF SubnetInv, TypeOK, NoWayBack, Channels
<1>1. ASSUME NEW n \in Node, NEW j \in Job, MineOwn(n, j)
      PROVE  chan' \in Channels /\ AllFit(chan') /\ UNCHANGED peers
  BY <1>0, <1>1, BroadcastFits DEF MineOwn, AnnounceJob
<1>2. ASSUME NEW n \in Node, NEW j \in Job, MineSubnet(n, j)
      PROVE  chan' \in Channels /\ AllFit(chan') /\ UNCHANGED peers
  BY <1>0, <1>2, BroadcastFits DEF MineSubnet, ClaimJob
<1>3. ASSUME NEW n \in Node, SubnetJobDone(n)
      PROVE  chan' \in Channels /\ AllFit(chan') /\ UNCHANGED peers
  <2>1. current[n] \in Job
    BY <1>0, <1>3 DEF SubnetJobDone, TypeOK
  <2>2. QED
    BY <1>0, <1>3, <2>1, BroadcastFits DEF SubnetJobDone, SubmitResult
<1>4. ASSUME NEW m \in Node, NEW n \in Node, Deliver(m, n)
      PROVE  chan' \in Channels /\ AllFit(chan') /\ UNCHANGED peers
  <2>1. /\ chan[<<m, n>>] # <<>> /\ UNCHANGED peers
        /\ chan' \in {Taken(m, n), Relayed(m, n, Head(chan[<<m, n>>]))}
    BY <1>4 DEF Deliver, Duplicate, ReceiveAnnounce, ReceiveClaim, ReceiveResult, FirstIs
  <2>2. QED
    BY <1>0, <2>1, TakenFits, RelayedFits
<1>5. ASSUME NEW m \in Node, NEW n \in Node, Break(m, n)
      PROVE  /\ chan' \in Channels /\ AllFit(chan')
             /\ \A k \in Node : peers'[k] \subseteq peers[k]
  <2>1. chan' = [chan EXCEPT ![<<m, n>>] = <<>>]
    BY <1>5 DEF Break
  <2>2. chan' \in Channels
    BY <1>0, <2>1 DEF Channels
  <2>3. \A e \in Node \X Node : chan'[e] \in {<<>>, chan[e]}
    BY <1>0, <2>1 DEF Channels
  <2>4. AllFit(chan')
    BY <1>0, <2>3 DEF AllFit
  <2>5. \A k \in Node : peers'[k] \subseteq peers[k]
    BY <1>0, <1>5 DEF Break, TypeOK
  <2>6. QED
    BY <2>2, <2>4, <2>5
<1>6. ASSUME \/ \E n \in Node : WorkEnds(n) \/ \E stale \in SUBSET Job : Cleanup(n, stale)
             \/ UNCHANGED vars
      PROVE  UNCHANGED <<chan, peers>>
  BY <1>6 DEF WorkEnds, Cleanup, vars
<1> QED BY <1>0, <1>1, <1>2, <1>3, <1>4, <1>5, <1>6 DEF Next, NoWayBack

\* What Forget removes, and that it touches nothing else.
LEMMA Forgotten ==
  ASSUME TypeOK, NEW n \in Node, NEW jobs, Forget(n, jobs)
  PROVE  /\ pending' \in [Node -> SUBSET Job]
         /\ claimed' \in [Node -> [Job -> Node \cup {Nobody}]]
         /\ \A k \in Node : pending'[k] = IF k = n THEN pending[k] \ jobs ELSE pending[k]
         /\ \A k \in Node, j \in Job :
              claimed'[k][j] = IF k = n /\ j \in jobs THEN Nobody ELSE claimed[k][j]
<1>1. /\ pending \in [Node -> SUBSET Job]
      /\ claimed \in [Node -> [Job -> Node \cup {Nobody}]]
  BY DEF TypeOK
<1>2. pending' = [pending EXCEPT ![n] = @ \ jobs]
  BY DEF Forget
<1> DEFINE row == [j \in Job |-> IF j \in jobs THEN Nobody ELSE claimed[n][j]]
<1>3. claimed' = [claimed EXCEPT ![n] = row]
  BY DEF Forget
<1>4. row \in [Job -> Node \cup {Nobody}]
  BY <1>1
<1>5. \A j \in Job : row[j] = IF j \in jobs THEN Nobody ELSE claimed[n][j]
  OBVIOUS
<1> HIDE DEF row
<1>6. claimed' \in [Node -> [Job -> Node \cup {Nobody}]]
  BY <1>1, <1>3, <1>4
<1>7. \A k \in Node : claimed'[k] = IF k = n THEN row ELSE claimed[k]
  BY <1>1, <1>3
<1> QED BY <1>1, <1>2, <1>5, <1>6, <1>7

\* What a claim that arrives changes.
LEMMA ClaimRecorded ==
  ASSUME TypeOK, NEW n \in Node, NEW j \in Job, NEW m \in Node, HandleJobClaim(n, j, m)
  PROVE  /\ claimed' \in [Node -> [Job -> Node \cup {Nobody}]]
         /\ \A k \in Node, i \in Job :
              claimed'[k][i] = IF k = n /\ i = j /\ claimed[n][j] = Nobody /\ j \in pending[n]
                               THEN m ELSE claimed[k][i]
         /\ UNCHANGED <<pending, completed, credit>>
<1> DEFINE new == IF claimed[n][j] = Nobody /\ j \in pending[n] THEN m ELSE claimed[n][j]
<1>1. claimed \in [Node -> [Job -> Node \cup {Nobody}]]
  BY DEF TypeOK
<1>2. claimed' = [claimed EXCEPT ![n][j] = new]
  BY DEF HandleJobClaim
<1>3. new \in Node \cup {Nobody}
  BY <1>1
<1> HIDE DEF new
<1>4. /\ claimed' \in [Node -> [Job -> Node \cup {Nobody}]]
      /\ \A k \in Node, i \in Job : claimed'[k][i] = IF k = n /\ i = j THEN new ELSE claimed[k][i]
  BY <1>1, <1>2, <1>3
<1> QED BY <1>4 DEF new, HandleJobClaim

\* A step keeps the types.
LEMMA TypeStep ==
  ASSUME SubnetInv, [Next]_vars
  PROVE  TypeOK'
<1>0. TypeOK /\ NoWayBack /\ AllFit(chan)
  BY DEF SubnetInv, NoWayBack
<1>c. chan' \in [Node \X Node -> Seq(Message)]
  BY ChannelStep DEF Channels
<1>1. ASSUME NEW n \in Node, NEW j \in Job, MineOwn(n, j)
      PROVE  TypeOK'
  BY <1>0, <1>1, <1>c, ZenonT(60) DEF MineOwn, AnnounceJob, TypeOK
<1>2. ASSUME NEW n \in Node, NEW j \in Job, MineSubnet(n, j)
      PROVE  TypeOK'
  BY <1>0, <1>2, <1>c DEF MineSubnet, ClaimJob, TypeOK
<1>3. ASSUME NEW n \in Node, WorkEnds(n)
      PROVE  TypeOK'
  BY <1>0, <1>3, <1>c DEF WorkEnds, subnet, TypeOK
<1>4. ASSUME NEW n \in Node, SubnetJobDone(n)
      PROVE  TypeOK'
  <2>1. current[n] \in Job
    BY <1>0, <1>4 DEF SubnetJobDone, TypeOK
  <2>2. /\ Forget(n, {current[n]})
        /\ completed' = [completed EXCEPT ![n] = @ \cup {current[n]}]
        /\ stage' = [stage EXCEPT ![n] = "idle"]
        /\ UNCHANGED <<made, current, credit, seen, peers>>
    BY <1>4 DEF SubnetJobDone, SubmitResult
  <2>3. /\ pending' \in [Node -> SUBSET Job]
        /\ claimed' \in [Node -> [Job -> Node \cup {Nobody}]]
    BY <1>0, <2>2, Forgotten
  <2>4. QED
    BY <1>0, <1>c, <2>1, <2>2, <2>3 DEF TypeOK
<1>5. ASSUME NEW n \in Node, NEW stale \in SUBSET Job, Cleanup(n, stale)
      PROVE  TypeOK'
  <2>1. /\ pending' \in [Node -> SUBSET Job]
        /\ claimed' \in [Node -> [Job -> Node \cup {Nobody}]]
    BY <1>0, <1>5, Forgotten DEF Cleanup
  <2>2. UNCHANGED <<made, stage, current, completed, credit, seen, peers, chan>>
    BY <1>5 DEF Cleanup, engine
  <2>3. QED
    BY <1>0, <2>1, <2>2 DEF TypeOK
<1>6. ASSUME NEW m \in Node, NEW n \in Node, Deliver(m, n)
      PROVE  TypeOK'
  <2> DEFINE msg == Head(chan[<<m, n>>])
  <2>1. CASE Duplicate(m, n)
    BY <1>0, <1>c, <2>1 DEF Duplicate, subnet, engine, TypeOK
  <2>2. CASE ReceiveAnnounce(m, n)
    <3>1. msg \in Message /\ msg.type = "ANNOUNCE"
      BY <1>0, <2>2, TakenFits DEF ReceiveAnnounce, FirstIs
    <3>2. Id(msg) \in {"ANNOUNCE", "RESULT"} \X Job \X Node /\ msg.job \in Job
      BY <3>1 DEF Id, Message
    <3>3. QED
      BY <1>0, <1>c, <2>2, <3>2 DEF ReceiveAnnounce, HandleJobAnnounce, engine, TypeOK
  <2>3. CASE ReceiveClaim(m, n)
    <3>1. msg.job \in Job /\ msg.from \in Node
      BY <1>0, <2>3, TakenFits DEF ReceiveClaim, FirstIs, Message
    <3>2. HandleJobClaim(n, msg.job, msg.from)
      BY <2>3 DEF ReceiveClaim
    <3>3. /\ claimed' \in [Node -> [Job -> Node \cup {Nobody}]]
          /\ UNCHANGED <<pending, completed, credit>>
      BY <1>0, <3>1, <3>2, ClaimRecorded
    <3>4. UNCHANGED <<made, stage, current, seen, peers>>
      BY <2>3 DEF ReceiveClaim, engine
    <3>5. QED
      BY <1>0, <1>c, <3>3, <3>4 DEF TypeOK
  <2>4. CASE ReceiveResult(m, n)
    <3>1. msg \in Message /\ msg.type = "RESULT"
      BY <1>0, <2>4, TakenFits DEF ReceiveResult, FirstIs
    <3>2. Id(msg) \in {"ANNOUNCE", "RESULT"} \X Job \X Node /\ msg.job \in Job /\ msg.from \in Node
      BY <3>1 DEF Id, Message
    <3>3. /\ HandleJobResult(n, msg.job, msg.from)
          /\ seen' = [seen EXCEPT ![n] = @ \cup {Id(msg)}]
          /\ UNCHANGED <<made, stage, current, peers>>
      BY <2>4 DEF ReceiveResult, engine
    <3>4. /\ pending' \in [Node -> SUBSET Job]
          /\ claimed' \in [Node -> [Job -> Node \cup {Nobody}]]
      BY <1>0, <3>3, Forgotten DEF HandleJobResult
    <3>5. completed' \in [Node -> SUBSET Job] /\ credit' \in [Node -> [Node -> Nat]]
      <4>1. /\ completed' = [completed EXCEPT ![n] = @ \cup {msg.job}]
            /\ credit' = [credit EXCEPT ![n][msg.from] = @ + 1]
        BY <3>3 DEF HandleJobResult
      <4>2. completed \in [Node -> SUBSET Job] /\ credit \in [Node -> [Node -> Nat]]
        BY <1>0 DEF TypeOK
      <4> HIDE DEF msg
      <4>3. credit[n][msg.from] + 1 \in Nat
        BY <3>2, <4>2
      <4>4. QED
        BY <3>2, <4>1, <4>2, <4>3
    <3>6. seen' \in [Node -> SUBSET ({"ANNOUNCE", "RESULT"} \X Job \X Node)]
      BY <1>0, <3>2, <3>3 DEF TypeOK
    <3>7. QED
      BY <1>0, <1>c, <3>3, <3>4, <3>5, <3>6 DEF TypeOK
  <2>5. QED
    BY <1>6, <2>1, <2>2, <2>3, <2>4 DEF Deliver
<1>7. ASSUME NEW m \in Node, NEW n \in Node, Break(m, n)
      PROVE  TypeOK'
  BY <1>0, <1>7, <1>c DEF Break, subnet, engine, TypeOK
<1>8. CASE UNCHANGED vars
  BY <1>0, <1>8 DEF vars, TypeOK
<1> QED BY <1>1, <1>2, <1>3, <1>4, <1>5, <1>6, <1>7, <1>8 DEF Next

\* What a node knows it never forgets.
LEMMA KnownStays ==
  ASSUME TypeOK, [Next]_vars, NEW k \in Node, NEW i \in Job, Known(k, i)
  PROVE  Known(k, i)'
<1>1. made \subseteq made'
  BY ZenonT(60) DEF Next, MineOwn, MineSubnet, WorkEnds, SubnetJobDone, Cleanup, Deliver, Duplicate,
         ReceiveAnnounce, ReceiveClaim, ReceiveResult, Break, engine, vars
<1>2. seen[k] \subseteq seen'[k]
  <2>1. ASSUME NEW m \in Node, NEW n \in Node, Deliver(m, n)
        PROVE  seen[k] \subseteq seen'[k]
    <3>1. \/ UNCHANGED seen
          \/ seen' = [seen EXCEPT ![n] = @ \cup {Id(Head(chan[<<m, n>>]))}]
      BY <2>1 DEF Deliver, Duplicate, ReceiveAnnounce, ReceiveClaim, ReceiveResult
    <3>2. QED
      BY <3>1, ZenonT(60) DEF TypeOK
  <2>2. ASSUME ~ \E m, n \in Node : Deliver(m, n)
        PROVE  UNCHANGED seen
    BY <2>2 DEF Next, MineOwn, MineSubnet, WorkEnds, SubnetJobDone, Cleanup, Break, engine, vars
  <2>3. QED
    BY <2>1, <2>2
<1> QED BY <1>1, <1>2 DEF Known

\* An announcement that is handled is of a job unknown so far.
LEMMA AnnounceIsNews ==
  ASSUME SubnetInv, NEW m \in Node, NEW n \in Node, ReceiveAnnounce(m, n)
  PROVE  \E j \in Job : ~Known(n, j) /\ Known(n, j)' /\ HandleJobAnnounce(n, j)
<1> DEFINE msg == Head(chan[<<m, n>>])
<1>1. TypeOK /\ AllFit(chan)
  BY DEF SubnetInv, NoWayBack
<1>2. msg \in Message /\ msg.type = "ANNOUNCE" /\ Fit(n, msg)
  BY <1>1, TakenFits DEF ReceiveAnnounce, FirstIs
<1>3. msg.job \in Job /\ msg.from = Author[msg.job] /\ Author[msg.job] # n
  BY <1>2 DEF Fit, Message
<1>4. Id(msg) = <<"ANNOUNCE", msg.job, Author[msg.job]>>
  BY <1>2, <1>3 DEF Id
<1>5. PICK j \in Job : j = msg.job
  BY <1>3
<1>6. /\ <<"ANNOUNCE", j, Author[j]>> \notin seen[n]
      /\ seen' = [seen EXCEPT ![n] = @ \cup {<<"ANNOUNCE", j, Author[j]>>}]
      /\ HandleJobAnnounce(n, j)
  BY <1>4, <1>5 DEF ReceiveAnnounce
<1>7. <<"ANNOUNCE", j, Author[j]>> \in seen'[n]
  BY <1>1, <1>6 DEF TypeOK
<1>8. ~Known(n, j) /\ Known(n, j)'
  BY <1>3, <1>5, <1>6, <1>7 DEF Known
<1> QED BY <1>6, <1>8

\* What a step does to the pending jobs, the claims and the work of a node k:
\* it leaves them alone, forgets jobs, records a first claim, makes a job
\* pending that k did not know, starts work, or ends it.
StepOf(k) ==
  \/ /\ \A i \in Job : claimed'[k][i] = claimed[k][i]
     /\ UNCHANGED <<pending[k], stage[k], current[k]>>
  \/ /\ \E jobs \in SUBSET Job : /\ pending'[k] = pending[k] \ jobs
                                 /\ \A i \in Job : claimed'[k][i] = IF i \in jobs THEN Nobody ELSE claimed[k][i]
     /\ stage'[k] \in {stage[k], "idle"} /\ UNCHANGED current[k]
  \/ /\ \E j \in Job, m \in Node :
          /\ claimed[k][j] = Nobody /\ j \in pending[k]
          /\ \A i \in Job : claimed'[k][i] = IF i = j THEN m ELSE claimed[k][i]
     /\ UNCHANGED <<pending[k], stage[k], current[k]>>
  \/ /\ \E j \in Job : ~Known(k, j) /\ Known(k, j)' /\ pending'[k] \subseteq pending[k] \cup {j}
     /\ pending[k] \subseteq pending'[k]
     /\ UNCHANGED <<claimed[k], stage[k], current[k]>>
  \/ /\ stage[k] = "idle" /\ stage'[k] = "subnet"
     /\ \E j \in Unclaimed(k) :
          /\ current'[k] = j
          /\ \A i \in Job : claimed'[k][i] = IF i = j THEN k ELSE claimed[k][i]
     /\ UNCHANGED pending[k]
  \/ /\ stage[k] = "idle" /\ stage'[k] = "own"
     /\ \E j \in Job : current'[k] = j /\ Known(k, j)' /\ pending'[k] = pending[k] \cup {j}
     /\ UNCHANGED claimed[k]
  \/ stage'[k] = "idle" /\ UNCHANGED <<pending[k], claimed[k], current[k]>>

\* What a step may do to the books of one node.
LEMMA StepKinds ==
  ASSUME SubnetInv, [Next]_vars, NEW k \in Node
  PROVE  StepOf(k)
<1>0. TypeOK
  BY DEF SubnetInv
<1>1. ASSUME NEW n \in Node, NEW j \in Job, MineOwn(n, j)
      PROVE  StepOf(k)
  <2>1. Author[j] = n /\ j \in made'
    BY <1>1 DEF MineOwn
  <2>2. CASE k = n
    BY <1>0, <1>1, <2>1, <2>2 DEF MineOwn, AnnounceJob, StepOf, TypeOK, Known
  <2>3. CASE k # n
    BY <1>0, <1>1, <2>3 DEF MineOwn, AnnounceJob, StepOf, TypeOK
  <2>4. QED
    BY <2>2, <2>3
<1>2. ASSUME NEW n \in Node, NEW j \in Job, MineSubnet(n, j)
      PROVE  StepOf(k)
  <2>1. /\ claimed' = [claimed EXCEPT ![n][j] = n] /\ UNCHANGED pending
        /\ stage[n] = "idle" /\ stage' = [stage EXCEPT ![n] = "subnet"]
        /\ current' = [current EXCEPT ![n] = j] /\ j \in Unclaimed(n)
    BY <1>2 DEF MineSubnet, ClaimJob
  <2>2. CASE k = n
    <3>1. \A i \in Job : claimed'[k][i] = IF i = j THEN k ELSE claimed[k][i]
      BY <1>0, <2>1, <2>2 DEF TypeOK
    <3>2. current'[k] = j /\ stage'[k] = "subnet" /\ stage[k] = "idle" /\ j \in Unclaimed(k)
      BY <1>0, <2>1, <2>2 DEF TypeOK
    <3>3. QED
      BY <2>1, <3>1, <3>2 DEF StepOf
  <2>3. CASE k # n
    BY <1>0, <2>1, <2>3 DEF StepOf, TypeOK
  <2>4. QED
    BY <2>2, <2>3
<1>3. ASSUME NEW n \in Node, WorkEnds(n)
      PROVE  StepOf(k)
  BY <1>0, <1>3 DEF WorkEnds, subnet, StepOf, TypeOK
<1>4. ASSUME NEW n \in Node, NEW jobs \in SUBSET Job, Forget(n, jobs), UNCHANGED current,
             UNCHANGED stage \/ stage' = [stage EXCEPT ![n] = "idle"]
      PROVE  StepOf(k)
  <2>0. Forget(n, jobs)
    BY <1>4
  <2>1. /\ pending'[k] = IF k = n THEN pending[k] \ jobs ELSE pending[k]
        /\ \A i \in Job :
             claimed'[k][i] = IF k = n /\ i \in jobs THEN Nobody ELSE claimed[k][i]
    <3>1. pending'[k] = IF k = n THEN pending[k] \ jobs ELSE pending[k]
      BY <1>0, <2>0 DEF Forget, TypeOK
    <3>2. ASSUME NEW i \in Job
          PROVE  claimed'[k][i] = IF k = n /\ i \in jobs THEN Nobody ELSE claimed[k][i]
      BY <1>0, <2>0, Forgotten
    <3>3. QED
      BY <3>1, <3>2
  <2>2. stage'[k] # stage[k] => k = n /\ stage'[k] = "idle"
    BY <1>0, <1>4 DEF TypeOK
  <2>3. CASE k = n
    BY <1>4, <2>1, <2>2, <2>3 DEF StepOf
  <2>4. CASE k # n
    <3>1. pending'[k] = pending[k] /\ \A i \in Job : claimed'[k][i] = claimed[k][i]
      BY <2>1, <2>4
    <3>2. QED
      BY <1>4, <2>2, <2>4, <3>1 DEF StepOf
  <2>5. QED
    BY <2>3, <2>4
<1>5. ASSUME NEW n \in Node, SubnetJobDone(n)
      PROVE  StepOf(k)
  <2>1. current[n] \in Job
    BY <1>0, <1>5 DEF SubnetJobDone, TypeOK
  <2>2. QED
    BY <1>4, <1>5, <2>1 DEF SubnetJobDone, SubmitResult
<1>6. ASSUME NEW n \in Node, NEW stale \in SUBSET Job, Cleanup(n, stale)
      PROVE  StepOf(k)
  BY <1>4, <1>6 DEF Cleanup, engine
<1>7. ASSUME NEW m \in Node, NEW n \in Node, Deliver(m, n)
      PROVE  StepOf(k)
  <2> DEFINE msg == Head(chan[<<m, n>>])
  <2>0. UNCHANGED <<stage, current>>
    BY <1>7 DEF Deliver, Duplicate, ReceiveAnnounce, ReceiveClaim, ReceiveResult, engine
  <2>1. CASE Duplicate(m, n)
    BY <2>0, <2>1 DEF Duplicate, subnet, StepOf
  <2>2. CASE ReceiveAnnounce(m, n)
    <3>1. PICK j \in Job : ~Known(n, j) /\ Known(n, j)' /\ HandleJobAnnounce(n, j)
      BY <2>2, AnnounceIsNews
    <3>2. /\ UNCHANGED claimed
          /\ pending[k] \subseteq pending'[k]
          /\ pending'[k] \subseteq IF k = n THEN pending[k] \cup {j} ELSE pending[k]
      BY <1>0, <3>1 DEF HandleJobAnnounce, TypeOK
    <3>3. CASE k = n
      BY <2>0, <3>1, <3>2, <3>3 DEF StepOf
    <3>4. CASE k # n
      BY <2>0, <3>2, <3>4 DEF StepOf
    <3>5. QED
      BY <3>3, <3>4
  <2>3. CASE ReceiveClaim(m, n)
    <3>1. msg.job \in Job /\ msg.from \in Node
      BY <1>0, <2>3, TakenFits DEF ReceiveClaim, FirstIs, Message, SubnetInv, NoWayBack
    <3>2. HandleJobClaim(n, msg.job, msg.from)
      BY <2>3 DEF ReceiveClaim
    <3>3. /\ UNCHANGED pending
          /\ \A i \in Job :
               claimed'[k][i] = IF k = n /\ i = msg.job /\ claimed[n][msg.job] = Nobody /\ msg.job \in pending[n]
                                THEN msg.from ELSE claimed[k][i]
      BY <1>0, <3>1, <3>2, ClaimRecorded
    <3>4. CASE k = n /\ claimed[n][msg.job] = Nobody /\ msg.job \in pending[n]
      BY <2>0, <3>1, <3>3, <3>4 DEF StepOf
    <3>5. CASE ~(k = n /\ claimed[n][msg.job] = Nobody /\ msg.job \in pending[n])
      BY <2>0, <3>3, <3>5 DEF StepOf
    <3>6. QED
      BY <3>4, <3>5
  <2>4. CASE ReceiveResult(m, n)
    <3>1. msg.job \in Job
      BY <1>0, <2>4, TakenFits DEF ReceiveResult, FirstIs, Message, SubnetInv, NoWayBack
    <3>2. Forget(n, {msg.job})
      BY <2>4 DEF ReceiveResult, HandleJobResult
    <3>3. QED
      BY <1>4, <2>0, <3>1, <3>2
  <2>5. QED
    BY <1>7, <2>1, <2>2, <2>3, <2>4 DEF Deliver
<1>8. ASSUME NEW m \in Node, NEW n \in Node, Break(m, n)
      PROVE  StepOf(k)
  BY <1>8 DEF Break, subnet, engine, StepOf
<1>9. CASE UNCHANGED vars
  BY <1>9 DEF vars, StepOf
<1> QED BY <1>1, <1>2, <1>3, <1>5, <1>6, <1>7, <1>8, <1>9 DEF Next

\* A step keeps claims and pending jobs together.
LEMMA ClaimsStep ==
  ASSUME SubnetInv, [Next]_vars
  PROVE  ClaimedArePending' /\ WorkerHoldsClaim' /\ PendingKnown'
<1>0. TypeOK /\ TypeOK'
  BY TypeStep DEF SubnetInv
<1> SUFFICES ASSUME NEW k \in Node
             PROVE  /\ \A j \in Job : claimed'[k][j] # Nobody => j \in pending'[k]
                    /\ stage'[k] = "subnet" /\ current'[k] \in pending'[k]
                         => claimed'[k][current'[k]] = k
                    /\ \A j \in pending'[k] : Known(k, j)'
                    /\ stage'[k] # "idle" => Known(k, current[k])'
  BY DEF ClaimedArePending, WorkerHoldsClaim, PendingKnown
<1>1. /\ \A j \in Job : claimed[k][j] # Nobody => j \in pending[k]
      /\ stage[k] = "subnet" /\ current[k] \in pending[k] => claimed[k][current[k]] = k
      /\ \A j \in pending[k] : Known(k, j)
      /\ stage[k] # "idle" => Known(k, current[k])
  BY DEF SubnetInv, ClaimedArePending, WorkerHoldsClaim, PendingKnown
<1>2. /\ \A j \in Job : Known(k, j) => Known(k, j)'
      /\ pending[k] \subseteq Job /\ pending'[k] \subseteq Job
      /\ stage[k] # "idle" => current[k] \in Job
      /\ stage'[k] # "idle" => current'[k] \in Job
      /\ stage[k] \in {"idle", "own", "subnet"} /\ k # Nobody
  BY <1>0, KnownStays, MiningSubnetAssumption DEF TypeOK
<1>3. StepOf(k)
  BY StepKinds
<1>4. \A j \in Job : claimed'[k][j] # Nobody => j \in pending'[k]
  BY <1>1, <1>2, <1>3 DEF StepOf, Unclaimed
<1>5. stage'[k] = "subnet" /\ current'[k] \in pending'[k] => claimed'[k][current'[k]] = k
  BY <1>1, <1>2, <1>3 DEF StepOf, Unclaimed
<1>6. \A j \in pending'[k] : Known(k, j)'
  BY <1>1, <1>2, <1>3 DEF StepOf
<1>7. stage'[k] # "idle" => Known(k, current[k])'
  <2>1. ASSUME stage'[k] # "idle"
        PROVE  \E j \in Job : current'[k] = j /\ Known(k, j)'
    BY <1>1, <1>2, <1>3, <2>1 DEF StepOf, Unclaimed
  <2>2. \A j \in Job : current'[k] = j /\ Known(k, j)' => Known(k, current[k])'
    BY DEF Known
  <2>3. QED
    BY <2>1, <2>2
<1> QED BY <1>4, <1>5, <1>6, <1>7

\* SubnetInv is inductive.
LEMMA SubnetStep == SubnetInv /\ [Next]_vars => SubnetInv'
  BY TypeStep, ChannelStep, ClaimsStep DEF SubnetInv

\* SubnetInv holds in every state.
THEOREM SubnetInvariant == Spec => []SubnetInv
  BY InitInv, SubnetStep, PTL DEF Spec

\* The variables keep their types: no message names a job or a node there is
\* not, and the counters of mining_p2p.py stay natural numbers.
THEOREM SubnetTypes == Spec => []TypeOK
<1>1. SubnetInv => TypeOK
  BY DEF SubnetInv
<1> QED BY <1>1, SubnetInvariant, PTL

\* No claim outlives its job (_claimed_jobs never holds what _pending_jobs
\* does not): the cleanup finds every claim.
THEOREM ClaimsLeaveWithJobs == Spec => []ClaimedArePending
<1>1. SubnetInv => ClaimedArePending
  BY DEF SubnetInv
<1> QED BY <1>1, SubnetInvariant, PTL

\* A node that works on a job of the subnet keeps its claim as long as the job
\* is pending with it: neither the claims of others nor late copies of its
\* announcement, by whatever way they come, take it away.
THEOREM WorkersKeepClaims == Spec => []WorkerHoldsClaim
<1>1. SubnetInv => WorkerHoldsClaim
  BY DEF SubnetInv
<1> QED BY <1>1, SubnetInvariant, PTL

\* The first claim a node records for a job is the only one it has until the
\* job is gone (claim_job and handle_job_claim).
THEOREM FirstClaimStands == Spec => ClaimStable
<1>1. ASSUME SubnetInv, [Next]_vars, NEW k \in Node, NEW j \in Job, claimed[k][j] # Nobody
      PROVE  claimed'[k][j] \in {claimed[k][j], Nobody}
  <2>1. StepOf(k)
    BY <1>1, StepKinds
  <2>2. QED
    BY <1>1, <2>1 DEF StepOf, Unclaimed
<1>2. SubnetInv /\ [Next]_vars
        => [\A n \in Node, j \in Job :
              claimed[n][j] # Nobody => claimed'[n][j] \in {claimed[n][j], Nobody}]_vars
  BY <1>1
<1> QED BY <1>2, SubnetInvariant, PTL DEF Spec, ClaimStable

-----------------------------------------------------------------------------
(***************************************************************************)
(* Credits.                                                                *)
(***************************************************************************)

\* The jobs whose result of m node n has handled.
Handled(n, m) == {j \in Job : <<"RESULT", j, m>> \in seen[n]}

\* Who sends a result has completed the job.
Earned(msg) == msg.type = "RESULT" => msg.job \in completed[msg.from]

AllEarned == \A e \in Node \X Node : \A i \in 1 .. Len(chan[e]) : Earned(chan[e][i])

CreditsMatch ==
  \A n, m \in Node : /\ IsFiniteSet(Handled(n, m)) /\ Handled(n, m) \subseteq completed[m]
                     /\ credit[n][m] = Cardinality(Handled(n, m))

CreditInv == AllEarned /\ CreditsMatch /\ \A n \in Node : IsFiniteSet(completed[n])

\* Whatever is on channels after a broadcast was there before or is what was sent.
LEMMA SentMessages ==
  ASSUME NEW c \in Channels, NEW n \in Node, NEW msg \in Message, NEW exclude,
         NEW e \in Node \X Node, NEW i \in 1 .. Len(Sent(c, n, msg, exclude)[e])
  PROVE  \/ Sent(c, n, msg, exclude)[e][i] = msg
         \/ i \in 1 .. Len(c[e]) /\ Sent(c, n, msg, exclude)[e][i] = c[e][i]
<1> DEFINE d == Sent(c, n, msg, exclude)
<1>1. c[e] \in Seq(Message)
  BY DEF Channels
<1>2. d[e] = c[e] \/ d[e] = Append(c[e], msg)
  BY DEF Sent
<1>3. i \in 1 .. Len(d[e])
  OBVIOUS
<1> HIDE DEF d
<1>4. d[e][i] = msg \/ (i \in 1 .. Len(c[e]) /\ d[e][i] = c[e][i])
  BY <1>1, <1>2, <1>3, SMTT(60)
<1> QED BY <1>4 DEF d

\* A result on its way after a step was on its way before, maybe elsewhere and
\* with more hops to go, or is submitted in this step.
LEMMA ResultsOnTheWay ==
  ASSUME SubnetInv, [Next]_vars, NEW e \in Node \X Node, NEW i \in 1 .. Len(chan'[e]),
         chan'[e][i].type = "RESULT"
  PROVE  \/ \E d \in Node \X Node : \E k \in 1 .. Len(chan[d]) :
              /\ chan[d][k].type = "RESULT"
              /\ chan'[e][i].job = chan[d][k].job /\ chan'[e][i].from = chan[d][k].from
         \/ \E n \in Node : SubnetJobDone(n) /\ chan'[e][i] = New("RESULT", current[n], n)
<1> DEFINE Old == \E d \in Node \X Node : \E k \in 1 .. Len(chan[d]) :
                    /\ chan[d][k].type = "RESULT"
                    /\ chan'[e][i].job = chan[d][k].job /\ chan'[e][i].from = chan[d][k].from
           Fresh == \E n \in Node : SubnetJobDone(n) /\ chan'[e][i] = New("RESULT", current[n], n)
<1>0. TypeOK /\ NoWayBack /\ chan \in Channels /\ AllFit(chan)
  BY DEF SubnetInv, TypeOK, NoWayBack, Channels
<1>o. ASSUME NEW d \in Node \X Node, NEW k \in 1 .. Len(chan[d]), chan'[e][i] = chan[d][k]
      PROVE  Old
  BY <1>o
<1>1. ASSUME NEW n \in Node, NEW j \in Job, NEW type \in {"ANNOUNCE", "CLAIM", "RESULT"},
             Broadcast(n, New(type, j, n))
      PROVE  chan'[e][i] = New(type, j, n) \/ Old
  <2>1. New(type, j, n) \in Message
    BY MiningSubnetAssumption DEF New, Message
  <2>2. chan' = Sent(chan, n, New(type, j, n), {})
    BY <1>1 DEF Broadcast
  <2>3. \/ chan'[e][i] = New(type, j, n)
        \/ i \in 1 .. Len(chan[e]) /\ chan'[e][i] = chan[e][i]
    BY <1>0, <2>1, <2>2, SentMessages
  <2>4. QED
    BY <1>o, <2>3
<1>2. ASSUME NEW n \in Node, NEW j \in Job, MineOwn(n, j)
      PROVE  Old
  <2>1. chan'[e][i] = New("ANNOUNCE", j, n) \/ Old
    BY <1>1, <1>2 DEF MineOwn, AnnounceJob
  <2>2. New("ANNOUNCE", j, n).type = "ANNOUNCE"
    BY DEF New
  <2> HIDE DEF Old
  <2>3. QED
    BY <2>1, <2>2
<1>3. ASSUME NEW n \in Node, NEW j \in Job, MineSubnet(n, j)
      PROVE  Old
  <2>1. chan'[e][i] = New("CLAIM", j, n) \/ Old
    BY <1>1, <1>3 DEF MineSubnet, ClaimJob
  <2>2. New("CLAIM", j, n).type = "CLAIM"
    BY DEF New
  <2> HIDE DEF Old
  <2>3. QED
    BY <2>1, <2>2
<1>4. ASSUME NEW n \in Node, SubnetJobDone(n)
      PROVE  Old \/ Fresh
  <2>1. current[n] \in Job
    BY <1>0, <1>4 DEF SubnetJobDone, TypeOK
  <2>2. Broadcast(n, New("RESULT", current[n], n))
    BY <1>4 DEF SubnetJobDone, SubmitResult
  <2>3. QED
    BY <1>1, <1>4, <2>1, <2>2
<1>5. ASSUME NEW m \in Node, NEW n \in Node, Deliver(m, n)
      PROVE  Old
  <2> DEFINE msg == Head(chan[<<m, n>>])
             next == [msg EXCEPT !.ttl = @ - 1]
             rest == Taken(m, n)
  <2>1. /\ chan[<<m, n>>] # <<>>
        /\ chan' \in {rest, Relayed(m, n, msg)}
    BY <1>5 DEF Deliver, Duplicate, ReceiveAnnounce, ReceiveClaim, ReceiveResult, FirstIs
  <2>2. msg \in Message /\ rest \in Channels
    BY <1>0, <2>1, TakenFits
  <2>3. <<m, n>> \in Node \X Node /\ 1 \in 1 .. Len(chan[<<m, n>>]) /\ msg = chan[<<m, n>>][1]
    BY <1>0, <2>1 DEF Channels
  <2>4. ASSUME i \in 1 .. Len(rest[e]), chan'[e][i] = rest[e][i]
        PROVE  Old
    <3>1. rest[e] = chan[e] \/ (e = <<m, n>> /\ rest[e] = Tail(chan[e]))
      BY <1>0 DEF Taken, Channels
    <3>2. CASE rest[e] = chan[e]
      BY <1>o, <2>4, <3>2
    <3>3. CASE e = <<m, n>> /\ rest[e] = Tail(chan[e])
      <4>1. i + 1 \in 1 .. Len(chan[e]) /\ rest[e][i] = chan[e][i + 1]
        BY <1>0, <2>1, <2>4, <3>3 DEF Channels
      <4>2. QED
        BY <1>o, <2>4, <4>1
    <3>4. QED
      BY <3>1, <3>2, <3>3
  <2>5. ASSUME msg.ttl > 0, chan' = Relayed(m, n, msg)
        PROVE  Old
    <3>1. next \in Message
      BY <2>2, <2>5, MiningSubnetAssumption, SMTT(60) DEF Message
    <3>2. chan' = Sent(rest, n, next, {msg.from})
      BY <2>5 DEF Relayed
    <3>3. \/ chan'[e][i] = next
          \/ i \in 1 .. Len(rest[e]) /\ chan'[e][i] = rest[e][i]
      BY <2>2, <3>1, <3>2, SentMessages
    <3>4. ASSUME chan'[e][i] = next
          PROVE  Old
      <4>1. next.type = msg.type /\ next.job = msg.job /\ next.from = msg.from
        BY <2>2 DEF Message
      <4>2. QED
        BY <2>3, <3>4, <4>1
    <3>5. QED
      BY <2>4, <3>3, <3>4
  <2>6. ASSUME ~(msg.ttl > 0) \/ chan' = rest
        PROVE  Old
    <3>1. chan' = rest
      BY <2>1, <2>6 DEF Relayed
    <3>2. QED
      BY <2>4, <3>1
  <2>7. QED
    BY <2>1, <2>5, <2>6
<1>6. ASSUME NEW m \in Node, NEW n \in Node, Break(m, n)
      PROVE  Old
  <2>1. chan'[e] \in {<<>>, chan[e]}
    BY <1>0, <1>6 DEF Break, Channels
  <2>2. chan'[e] = chan[e]
    BY <2>1
  <2>3. QED
    BY <1>o, <2>2
<1>7. ASSUME UNCHANGED chan
      PROVE  Old
  BY <1>o, <1>7
<1> HIDE DEF Old, Fresh
<1>8. Old \/ Fresh
  BY <1>2, <1>3, <1>4, <1>5, <1>6, <1>7 DEF Next, WorkEnds, Cleanup, vars
<1> QED BY <1>8 DEF Old, Fresh

\* A result that is handled is the first copy of it, and one its sender earned.
LEMMA ResultIsEarned ==
  ASSUME SubnetInv, AllEarned, NEW m \in Node, NEW n \in Node, ReceiveResult(m, n)
  PROVE  \E j \in Job, k \in Node :
           /\ <<"RESULT", j, k>> \notin seen[n] /\ j \in completed[k]
           /\ seen' = [seen EXCEPT ![n] = @ \cup {<<"RESULT", j, k>>}]
           /\ completed' = [completed EXCEPT ![n] = @ \cup {j}]
           /\ credit' = [credit EXCEPT ![n][k] = @ + 1]
<1> DEFINE msg == Head(chan[<<m, n>>])
<1>1. TypeOK /\ AllFit(chan) /\ chan \in Channels
  BY DEF SubnetInv, NoWayBack, TypeOK, Channels
<1>2. chan[<<m, n>>] # <<>> /\ msg.type = "RESULT"
  BY DEF ReceiveResult, FirstIs
<1>3. msg \in Message
  BY <1>1, <1>2, TakenFits
<1>4. <<m, n>> \in Node \X Node /\ 1 \in 1 .. Len(chan[<<m, n>>]) /\ msg = chan[<<m, n>>][1]
  BY <1>1, <1>2 DEF Channels
<1>5. Earned(msg)
  BY <1>4 DEF AllEarned
<1>6. msg.job \in Job /\ msg.from \in Node /\ msg.job \in completed[msg.from]
  BY <1>2, <1>3, <1>5 DEF Earned, Message
<1>7. Id(msg) = <<"RESULT", msg.job, msg.from>>
  BY <1>2 DEF Id
<1>8. /\ Id(msg) \notin seen[n]
      /\ seen' = [seen EXCEPT ![n] = @ \cup {Id(msg)}]
      /\ HandleJobResult(n, msg.job, msg.from)
  BY DEF ReceiveResult
<1> HIDE DEF msg
<1> QED BY <1>6, <1>7, <1>8 DEF HandleJobResult

\* What a step does to the books that the credits are about: a result is
\* rewarded, a job completed, an announcement noted, or nothing.
BookStep ==
  \/ \E n \in Node, j \in Job, k \in Node :
       /\ <<"RESULT", j, k>> \notin seen[n] /\ j \in completed[k]
       /\ seen' = [seen EXCEPT ![n] = @ \cup {<<"RESULT", j, k>>}]
       /\ completed' = [completed EXCEPT ![n] = @ \cup {j}]
       /\ credit' = [credit EXCEPT ![n][k] = @ + 1]
  \/ \E n \in Node, j \in Job : /\ completed' = [completed EXCEPT ![n] = @ \cup {j}]
                                /\ UNCHANGED <<seen, credit>>
  \/ \E n \in Node, j \in Job, k \in Node :
       /\ seen' = [seen EXCEPT ![n] = @ \cup {<<"ANNOUNCE", j, k>>}]
       /\ UNCHANGED <<completed, credit>>
  \/ UNCHANGED <<seen, completed, credit>>

\* What a step may do to jobs, results and counters.
LEMMA BookSteps ==
  ASSUME SubnetInv, AllEarned, [Next]_vars
  PROVE  BookStep
<1>1. ASSUME NEW m \in Node, NEW n \in Node, ReceiveAnnounce(m, n)
      PROVE  BookStep
  <2> DEFINE msg == Head(chan[<<m, n>>])
  <2>1. TypeOK /\ AllFit(chan)
    BY DEF SubnetInv, NoWayBack
  <2>2. msg \in Message /\ msg.type = "ANNOUNCE"
    BY <1>1, <2>1, TakenFits DEF ReceiveAnnounce, FirstIs
  <2>3. msg.job \in Job /\ msg.from \in Node /\ Id(msg) = <<"ANNOUNCE", msg.job, msg.from>>
    BY <2>2 DEF Id, Message
  <2>4. seen' = [seen EXCEPT ![n] = @ \cup {Id(msg)}] /\ UNCHANGED <<completed, credit>>
    BY <1>1 DEF ReceiveAnnounce, HandleJobAnnounce
  <2> HIDE DEF msg
  <2>5. QED
    BY <2>3, <2>4 DEF BookStep
<1>2. ASSUME NEW n \in Node, SubnetJobDone(n)
      PROVE  BookStep
  BY <1>2 DEF SubnetJobDone, SubmitResult, SubnetInv, TypeOK, BookStep
<1>3. ASSUME NEW n \in Node, \/ \E j \in Job : MineOwn(n, j) \/ MineSubnet(n, j)
                             \/ WorkEnds(n)
                             \/ \E stale \in SUBSET Job : Cleanup(n, stale)
      PROVE  BookStep
  BY <1>3 DEF BookStep, MineOwn, MineSubnet, WorkEnds, Cleanup, AnnounceJob, ClaimJob, subnet
<1>4. ASSUME NEW m \in Node, NEW n \in Node, Duplicate(m, n) \/ ReceiveClaim(m, n) \/ Break(m, n)
      PROVE  BookStep
  BY <1>4 DEF BookStep, Duplicate, ReceiveClaim, HandleJobClaim, Break, subnet
<1>5. CASE UNCHANGED vars
  BY <1>5 DEF vars, BookStep
<1>6. ASSUME NEW m \in Node, NEW n \in Node, ReceiveResult(m, n)
      PROVE  BookStep
  <2>1. PICK j \in Job, k \in Node :
          /\ <<"RESULT", j, k>> \notin seen[n] /\ j \in completed[k]
          /\ seen' = [seen EXCEPT ![n] = @ \cup {<<"RESULT", j, k>>}]
          /\ completed' = [completed EXCEPT ![n] = @ \cup {j}]
          /\ credit' = [credit EXCEPT ![n][k] = @ + 1]
    BY <1>6, ResultIsEarned
  <2>2. QED
    BY <2>1 DEF BookStep
<1> QED BY <1>1, <1>2, <1>3, <1>4, <1>5, <1>6 DEF Next, Deliver

\* Completed jobs stay completed, and are finitely many.
LEMMA CompletedGrows ==
  ASSUME SubnetInv, CreditInv, [Next]_vars, NEW k \in Node
  PROVE  completed[k] \subseteq completed'[k] /\ IsFiniteSet(completed'[k])
<1>1. completed \in [Node -> SUBSET Job] /\ IsFiniteSet(completed[k])
  BY DEF SubnetInv, TypeOK, CreditInv
<1>2. \/ completed'[k] = completed[k]
      \/ \E j \in Job : completed'[k] = completed[k] \cup {j}
  <2>1. UNCHANGED completed \/ \E n \in Node, j \in Job : completed' = [completed EXCEPT ![n] = @ \cup {j}]
    BY BookSteps DEF CreditInv, BookStep
  <2>2. QED
    BY <1>1, <2>1
<1> QED BY <1>1, <1>2, FS_AddElement

\* A result under way stays one of a job that its sender completed.
LEMMA EarnedStep ==
  ASSUME SubnetInv, CreditInv, [Next]_vars
  PROVE  AllEarned'
<1> SUFFICES ASSUME NEW e \in Node \X Node, NEW i \in 1 .. Len(chan'[e]), chan'[e][i].type = "RESULT"
             PROVE  chan'[e][i].job \in completed'[chan'[e][i].from]
  BY DEF AllEarned, Earned
<1> DEFINE msg == chan'[e][i]
<1>1. CASE \E d \in Node \X Node : \E k \in 1 .. Len(chan[d]) :
             chan[d][k].type = "RESULT" /\ msg.job = chan[d][k].job /\ msg.from = chan[d][k].from
  <2>0. PICK d \in Node \X Node : \E k \in 1 .. Len(chan[d]) :
          chan[d][k].type = "RESULT" /\ msg.job = chan[d][k].job /\ msg.from = chan[d][k].from
    BY <1>1
  <2>1. PICK k \in 1 .. Len(chan[d]) :
          chan[d][k].type = "RESULT" /\ msg.job = chan[d][k].job /\ msg.from = chan[d][k].from
    BY <2>0
  <2>2. chan[d][k].job \in completed[chan[d][k].from]
    BY <2>1 DEF CreditInv, AllEarned, Earned
  <2>3. chan[d][k].from \in Node
    <3>1. chan[d] \in Seq(Message)
      BY DEF SubnetInv, TypeOK
    <3>2. chan[d][k] \in Message
      BY <3>1
    <3>3. QED
      BY <3>2 DEF Message
  <2>4. QED
    BY <2>1, <2>2, <2>3, CompletedGrows
<1>2. ASSUME NEW n \in Node, SubnetJobDone(n), msg = New("RESULT", current[n], n)
      PROVE  msg.job \in completed'[msg.from]
  <2>1. completed' = [completed EXCEPT ![n] = @ \cup {current[n]}]
    BY <1>2 DEF SubnetJobDone, SubmitResult
  <2>2. current[n] \in completed'[n]
    BY <2>1 DEF SubnetInv, TypeOK
  <2>3. QED
    BY <1>2, <2>2 DEF New
<1> QED BY <1>1, <1>2, ResultsOnTheWay

\* A step keeps the counters equal to the results credited.
LEMMA CreditsStep ==
  ASSUME SubnetInv, CreditInv, [Next]_vars
  PROVE  CreditsMatch'
<1>0. /\ seen \in [Node -> SUBSET ({"ANNOUNCE", "RESULT"} \X Job \X Node)]
      /\ credit \in [Node -> [Node -> Nat]]
      /\ completed \in [Node -> SUBSET Job]
  BY DEF SubnetInv, TypeOK
<1> SUFFICES ASSUME NEW a \in Node, NEW b \in Node
             PROVE  /\ IsFiniteSet(Handled(a, b)') /\ Handled(a, b)' \subseteq completed'[b]
                    /\ credit'[a][b] = Cardinality(Handled(a, b)')
  BY DEF CreditsMatch
<1>1. /\ IsFiniteSet(Handled(a, b)) /\ Handled(a, b) \subseteq completed[b]
      /\ credit[a][b] = Cardinality(Handled(a, b))
      /\ completed[b] \subseteq completed'[b]
  BY CompletedGrows DEF CreditInv, CreditsMatch
<1>2. ASSUME NEW n \in Node, NEW j \in Job, NEW k \in Node,
             <<"RESULT", j, k>> \notin seen[n], j \in completed[k],
             seen' = [seen EXCEPT ![n] = @ \cup {<<"RESULT", j, k>>}],
             credit' = [credit EXCEPT ![n][k] = @ + 1]
      PROVE  /\ IsFiniteSet(Handled(a, b)') /\ Handled(a, b)' \subseteq completed'[b]
             /\ credit'[a][b] = Cardinality(Handled(a, b)')
  <2>1. CASE a = n /\ b = k
    <3>1. Handled(a, b)' = Handled(a, b) \cup {j} /\ j \notin Handled(a, b)
      BY <1>0, <1>2, <2>1 DEF Handled
    <3>2. credit'[a][b] = credit[a][b] + 1
      BY <1>0, <1>2, <2>1
    <3>3. IsFiniteSet(Handled(a, b)') /\ Cardinality(Handled(a, b)') = Cardinality(Handled(a, b)) + 1
      BY <1>1, <3>1, FS_AddElement
    <3>4. QED
      BY <1>1, <1>2, <2>1, <3>1, <3>2, <3>3
  <2>2. CASE ~(a = n /\ b = k)
    <3>1. Handled(a, b)' = Handled(a, b)
      BY <1>0, <1>2, <2>2 DEF Handled
    <3>2. credit'[a][b] = credit[a][b]
      BY <1>0, <1>2, <2>2
    <3>3. QED
      BY <1>1, <3>1, <3>2
  <2>3. QED
    BY <2>1, <2>2
<1>3. ASSUME UNCHANGED credit,
             \/ UNCHANGED seen
             \/ \E n \in Node, j \in Job, k \in Node :
                  seen' = [seen EXCEPT ![n] = @ \cup {<<"ANNOUNCE", j, k>>}]
      PROVE  /\ IsFiniteSet(Handled(a, b)') /\ Handled(a, b)' \subseteq completed'[b]
             /\ credit'[a][b] = Cardinality(Handled(a, b)')
  <2>1. Handled(a, b)' = Handled(a, b)
    BY <1>0, <1>3 DEF Handled
  <2>2. QED
    BY <1>1, <1>3, <2>1
<1>4. AllEarned
  BY DEF CreditInv
<1> QED BY <1>2, <1>3, <1>4, BookSteps DEF BookStep

\* CreditInv is inductive, given SubnetInv.
LEMMA CreditStep == SubnetInv /\ CreditInv /\ [Next]_vars => CreditInv'
<1> SUFFICES ASSUME SubnetInv, CreditInv, [Next]_vars PROVE CreditInv'
  OBVIOUS
<1>1. \A n \in Node : IsFiniteSet(completed'[n])
  BY CompletedGrows
<1> QED BY <1>1, EarnedStep, CreditsStep DEF CreditInv

\* The initial states satisfy CreditInv.
LEMMA InitCredit == Init => CreditInv
<1> SUFFICES ASSUME Init PROVE CreditInv
  OBVIOUS
<1>1. AllEarned
  <2>1. \A e \in Node \X Node : 1 .. Len(chan[e]) = {}
    BY DEF Init
  <2>2. QED
    BY <2>1 DEF AllEarned
<1>2. \A n, m \in Node : Handled(n, m) = {} /\ credit[n][m] = 0 /\ completed[n] = {}
  BY DEF Init, Handled
<1> QED BY <1>1, <1>2, FS_EmptySet DEF CreditInv, CreditsMatch

\* A node rewards a result once, by whatever ways and in however many copies it
\* travels: the times a node has raised the score of a miner (_peer_scores) are
\* the results of it that the node has handled, of jobs the miner completed.
THEOREM ResultsAreCreditedOnce == Spec => []CreditedOnce
<1>1. CreditInv => CreditedOnce
  <2> SUFFICES ASSUME CreditInv, NEW n \in Node, NEW m \in Node
               PROVE  credit[n][m] <= Cardinality(completed[m])
    BY DEF CreditedOnce
  <2>1. /\ Handled(n, m) \subseteq completed[m] /\ IsFiniteSet(completed[m])
        /\ credit[n][m] = Cardinality(Handled(n, m))
    BY DEF CreditInv, CreditsMatch
  <2>2. QED
    BY <2>1, FS_Subset
<1>2. Spec => []CreditInv
  BY InitCredit, CreditStep, SubnetInvariant, PTL DEF Spec
<1> QED BY <1>1, <1>2, PTL

=============================================================================
