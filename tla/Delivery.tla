------------------------------ MODULE Delivery ------------------------------
(***************************************************************************)
(* Blocks of one chain handed to add_block in any order, some of them more *)
(* than once: what a node that catches up goes through.  The history       *)
(* variables remember which blocks were handed over and which of those     *)
(* add_block forgot: it stores a block without its parent only when the    *)
(* chain is already above the genesis block.  Payments enter and leave the *)
(* mempool between two calls of add_block, which neither reads nor writes  *)
(* it.                                                                     *)
(***************************************************************************)
EXTENDS Ledger

\* The blocks are one chain: each is acceptable on top of the one below it.
OneChain ==
  /\ \A a, b \in Block : a.height = b.height => a = b
  /\ \A b \in Block : b # Genesis => \E a \in Block : Validate(b, a)
  /\ \A a, b \in Block : a # b => Images(a) \cap Images(b) = {}
  /\ \A b \in Block : Conflicts(b, {}) = {}

VARIABLES
  received,  \* blocks handed to add_block so far
  dropped    \* of those, the ones neither stored nor added when last handed over

deliveryVars == <<vars, received, dropped>>

DeliveryInit == Init /\ received = {} /\ dropped = {}

Deliver(b) ==
  /\ AddBlock(b)
  /\ received' = received \cup {b}
  /\ dropped' = IF ~MissesParent(b) /\ ~Accepts(b) THEN dropped \cup {b}
                                                   ELSE dropped \ {b}

DeliveryNext ==
  \/ \E b \in Block \ {Genesis} : Deliver(b)
  \/ (ProcessOrphans \/ MempoolStep) /\ UNCHANGED <<received, dropped>>

DeliverySpec == DeliveryInit /\ [][DeliveryNext]_deliveryVars

-----------------------------------------------------------------------------

OnChain == {chain[i] : i \in DOMAIN chain}

\* The order of delivery does not matter: whenever add_block has returned, a
\* block that was handed over with every block below it, and none of them
\* forgotten, is on the chain (the passes of _process_orphans), unless the
\* stack was too small for the orphans and no pass was completed since.
CaughtUp ==
  Idle /\ ~raised => \A b \in received :
            (\A a \in Block \ {Genesis} : a.height <= b.height => a \in received \ dropped)
              => b \in OnChain

=============================================================================
