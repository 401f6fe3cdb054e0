----------------------------- MODULE Balancing ------------------------------
(***************************************************************************)
(* How a node is picked from the candidates of a pool, and the two things  *)
(* every pick leaves behind for the next one (order_proxies_in_pool and    *)
(* commit_pool_selection in proxy.rs): the pool's cursor and, for the      *)
(* adaptive algorithm, its count of selections.  try_reserve_proxy does    *)
(* all of it under selection_lock, so a pick is one step.                  *)
(*                                                                         *)
(* Which nodes are candidates, which of them are down and which are still  *)
(* to be learnt changes between picks in any way: with the routes of the   *)
(* hosts, with breakers, dial slots, retries, health and statistics.  The  *)
(* score of a node and the affinity of a host only rank, so that any       *)
(* preferred candidate may have the best.                                  *)
(***************************************************************************)
EXTENDS Naturals, FiniteSets

CONSTANTS
  Upstreams,   \* ids of nodes
  PoolIds,     \* groups, and 0 for the nodes without one
  Period,      \* every how many selections the adaptive algorithm learns
  MaxLoad      \* bound: connections of a node

ASSUME BalancingAssumption ==
  /\ Upstreams \subseteq Nat \ {0}
  /\ IsFiniteSet(Upstreams)
  /\ 0 \in PoolIds
  /\ Period \in Nat \ {0}
  /\ MaxLoad \in Nat

VARIABLES
  cursor,      \* round_robin_index: the node a pool picked last; 0 for none
  count,       \* adaptive_sequence, modulo Period
  load,        \* active_connections
  passedOver,  \* history: for how many turns of the pool in a row a node was
               \* in line and another one was picked
  untaught     \* history: adaptive selections of a pool since its last for
               \* learning

balancingVars == << cursor, count, load, passedOver, untaught >>

Balances ==
  /\ cursor = [p \in PoolIds |-> 0]
  /\ count = [p \in PoolIds |-> 0]
  /\ load = [n \in Upstreams |-> 0]
  /\ passedOver = [p \in PoolIds |-> [n \in Upstreams |-> 0]]
  /\ untaught = [p \in PoolIds |-> 0]

-----------------------------------------------------------------------------
\* The ring of ids, cut behind the node picked last: min_by_key (id <= last, id).
RingBefore(last, a, b) ==
  \/ last < a /\ b <= last
  \/ (a <= last <=> b <= last) /\ a < b

\* Mutant: the ring is cut before the node picked last.
NextFrom(last, S) ==
  CHOOSE n \in S : \A m \in S \ {n} :
    IF last = 0 THEN n < m ELSE RingBefore(last - 1, n, m)

NextAfter(last, S) == CHOOSE n \in S : \A m \in S \ {n} : RingBefore(last, n, m)

\* prefer_candidates: a node that is down is the last resort.
PreferredOf(candidates, down) ==
  IF candidates \subseteq down THEN candidates ELSE candidates \ down

LeastLoaded(S) == {n \in S : \A m \in S : load[n] <= load[m]}

\* Whether the selection that is about to be made is one for learning.
LearningTurn(p) == count[p] + 1 = Period

-----------------------------------------------------------------------------
\* Selections drop the cursors of pools that are gone, or disabled.
CursorsOf(listed) == [p \in PoolIds |-> IF p \in listed THEN cursor[p] ELSE 0]

\* Mutant: the turn of a pool is remembered for no one.
CursorLeft(p, n, listed) == CursorsOf(listed)

CursorAt(p, n, listed) == [CursorsOf(listed) EXCEPT ![p] = n]

\* The next of the nodes in line, and the cursor on it.
Turn(p, inLine, listed) ==
  LET n == NextAfter(cursor[p], inLine)
  IN  /\ cursor' = CursorAt(p, n, listed)
      /\ load' = [load EXCEPT ![n] = @ + 1]
      /\ passedOver' =
           [q \in PoolIds |-> [m \in Upstreams |->
              IF q \notin listed THEN 0
              ELSE IF q # p THEN passedOver[q][m]
              ELSE IF m \in inLine \ {n} THEN passedOver[p][m] + 1 ELSE 0]]

\* Any of the preferred, and the cursor stays.
OffTurn(p, preferred, listed) ==
  \E n \in preferred :
    /\ load' = [load EXCEPT ![n] = @ + 1]
    /\ cursor' = CursorsOf(listed)
    /\ passedOver' = [q \in PoolIds |-> IF q \in listed THEN passedOver[q]
                                        ELSE [m \in Upstreams |-> 0]]

\* The adaptive selection forgets the counts of pools that are gone; no
\* other selection looks at them.
Uncounted == UNCHANGED << count, untaught >>

RoundRobin(p, preferred, listed) ==
  Turn(p, preferred, listed) /\ Uncounted

LeastConnections(p, preferred, listed) ==
  Turn(p, LeastLoaded(preferred), listed) /\ Uncounted

\* commit_pool_selection leaves a sticky pool's cursor alone.
StickyHost(p, preferred, listed) ==
  OffTurn(p, preferred, listed) /\ Uncounted

\* Mutant: the selections of all pools are counted together.
CountedTogether(p, listed) ==
  [q \in PoolIds |-> IF LearningTurn(q) THEN 0 ELSE count[q] + 1]

Counted(p, listed) ==
  [q \in PoolIds |-> IF q \notin listed THEN 0
                     ELSE IF q # p THEN count[q]
                     ELSE IF LearningTurn(p) THEN 0 ELSE count[p] + 1]

\* Adaptive: the best score, but on a learning turn the next of the nodes
\* that are up and have yet to be learnt or explored.  Only learning turns
\* move the cursor, and do without a learner as well.
AdaptiveBest(p, preferred, listed) ==
  /\ ~LearningTurn(p)
  /\ OffTurn(p, preferred, listed)
  /\ count' = Counted(p, listed)
  /\ untaught' = [q \in PoolIds |-> IF q \notin listed THEN 0
                                    ELSE untaught[q] + (IF q = p THEN 1 ELSE 0)]

AdaptiveLearns(p, preferred, learners, listed) ==
  /\ LearningTurn(p)
  /\ IF learners # {} THEN Turn(p, learners, listed)
     ELSE \E best \in preferred : Turn(p, {best}, listed)
  /\ count' = Counted(p, listed)
  /\ untaught' = [q \in PoolIds |-> IF q \notin listed \/ q = p THEN 0 ELSE untaught[q]]

-----------------------------------------------------------------------------
\* A reservation in pool p.  A full node is no candidate: if it comes first,
\* the selection is repeated without the full ones before it is committed.
Pick(p, candidates, down, listed) ==
  LET preferred == PreferredOf(candidates, down)
  IN  \/ RoundRobin(p, preferred, listed)
      \/ LeastConnections(p, preferred, listed)
      \/ StickyHost(p, preferred, listed)
      \/ AdaptiveBest(p, preferred, listed)
      \/ \E learners \in SUBSET (candidates \ down) :
           AdaptiveLearns(p, preferred, learners, listed)

Release(n) ==
  /\ load[n] > 0
  /\ load' = [load EXCEPT ![n] = @ - 1]
  /\ UNCHANGED << cursor, count, passedOver, untaught >>

BalancingNext ==
  \/ \E p \in PoolIds, listed \in SUBSET PoolIds, candidates \in SUBSET Upstreams :
       /\ {p, 0} \subseteq listed
       /\ candidates # {} /\ \A n \in candidates : load[n] < MaxLoad
       /\ \E down \in SUBSET candidates : Pick(p, candidates, down, listed)
  \/ \E n \in Upstreams : Release(n)

BalancingSpec == Balances /\ [][BalancingNext]_balancingVars

-----------------------------------------------------------------------------
BalancingTypeOK ==
  /\ cursor \in [PoolIds -> Upstreams \union {0}]
  /\ count \in [PoolIds -> 0..(Period - 1)]
  /\ load \in [Upstreams -> 0..MaxLoad]
  /\ passedOver \in [PoolIds -> [Upstreams -> Nat]]
  /\ untaught \in [PoolIds -> Nat]

(* No node that stays in line is passed over by the same node twice: in    *)
(* round robin among the candidates that are up, with the fewest           *)
(* connections among those that tie, in the adaptive algorithm among those *)
(* to be learnt.  This holds whatever the algorithm is from one pick to    *)
(* the next and however the candidates come and go, though all of it rests *)
(* on one id per pool, and that id may be of a node that is a candidate no *)
(* more.                                                                   *)
TurnComesRound ==
  \A p \in PoolIds, n \in Upstreams :
    passedOver[p][n] < Cardinality(Upstreams)

(* However the selections of several pools alternate, each pool makes one  *)
(* of every Period adaptive selections of its own for learning: with       *)
(* TurnComesRound, a node that is up and yet to be learnt in all of them   *)
(* is tried after at most Period times as many selections as there are     *)
(* nodes, whatever its score.                                              *)
LearningComesRound == \A p \in PoolIds : untaught[p] < Period

(* Nobody starves for being ranked low.                                    *)
TurnsAreFair == TurnComesRound /\ LearningComesRound
=============================================================================
