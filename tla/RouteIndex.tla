----------------------------- MODULE RouteIndex -----------------------------
(***************************************************************************)
(* routing.rs: which pool a host belongs to.  The rules of all pools are   *)
(* put into one index when a routing snapshot is published; a connection   *)
(* only looks its host up.  LinearPool is the definition the index stands  *)
(* for: the longest rule that matches, the first of equally long ones, and *)
(* the default pool if none matches.                                       *)
(*                                                                         *)
(* A host is the sequence of its labels, each of one letter.               *)
(***************************************************************************)
EXTENDS Naturals, Sequences, FiniteSets

AnyHost  == [kind |-> "any", labels |-> << >>]
Exact(h) == [kind |-> "exact", labels |-> h]
Under(h) == [kind |-> "under", labels |-> h]   \* "*." followed by h

NoPool == 0

\* A host has a label at least, and so has what follows the "*." of a rule.
IsHost(h) == Len(h) \in Nat \ {0} /\ DOMAIN h = 1..Len(h)
AreRules(rules) ==
  /\ DOMAIN rules = 1..Len(rules) /\ Len(rules) \in Nat
  /\ \A i \in 1..Len(rules) :
       \/ rules[i] = AnyHost
       \/ IsHost(rules[i].labels)
            /\ rules[i] \in {Exact(rules[i].labels), Under(rules[i].labels)}

\* The length of the rule without its star: "*.b" keeps the dot.
Specificity(rule) ==
  CASE rule.kind = "any"   -> 0
    [] rule.kind = "exact" -> 2 * Len(rule.labels) - 1
    [] OTHER               -> 2 * Len(rule.labels)

\* Mutant: of two equally long rules the later one is taken.
PreferredLater(a, b) ==
  IF \/ a.specificity > b.specificity
     \/ (a.specificity = b.specificity /\ a.order >= b.order)
  THEN a ELSE b

Preferred(a, b) ==
  IF \/ a.specificity > b.specificity
     \/ (a.specificity = b.specificity /\ a.order <= b.order)
  THEN a ELSE b

Best(ranks) == CHOOSE r \in ranks : \A s \in ranks : Preferred(r, s) = r

Places(pools) == UNION {{p} \X (1..Len(pools[p].rules)) : p \in 1..Len(pools)}
RuleAt(pools, place) == pools[place[1]].rules[place[2]]

\* The rules are numbered pool by pool.
Rank(pools, place) ==
  [pool |-> place[1],
   specificity |-> Specificity(RuleAt(pools, place)),
   order |-> place[2] + Cardinality({q \in Places(pools) : q[1] < place[1]})]

DefaultPool(pools) ==
  LET defaults == {p \in 1..Len(pools) : pools[p].default}
  IN  IF defaults = {} THEN NoPool
      ELSE CHOOSE p \in defaults : \A q \in defaults : q <= p

\* RoutingIndex::build.  Nodes are known by their place in the list `nodes`.
Build(nodes, pools) ==
  [members |-> [p \in 1..Len(pools) |->
                  {i \in 1..Len(nodes) : nodes[i] \in pools[p].members}],
   best    |-> [rule \in {RuleAt(pools, q) : q \in Places(pools)} |->
                  Best({Rank(pools, q) :
                          q \in {q \in Places(pools) : RuleAt(pools, q) = rule}})],
   default |-> DefaultPool(pools)]

\* What pool_index looks up: the host, "*", and "*." before every suffix of it.
Lookups(host) ==
  {AnyHost, Exact(host)}
    \union {Under(SubSeq(host, i, Len(host))) : i \in 1..Len(host)}

PoolIndex(index, host) ==
  LET hits == {index.best[rule] : rule \in Lookups(host) \intersect DOMAIN index.best}
  IN  IF hits = {} THEN index.default ELSE Best(hits).pool

-----------------------------------------------------------------------------
Matches(host, rule) ==
  \/ rule.kind = "any"
  \/ rule.kind = "exact" /\ rule.labels = host
  \/ /\ rule.kind = "under" /\ Len(rule.labels) <= Len(host)
     /\ rule.labels = SubSeq(host, Len(host) - Len(rule.labels) + 1, Len(host))

\* linear_pool.
LinearPool(pools, host) ==
  LET hits == {q \in Places(pools) : Matches(host, RuleAt(pools, q))}
      length(q) == Specificity(RuleAt(pools, q))
      longest == {q \in hits : \A s \in hits : length(s) <= length(q)}
  IN  IF hits = {} THEN DefaultPool(pools)
      ELSE (CHOOSE q \in longest :
              \A s \in longest : q[1] < s[1] \/ (q[1] = s[1] /\ q[2] <= s[2]))[1]
=============================================================================
