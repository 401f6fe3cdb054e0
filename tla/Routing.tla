------------------------------ MODULE Routing ------------------------------
(***************************************************************************)
(* The configuration a connection is routed by: the tables of nodes and    *)
(* groups, the routing snapshot that is published from them, and the       *)
(* bindings of sticky_routes.rs, which keep a host on the backup that      *)
(* took over from its node.                                                *)
(*                                                                         *)
(* Sources: database.rs:354-431 (publication), 681-828 (nodes), 1080-1237  *)
(* (import), 1408-1552 (groups); routing.rs; sticky_routes.rs; proxy.rs    *)
(* 696-906, 1102-1109, 1322-1346 (selection and what a connection proves). *)
(*                                                                         *)
(* Every writer commits and then publishes while it holds the one          *)
(* connection to the database, so here both are steps under a lock.        *)
(* Connections never take it: they read the snapshot.  How nodes fail and  *)
(* recover and which are full is left to the environment (module Dispatch *)
(* has the circuits and the permits).                                      *)
(***************************************************************************)
EXTENDS RouteIndex

CONSTANTS
  Nodes, Groups,   \* identities: numbers, in the order they were given
  Confs,           \* what makes a node itself: host, port, type, credentials
  Hosts,
  RuleLists,       \* sequences of rules a group may have
  Affinity,        \* Affinity[g][h][n]: the rank of node n for host h in group g
  StoredNodes, StoredGroups,  \* the tables as the program finds them
  Bundle,          \* [nodes, groups] of a configuration file
  Commands,        \* threads that run a command
  StatusWriter,    \* the thread that stores statuses
  Requests,        \* connections
  Hold,            \* sticky_failover_seconds
  MaxBindings,     \* MAX_BINDINGS
  MaxEdits,        \* bound: commands that change the tables
  MaxStatuses,     \* bound: statuses stored
  MaxDialFailures, \* bound: failures that change what is believed of a node
  MaxClock         \* bound: the time

NoConf == "none"
FreeNode   == [conf |-> NoConf, enabled |-> FALSE, priority |-> 1]
GoneNode   == [conf |-> NoConf, enabled |-> FALSE, priority |-> 2]
NodeRows == [conf : Confs, enabled : BOOLEAN, priority : 1..2]

\* `sticky`: sticky_host with a hold that is not zero.
FreeGroup == [name |-> 0, default |-> FALSE, enabled |-> FALSE, rules |-> << >>,
              members |-> {}, sticky |-> FALSE]
GoneGroup == [FreeGroup EXCEPT !.sticky = TRUE]
GroupRows == [name : Nat \ {0}, default : BOOLEAN, enabled : BOOLEAN,
              rules : RuleLists \union {Bundle.group.rules}, members : SUBSET Nodes, sticky : BOOLEAN]

ASSUME RoutingAssumption ==
  /\ Nodes \subseteq Nat \ {0} /\ Groups \subseteq Nat \ {0}
  /\ IsFiniteSet(Nodes) /\ IsFiniteSet(Groups)
  /\ NoConf \notin Confs
  /\ \A h \in Hosts : IsHost(h)
  /\ \A rules \in RuleLists \union {Bundle.group.rules} : AreRules(rules)
  /\ MaxBindings \in Nat \ {0} /\ Hold \in Nat \ {0}
  /\ MaxEdits \in Nat /\ MaxStatuses \in Nat /\ MaxClock \in Nat

\* What the commands left behind: members exist, and there is one default group at most.
ASSUME StoredAssumption ==
  /\ StoredNodes \in [Nodes -> NodeRows \union {FreeNode}]
  /\ StoredGroups \in [Groups -> GroupRows \union {FreeGroup}]
  /\ \A g \in Groups :
       \A n \in StoredGroups[g].members : StoredNodes[n] \in NodeRows
  /\ \A f, g \in Groups :
       StoredGroups[f].default /\ StoredGroups[g].default => f = g
  /\ Bundle.nodes \subseteq Confs /\ Bundle.group.members \subseteq Confs
  /\ Bundle.group.name \in Nat \ {0} /\ Bundle.group.default \in BOOLEAN

\* Two ids below 2^16 never have the same rank: the steps of FNV-1a over the bytes of the id
\* cannot meet again within two bytes, and its last steps are one-to-one.
ASSUME AffinityAssumption ==
  /\ Affinity \in [Groups -> [Hosts -> [Nodes -> Nat]]]
  /\ \A g \in Groups, h \in Hosts, m, n \in Nodes :
       Affinity[g][h][m] = Affinity[g][h][n] => m = n

VARIABLES
  nodeRow, groupRow, \* the tables
  snap,              \* Database::routing
  writer,            \* who holds the connection, and what it read
  unpublished,       \* the last commit could not be published
  edits, statuses, dialFailures,
  health,            \* per node: active, inactive, or its circuit is open
  binding,           \* StickyRoutes: group and host -> the backup
  request,           \* connections being made
  clock

tableVars   == << nodeRow, groupRow, unpublished, edits, statuses >>
healthVars  == << health, dialFailures >>
routingVars == << tableVars, snap, writer, healthVars, binding, request, clock >>

NoRead == [nodes |-> << >>, groups |-> << >>, previous |-> << >>]
\* `since` and `grounds` are history: when and on what grounds it was made.
NoBinding == [node |-> 0, gen |-> 0, revision |-> 0, expires |-> 0,
              since |-> 0, grounds |-> {}]
Writers == Commands \union {StatusWriter}
NoPolicy == [group |-> 0, revision |-> 0, preferred |-> 0]
Resting == [pc |-> "idle", host |-> << >>, tried |-> {}, full |-> {},
            policy |-> NoPolicy, node |-> 0, gen |-> 0]

-----------------------------------------------------------------------------
(* publish_routing. *)

\* ORDER BY priority, id.
Before(nodes, m, n) ==
  \/ nodes[m].priority < nodes[n].priority
  \/ nodes[m].priority = nodes[n].priority /\ m < n

Sorted(S, less(_, _)) ==
  [i \in 1..Cardinality(S) |-> CHOOSE x \in S : Cardinality({y \in S : less(y, x)}) = i - 1]

Listed(nodes) ==
  Sorted({n \in Nodes : nodes[n].enabled}, LAMBDA m, n : Before(nodes, m, n))

ListedGroups(groups) ==
  Sorted({g \in Groups : groups[g].enabled}, LAMBDA f, g : f < g)

\* A node that is what it was keeps its generation; 0 = not in the snapshot.
Generations(nodes, previous, generation) ==
  [n \in Nodes |->
     IF ~nodes[n].enabled THEN 0
     ELSE IF previous.gens[n] # 0 /\ previous.confs[n] = nodes[n].conf
          THEN previous.gens[n] ELSE generation]

SamePool(old, row) ==
  /\ old.members = row.members /\ old.rules = row.rules
  /\ old.default = row.default /\ old.sticky = row.sticky

\* Mutant: the nodes of the pool are not looked at.
RevisionOfPool(id, row, gens, previous, generation) ==
  LET kept == {p \in 1..Len(previous.pools) :
                 previous.pools[p].id = id /\ SamePool(previous.pools[p], row)}
  IN  IF kept = {} THEN generation ELSE previous.pools[CHOOSE p \in kept : TRUE].revision

\* So does a pool whose nodes are, all of them, what they were.
Revision(id, row, gens, previous, generation) ==
  LET kept == {p \in 1..Len(previous.pools) :
                 /\ previous.pools[p].id = id /\ SamePool(previous.pools[p], row)
                 /\ \A n \in row.members : previous.gens[n] = gens[n]}
  IN  IF kept = {} THEN generation ELSE previous.pools[CHOOSE p \in kept : TRUE].revision

Pools(groups, gens, previous, generation) ==
  LET ids == ListedGroups(groups)
  IN  [p \in 1..Len(ids) |->
         LET row == groups[ids[p]]
         IN  [id |-> ids[p], default |-> row.default, rules |-> row.rules,
              members |-> row.members, sticky |-> row.sticky,
              revision |-> Revision(ids[p], row, gens, previous, generation)]]

\* Mutant: the nodes are counted, not compared.
SameIndexByLength(list, pools, previous) ==
  /\ Len(list) = Len(previous.list)
  /\ Len(pools) = Len(previous.pools)
  /\ \A p \in 1..Len(pools) :
       /\ pools[p].id = previous.pools[p].id
       /\ pools[p].members = previous.pools[p].members
       /\ pools[p].rules = previous.pools[p].rules
       /\ pools[p].default = previous.pools[p].default

\* The index is built again only if it would be another.
SameIndex(list, pools, previous) ==
  /\ list = previous.list
  /\ Len(pools) = Len(previous.pools)
  /\ \A p \in 1..Len(pools) :
       /\ pools[p].id = previous.pools[p].id
       /\ pools[p].members = previous.pools[p].members
       /\ pools[p].rules = previous.pools[p].rules
       /\ pools[p].default = previous.pools[p].default

Snapshot(nodes, groups, previous) ==
  LET generation == previous.generation + 1
      list  == Listed(nodes)
      gens  == Generations(nodes, previous, generation)
      pools == Pools(groups, gens, previous, generation)
  IN  [generation |-> generation, list |-> list, gens |-> gens,
       confs |-> [n \in Nodes |-> IF nodes[n].enabled THEN nodes[n].conf ELSE NoConf],
       pools |-> pools,
       index |-> IF SameIndex(list, pools, previous) THEN previous.index
                 ELSE Build(list, pools)]

\* RoutingSnapshot::default.
NoSnapshot ==
  [generation |-> 0, list |-> << >>, gens |-> [n \in Nodes |-> 0],
   confs |-> [n \in Nodes |-> NoConf], pools |-> << >>, index |-> Build(<< >>, << >>)]

RoutingInit ==
  /\ nodeRow = StoredNodes /\ groupRow = StoredGroups
  /\ snap = Snapshot(nodeRow, groupRow, NoSnapshot)
  /\ writer = [w \in Writers |-> [pc |-> "idle", read |-> NoRead]]
  /\ unpublished = FALSE /\ edits = 0 /\ statuses = 0 /\ dialFailures = 0
  /\ health = [n \in Nodes |-> "active"]
  /\ binding = [k \in Groups \X Hosts |-> NoBinding]
  /\ request = [r \in Requests |-> Resting]
  /\ clock = 0

\* Mutant: the statuses are written on a connection of their own.
OwnConnection(w) == writer[w].pc = "idle"

\* Database::connection: one connection, and its mutex.
ConnectionFree(w) == \A v \in Writers : writer[v].pc = "idle"

Commit(w, nodes, groups) ==
  /\ ConnectionFree(w)
  /\ nodeRow' = nodes /\ groupRow' = groups
  /\ writer' = [writer EXCEPT ![w].pc = "committed"]
  /\ UNCHANGED << snap, unpublished, healthVars, binding, request, clock >>

Edit(w, nodes, groups) ==
  /\ edits < MaxEdits /\ edits' = edits + 1
  /\ Commit(w, nodes, groups)
  /\ UNCHANGED statuses

\* The tables and the previous snapshot are read.
Gather(w) ==
  /\ writer[w].pc = "committed"
  /\ writer' = [writer EXCEPT
       ![w] = [pc |-> "gathered",
               read |-> [nodes |-> nodeRow, groups |-> groupRow, previous |-> snap]]]
  /\ UNCHANGED << tableVars, snap, healthVars, binding, request, clock >>

\* A statement fails: the caller gets an error, and the commit stays.
NotGathered(w) ==
  /\ writer[w].pc = "committed"
  /\ writer' = [writer EXCEPT ![w].pc = "idle"]
  /\ unpublished' = TRUE
  /\ UNCHANGED << nodeRow, groupRow, edits, statuses, snap, healthVars, binding, request, clock >>

SwapSnapshot(w) ==
  /\ writer[w].pc = "gathered"
  /\ LET read == writer[w].read
     IN  snap' = Snapshot(read.nodes, read.groups, read.previous)
  /\ writer' = [writer EXCEPT ![w] = [pc |-> "idle", read |-> NoRead]]
  /\ unpublished' = FALSE
  /\ UNCHANGED << nodeRow, groupRow, edits, statuses, healthVars, binding, request, clock >>

-----------------------------------------------------------------------------
(* The commands that change nodes. *)

\* SELECT id ... WHERE host = ? AND port = ? AND type = ?
Taken(conf, n) == \E m \in Nodes \ {n} : nodeRow[m].conf = conf

CreateNode(w) ==
  \E n \in Nodes, conf \in Confs, on \in BOOLEAN :
    /\ nodeRow[n] = FreeNode /\ \A m \in Nodes : m < n => nodeRow[m] # FreeNode
    /\ ~Taken(conf, n)
    /\ Edit(w, [nodeRow EXCEPT ![n] = [conf |-> conf, enabled |-> on, priority |-> 2]],
              groupRow)

UpdateNode(w) ==
  \E n \in Nodes, conf \in Confs, on \in BOOLEAN :
    /\ nodeRow[n] \in NodeRows /\ ~Taken(conf, n)
    /\ Edit(w, [nodeRow EXCEPT ![n].conf = conf, ![n].enabled = on], groupRow)

\* Mutant: its memberships stay.
DeleteNodeAlone(w) ==
  \E n \in Nodes :
    /\ nodeRow[n] \in NodeRows
    /\ Edit(w, [nodeRow EXCEPT ![n] = GoneNode], groupRow)

\* Its memberships go with it.
DeleteNode(w) ==
  \E n \in Nodes :
    /\ nodeRow[n] \in NodeRows
    /\ Edit(w, [nodeRow EXCEPT ![n] = GoneNode],
              [g \in Groups |-> [groupRow[g] EXCEPT !.members = @ \ {n}]])

\* update_proxy_priority and update_proxy_priorities.
Reorder(w) ==
  \E S \in (SUBSET {n \in Nodes : nodeRow[n] \in NodeRows}) \ {{}}, p \in 1..2 :
    Edit(w, [n \in Nodes |-> IF n \in S THEN [nodeRow[n] EXCEPT !.priority = p]
                                ELSE nodeRow[n]], groupRow)

\* A probe's observation or a passive status: nothing of this module changes, but the
\* snapshot carries statuses and is published.
StoreStatus ==
  /\ statuses < MaxStatuses /\ statuses' = statuses + 1
  /\ Commit(StatusWriter, nodeRow, groupRow)
  /\ UNCHANGED edits

-----------------------------------------------------------------------------
(* The commands that change groups. *)

\* UPDATE proxy_groups SET is_default = 0
NoDefault(groups) == [g \in Groups |-> [groups[g] EXCEPT !.default = FALSE]]

WithGroup(g, row) ==
  [IF row.default THEN NoDefault(groupRow) ELSE groupRow EXCEPT ![g] = row]

Exists(g) == groupRow[g] \notin {FreeGroup, GoneGroup}
Members == {n \in Nodes : nodeRow[n] \in NodeRows}

CreateGroup(w) ==
  \E g \in Groups, default \in BOOLEAN, rules \in RuleLists :
    /\ groupRow[g] = FreeGroup /\ \A f \in Groups : f < g => groupRow[f] # FreeGroup
    /\ Edit(w, nodeRow, WithGroup(g,
         [name |-> g, default |-> default, enabled |-> TRUE, rules |-> rules,
          members |-> Members, sticky |-> TRUE]))

\* What an update leaves out stays as it is.
UpdateGroup(w) ==
  \E g \in Groups :
    /\ Exists(g)
    /\ LET row == groupRow[g]
       IN  \/ \E b \in BOOLEAN :
                \/ Edit(w, nodeRow, WithGroup(g, [row EXCEPT !.default = b]))
                \/ Edit(w, nodeRow, WithGroup(g, [row EXCEPT !.enabled = b]))
                \/ Edit(w, nodeRow, WithGroup(g, [row EXCEPT !.sticky = b]))
           \/ \E rules \in RuleLists :
                Edit(w, nodeRow, WithGroup(g, [row EXCEPT !.rules = rules]))
           \/ \E S \in SUBSET Members :
                Edit(w, nodeRow, WithGroup(g, [row EXCEPT !.members = S]))

DeleteGroup(w) ==
  \E g \in Groups :
    /\ Exists(g)
    /\ Edit(w, nodeRow, [groupRow EXCEPT ![g] = GoneGroup])

\* import_bundle.  A node whose address is there already is left as it is, so is a
\* group whose name is there; members are found by their address.
ImportNodes ==
  LET new  == {c \in Bundle.nodes : ~\E n \in Nodes : nodeRow[n].conf = c}
      free == {n \in Nodes : nodeRow[n] = FreeNode}
  IN  {f \in [Nodes -> Confs \union {NoConf}] :
         /\ \A n \in Nodes : f[n] # NoConf => n \in free /\ f[n] \in new
         /\ \A c \in new : Cardinality({n \in Nodes : f[n] = c}) = 1}

\* Mutant: the file's default group becomes the default group.
DefaultOfBundle(default) == default

\* The group is the default group only if there is none.
KeptDefault(default) == default /\ \A g \in Groups : ~groupRow[g].default

Import(w) ==
  \E f \in ImportNodes, g \in Groups :
    LET nodes == [n \in Nodes |->
                    IF f[n] = NoConf THEN nodeRow[n]
                    ELSE [conf |-> f[n], enabled |-> TRUE, priority |-> 2]]
        group == [name |-> Bundle.group.name, default |-> KeptDefault(Bundle.group.default),
                  enabled |-> TRUE, rules |-> Bundle.group.rules,
                  members |-> {n \in Nodes : nodes[n].conf \in Bundle.group.members},
                  sticky |-> TRUE]
        known == \E h \in Groups : groupRow[h].name = Bundle.group.name
    IN  /\ known \/ groupRow[g] = FreeGroup
        /\ Edit(w, nodes, IF known THEN groupRow ELSE [groupRow EXCEPT ![g] = group])

-----------------------------------------------------------------------------
(* Selection (try_reserve_proxy, select_from_context, StickyRoutes::prefer). *)

MembersOf(pool) == {snap.list[i] : i \in snap.index.members[pool]}

Highest(g, h, S) == CHOOSE n \in S : \A m \in S : Affinity[g][h][m] <= Affinity[g][h][n]

Active(S) == {n \in S : health[n] = "active"}

\* The head of sticky_host's order: nodes believed inactive come last.
Foremost(g, h, S) == Highest(g, h, IF Active(S) = {} THEN S ELSE Active(S))

\* Mutant: the revision of the pool is not compared.
HoldsForNode(b, revision, S) ==
  /\ b # NoBinding /\ b.expires > clock
  /\ snap.gens[b.node] = b.gen
  /\ b.node \in Active(S)

\* Mutant: any new snapshot ends the hold.
HoldsInSnapshot(b, revision, S) ==
  /\ b # NoBinding /\ b.expires > clock
  /\ b.revision = snap.generation /\ snap.gens[b.node] = b.gen
  /\ b.node \in Active(S)

Holds(b, revision, S) ==
  /\ b # NoBinding /\ b.expires > clock
  /\ b.revision = revision /\ snap.gens[b.node] = b.gen
  /\ b.node \in Active(S)

\* The first candidate of S, and what is left of the binding.
Choose(pool, h, S, b) ==
  LET p == snap.pools[pool]
      held == p.sticky /\ Holds(b, p.revision, S)
  IN  [node |-> IF S = {} THEN 0 ELSE IF held THEN b.node ELSE Foremost(p.id, h, S),
       binding |-> IF p.sticky /\ ~held THEN NoBinding ELSE b]

\* A connection to a host that a sticky pool serves asks for a node.  `full` has no dial
\* permit left.  The first choice is made among all, and is made again without the
\* full ones if it is full.
SelectNode(r, h, tried) ==
  LET pool == PoolIndex(snap.index, h) IN
  /\ pool # NoPool /\ snap.pools[pool].sticky /\ MembersOf(pool) # {}
  /\ LET p == snap.pools[pool]
         key == << p.id, h >>
         candidates == {n \in MembersOf(pool) : n \notin tried /\ health[n] # "open"}
         preferred == Highest(p.id, h, MembersOf(pool))
     IN  \E full \in SUBSET candidates :
           LET first == Choose(pool, h, candidates, binding[key])
               again == Choose(pool, h, candidates \ full, first.binding)
               chosen == IF first.node \in full THEN again ELSE first
           IN  /\ binding' = [binding EXCEPT ![key] = chosen.binding]
               /\ request' = [request EXCEPT ![r] =
                    IF chosen.node = 0 THEN Resting
                    ELSE [pc |-> "dialing", host |-> h, tried |-> tried,
                          full |-> full \intersect {preferred, binding[key].node},
                          policy |-> IF preferred \in Active(candidates) THEN NoPolicy
                                     ELSE [group |-> p.id, revision |-> p.revision,
                                           preferred |-> preferred],
                          node |-> chosen.node, gen |-> snap.gens[chosen.node]]]
  /\ UNCHANGED << tableVars, snap, writer, healthVars, clock >>

Connect(r) == request[r].pc = "idle" /\ \E h \in Hosts : SelectNode(r, h, {})

TryAgain(r) ==
  /\ request[r].pc = "failed"
  /\ SelectNode(r, request[r].host, request[r].tried \union {request[r].node})

GiveUpConnecting(r) ==
  /\ request[r].pc = "failed"
  /\ request' = [request EXCEPT ![r] = Resting]
  /\ UNCHANGED << tableVars, snap, writer, healthVars, binding, clock >>

Owned(r) == snap.gens[request[r].node] = request[r].gen

\* What a binding rests on: the node, and the pool with all its nodes.
Grounds(g, n) ==
  LET pools == {p \in 1..Len(snap.pools) : snap.pools[p].id = g}
  IN  {<< snap.confs[n], [snap.pools[p] EXCEPT !.revision = 0],
          [m \in snap.pools[p].members |-> snap.confs[m]] >> : p \in pools}

\* Mutant: an entry is made however many there are.
MakeRoomForAll(live) == live

\* The bindings that have not expired, without the oldest if there are too many.
MakeRoom(live) ==
  IF Cardinality({k \in DOMAIN live : live[k] # NoBinding}) < MaxBindings THEN live
  ELSE LET held == {k \in DOMAIN live : live[k] # NoBinding}
           oldest == CHOOSE k \in held : \A l \in held : live[k].expires <= live[l].expires
       IN  [live EXCEPT ![oldest] = NoBinding]

\* StickyRoutes::remember, with the snapshot of now.
Remember(r) ==
  LET q == request[r]
      key == << q.policy.group, q.host >>
      pools == {p \in 1..Len(snap.pools) : /\ snap.pools[p].id = q.policy.group
                                          /\ snap.pools[p].revision = q.policy.revision}
      b == binding[key]
      known == b.node = q.node /\ b.revision = q.policy.revision /\ b.expires > clock
      live == [k \in DOMAIN binding |->
                 IF binding[k].expires > clock THEN binding[k] ELSE NoBinding]
  IN  IF q.policy = NoPolicy \/ q.node = q.policy.preferred \/ pools = {} \/ known
      THEN UNCHANGED binding
      ELSE binding' = [MakeRoom(live) EXCEPT
             ![key] = [node |-> q.node, gen |-> q.gen, revision |-> q.policy.revision,
                       expires |-> clock + Hold, since |-> clock,
                       grounds |-> Grounds(q.policy.group, q.node)]]

\* The connection is there and the target has answered.
Verified(r) ==
  /\ request[r].pc = "dialing" /\ Owned(r)
  /\ Remember(r)
  /\ health' = [health EXCEPT ![request[r].node] = "active"]
  /\ request' = [request EXCEPT ![r] = Resting]
  /\ UNCHANGED << tableVars, snap, writer, dialFailures, clock >>

\* The node fails, or was edited meanwhile.  A failure may open its circuit.
DialFails(r) ==
  /\ request[r].pc = "dialing"
  /\ \/ UNCHANGED healthVars
     \/ /\ Owned(r)
        /\ dialFailures < MaxDialFailures /\ dialFailures' = dialFailures + 1
        /\ \E h \in {"inactive", "open"} :
             health' = [health EXCEPT ![request[r].node] = h]
  /\ request' = [request EXCEPT ![r].pc = "failed", ![r].full = {}]
  /\ UNCHANGED << tableVars, snap, writer, binding, clock >>

\* A probe, or the end of a cooling time.
Recover(n) ==
  /\ health[n] # "active"
  /\ health' = [health EXCEPT ![n] = "active"]
  /\ UNCHANGED << tableVars, snap, writer, dialFailures, binding, request, clock >>

\* update_load_settings with an algorithm: all bindings are forgotten.
SetAlgorithm ==
  /\ \E k \in DOMAIN binding : binding[k] # NoBinding
  /\ binding' = [k \in DOMAIN binding |-> NoBinding]
  /\ UNCHANGED << tableVars, snap, writer, healthVars, request, clock >>

\* When nothing is remembered, time makes no difference.
Tick ==
  /\ \E k \in DOMAIN binding : binding[k] # NoBinding
  /\ clock < MaxClock /\ clock' = clock + 1
  /\ UNCHANGED << tableVars, snap, writer, healthVars, binding, request >>

-----------------------------------------------------------------------------
TablesNext ==
  \/ \E w \in Commands :
       \/ CreateNode(w) \/ UpdateNode(w) \/ DeleteNode(w) \/ Reorder(w)
       \/ CreateGroup(w) \/ UpdateGroup(w) \/ DeleteGroup(w) \/ Import(w)
  \/ StoreStatus
  \/ \E w \in Writers : Gather(w) \/ NotGathered(w) \/ SwapSnapshot(w)

RoutesNext ==
  \/ \E r \in Requests :
       Connect(r) \/ TryAgain(r) \/ GiveUpConnecting(r) \/ Verified(r) \/ DialFails(r)
  \/ \E n \in Nodes : Recover(n)
  \/ SetAlgorithm \/ Tick

RoutingNext == TablesNext \/ RoutesNext

RoutingSpec == RoutingInit /\ [][RoutingNext]_routingVars

RoutingTypeOK ==
  /\ nodeRow \in [Nodes -> NodeRows \union {FreeNode, GoneNode}]
  /\ groupRow \in [Groups -> GroupRows \union {FreeGroup, GoneGroup}]
  /\ \A g \in Groups : groupRow[g].members \subseteq Members
  /\ edits \in 0..MaxEdits /\ statuses \in 0..MaxStatuses /\ unpublished \in BOOLEAN
  /\ \A w \in Writers : writer[w].pc \in {"idle", "committed", "gathered"}
  /\ health \in [Nodes -> {"active", "inactive", "open"}]
  /\ snap.gens \in [Nodes -> 0..snap.generation]
  /\ \A k \in DOMAIN binding :
       binding[k] = NoBinding
         \/ (binding[k].node \in Nodes /\ binding[k].expires \in 0..(MaxClock + Hold))
  /\ \A r \in Requests : request[r].pc \in {"idle", "dialing", "failed"}
  /\ clock \in 0..MaxClock

\* The index a snapshot routes by, even if it was taken over from the snapshot before,
\* sends every host to the pool with the longest matching rule, the first among equals,
\* and finds the members of that pool in the list of this snapshot.
IndexAgreesWithRules ==
  \A h \in Hosts :
    LET p == PoolIndex(snap.index, h)
    IN  /\ p = LinearPool(snap.pools, h)
        /\ p # NoPool =>
             MembersOf(p) = {n \in snap.pools[p].members : snap.gens[n] # 0}

\* There is one default group at most, whatever commands and imports do.
OneDefault == Cardinality({g \in Groups : groupRow[g].default}) <= 1

\* When no writer is between its commit and its publication, connections are routed by
\* what the tables say, unless the last publication failed.
SnapshotFollowsTables ==
  (\A w \in Writers : writer[w].pc = "idle") /\ ~unpublished =>
    /\ snap.list = Listed(nodeRow)
    /\ \A n \in Nodes : snap.gens[n] # 0 => snap.confs[n] = nodeRow[n].conf
    /\ [p \in 1..Len(snap.pools) |-> snap.pools[p].id] = ListedGroups(groupRow)
    /\ \A p \in 1..Len(snap.pools) : SamePool(snap.pools[p], groupRow[snap.pools[p].id])

\* However many hosts fail over, no more than MaxBindings are remembered.
BindingsBounded ==
  Cardinality({k \in DOMAIN binding : binding[k] # NoBinding}) <= MaxBindings

\* Whatever commands, imports and statuses overlap, a connection is routed by the tables.
RoutingInv ==
  RoutingTypeOK /\ OneDefault /\ SnapshotFollowsTables /\ IndexAgreesWithRules
    /\ BindingsBounded

\* A new connection leaves the node that ranks first, although that node is active and has
\* room, only for a backup that proved itself less than Hold ago, when that backup, the
\* rules and policy of the pool and all nodes of the pool were what they are now.
DetourIsHeld ==
  \A r \in Requests :
    request[r].pc # "dialing" /\ request'[r].pc = "dialing" =>
      LET q == request'[r]
          pool == PoolIndex(snap.index, q.host)
          id == snap.pools[pool].id
          first == Highest(id, q.host, MembersOf(pool))
      IN  \/ q.node = first \/ first \in q.full \union q.tried
          \/ health[first] # "active"
          \/ /\ binding[<< id, q.host >>].node = q.node
             /\ binding[<< id, q.host >>].grounds = Grounds(id, q.node)
             /\ binding[<< id, q.host >>].since + Hold > clock

\* A connection that asks for a node gives up a hold only when it is over, when the backup
\* failed or was changed, when the pool was, or when the backup is no candidate for this
\* connection: it was tried before, or has no permit left at the moment (README.md:380 does
\* not have the last).  No other publication, and no other pool's change, ends it.
HoldIsKept ==
  \A k \in Groups \X Hosts, r \in Requests :
    LET b == binding[k]
        q == request'[r]
    IN  /\ b # NoBinding /\ binding'[k] = NoBinding
        /\ request[r].pc # "dialing" /\ q.pc = "dialing"
        => \/ b.expires <= clock
           \/ health[b.node] # "active"
           \/ b.gen # snap.gens[b.node]
           \/ ~\E p \in 1..Len(snap.pools) :
                  snap.pools[p].id = k[1] /\ snap.pools[p].revision = b.revision
           \/ b.node \in q.tried \union q.full

\* A failover sticks to its backup as long as, and no longer than, its grounds last.
StickinessIsKept == [][DetourIsHeld /\ HoldIsKept]_routingVars
=============================================================================
