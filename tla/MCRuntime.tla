----------------------------- MODULE MCRuntime -----------------------------
(***************************************************************************)
(* What the running service keeps in memory, for TLC: the DNS cache, the   *)
(* routing snapshot, the bindings of hosts, the samples and the circuits   *)
(* of targets, the picks of a pool, a node's status, one tunnel, the       *)
(* settings and the window's log page.  None of them reads another's state *)
(* as it is modelled here, so a behaviour is one of a single area and the  *)
(* product of their states is not explored.  The tables and the routes are *)
(* one module, and so are the pages and the events of the window; either   *)
(* has its own bounds.                                                     *)
(***************************************************************************)
EXTENDS Dns, Routing, TargetQuality, TargetCircuits, Balancing, NodeStatus,
        Tunnel, Settings, TrafficView

VARIABLE area

targetVars == << qualityVars, circuitVars >>
nodeVars == << balancingVars, statusVars >>
endVars == << tunnelVars, settingsVars, viewVars >>

vars == << dnsVars, routingVars, targetVars, nodeVars, endVars, area >>

Init ==
  /\ area \in {"mappings", "tables", "routes", "samples", "circuits", "picks",
             "status", "tunnel", "settings", "pages", "events"}
  /\ DnsInit /\ RoutingInit /\ QualityInit /\ CircuitInit
  /\ Balances /\ StatusInit /\ TunnelInit /\ SettingsInit /\ ViewInit
  /\ area # "samples" => mode = "off"
  /\ area # "circuits" => timeout = 1
  /\ area # "status" => storedRow.status = "unknown"
  /\ area # "tunnel" => protocol = "other"

\* The mappings, with one change of the cache.  A row that is neither enabled nor
\* dynamic is for the cache and the loop what a deleted one is.
Mappings ==
  /\ area = "mappings" /\ DnsNext /\ revision' <= 1
  /\ \A i \in Ids : table'[i] \in Rows => table'[i].enabled \/ table'[i].dynamic
  /\ UNCHANGED << routingVars, targetVars, nodeVars, endVars, area >>

\* The tables, with no connection under way.
Tables ==
  /\ area = "tables" /\ TablesNext
  /\ UNCHANGED << dnsVars, targetVars, nodeVars, endVars, area >>

\* Connections, with one change of the tables and no statuses.
Connections ==
  /\ area = "routes" /\ RoutingNext
  /\ edits' <= 1 /\ statuses' = 0
  /\ UNCHANGED << dnsVars, targetVars, nodeVars, endVars, area >>

SamplesOfTargets ==
  /\ area = "samples" /\ QualityNext
  /\ UNCHANGED << dnsVars, routingVars, circuitVars, nodeVars, endVars, area >>

\* The circuits, with one change of the settings.
CircuitsOfTargets ==
  /\ area = "circuits" /\ CircuitNext /\ timeout' >= timeout
  /\ UNCHANGED << dnsVars, routingVars, qualityVars, nodeVars, endVars, area >>

Picks ==
  /\ area = "picks" /\ BalancingNext
  /\ UNCHANGED << dnsVars, routingVars, targetVars, statusVars, endVars, area >>

\* The status of a node, with two writes of it.
StatusOfNode ==
  /\ area = "status" /\ StatusNext /\ reserved' <= 2
  /\ UNCHANGED << dnsVars, routingVars, targetVars, balancingVars, endVars, area >>

OneTunnel ==
  /\ area = "tunnel" /\ TunnelNext
  /\ UNCHANGED << dnsVars, routingVars, targetVars, nodeVars, settingsVars,
                  viewVars, area >>

SettingsOfService ==
  /\ area = "settings" /\ SettingsNext
  /\ UNCHANGED << dnsVars, routingVars, targetVars, nodeVars, tunnelVars,
                  viewVars, area >>

\* The pages of the window, with no events.
Pages ==
  /\ area = "pages" /\ ViewNext
  /\ unread' = << >> /\ announcedRow' = Nothing /\ visible' /\ moves' <= 1
  /\ UNCHANGED << dnsVars, routingVars, targetVars, nodeVars, tunnelVars,
                  settingsVars, area >>

\* Its events, with two rows that stay, no search, no failure and a call less.
Events ==
  /\ area = "events" /\ ViewNext
  /\ lastRow' <= 2 /\ Cardinality(rows') = lastRow'
  /\ view'.search = "all" /\ ~failed' /\ ticket' < MaxAsks
  /\ UNCHANGED << dnsVars, routingVars, targetVars, nodeVars, tunnelVars,
                  settingsVars, area >>

Spec == Init /\ [][Mappings \/ Tables \/ Connections
                     \/ SamplesOfTargets \/ CircuitsOfTargets
                     \/ Picks \/ StatusOfNode
                     \/ OneTunnel \/ SettingsOfService
                     \/ Pages \/ Events]_vars

-----------------------------------------------------------------------------
(* DNS mappings. *)

AnswersDef == [d \in Domains |-> IF d = "a" THEN {1} ELSE {1, 2}]

\* A dynamic mapping whose domain may move.
StoredMappingsDef ==
  [i \in Ids |-> IF i # 1 THEN NoRow
                 ELSE [domain |-> "b", ip |-> 1, enabled |-> TRUE, dynamic |-> TRUE]]

(* Routing. *)

RuleListsDef == {<< Under(<<"b">>) >>, << AnyHost, Exact(<<"a", "b">>) >>, << >>}

HostsDef == {<<"a", "b">>, <<"c">>}

StoredNodesDef ==
  [n \in Nodes |-> IF n = 3 THEN FreeNode
                   ELSE [conf |-> IF n = 1 THEN "c1" ELSE "c2",
                         enabled |-> TRUE, priority |-> 2]]

StoredGroupsDef ==
  [g \in Groups |->
     IF g # 1 THEN FreeGroup
     ELSE [name |-> 1, default |-> TRUE, enabled |-> TRUE,
           rules |-> << Under(<<"b">>) >>, members |-> {1, 2}, sticky |-> TRUE]]

BundleDef ==
  [nodes |-> {"c2", "c3"},
   group |-> [name |-> 9, default |-> TRUE, rules |-> << Exact(<<"a", "b">>) >>,
              members |-> {"c1", "c3"}]]

AffinityDef == [g \in Groups |-> [h \in Hosts |-> [n \in Nodes |-> n]]]

(* Targets: two of one node and one of another. *)

RoutesDef == {<< 1, 1 >>, << 1, 2 >>, << 2, 1 >>}

(* A tunnel: a greeting, its methods and a request in two reads. *)

EndsDef == << 2, 3, 4, 6 >>
=============================================================================
