-------------------------------- MODULE Dns --------------------------------
(***************************************************************************)
(* DNS mappings: the table dns_mappings, the cache the dialler and the     *)
(* probes read, the commands that edit the table, and the loop that        *)
(* resolves dynamic mappings in the background.                            *)
(*                                                                         *)
(* Sources: commands.rs:717-836, state.rs:184-281 and 840-858,             *)
(* database.rs:1239-1375, proxy.rs:459-477 and 1663-1673.  Every writer of *)
(* the table refreshes the cache afterwards, in two steps: it reads the    *)
(* table under the database lock, and replaces the cache under the cache's *)
(* own write lock.  Nothing orders the two steps of different refreshes.   *)
(***************************************************************************)
EXTENDS Naturals, FiniteSets

CONSTANTS
  Ids,        \* rows of the table
  Domains, Ips,
  StoredMappings,  \* the table as the service finds it
  Answers,    \* Answers[d]: what the resolver may say of a domain
  Parallel,   \* resolutions of the loop at a time (4)
  Callers,    \* threads that run a command
  Loop,       \* the background loop
  MaxWrites   \* bound: changes of the table

\* An identity not given yet, and one whose row was deleted: it is not given again.
NoRow   == [domain |-> "none", ip |-> 0, enabled |-> FALSE, dynamic |-> FALSE]
Deleted == [domain |-> "none", ip |-> 0, enabled |-> FALSE, dynamic |-> TRUE]
Rows  == [domain : Domains, ip : Ips, enabled : BOOLEAN, dynamic : BOOLEAN]

\* A mapping as it was read.
Seen == [id : Ids, row : Rows]
NoMapping == 0
AddressMaps == [Domains -> Ips \union {NoMapping}]

\* A command, or the loop: what it read, and at which change of the table.
TaskRecords ==
  [pc : {"idle", "resolving", "refresh", "swap", "joining", "over"},
   seen : SUBSET Seen, read : AddressMaps, at : Nat]

ASSUME DnsAssumption ==
  /\ StoredMappings \in [Ids -> Rows \union {NoRow}]
  /\ Answers \in [Domains -> SUBSET Ips]
  /\ NoMapping \notin Ips
  /\ "none" \notin Domains
  /\ Loop \notin Callers
  /\ Parallel \in Nat \ {0}
  /\ MaxWrites \in Nat

VARIABLES
  table,     \* Ids -> Rows, NoRow where there is none
  cache,     \* dns_cache: domain -> address, NoMapping where there is none
  revision,  \* probe_settings_revision
  task,      \* commands and the loop: pc, what they read, and when
  pending,   \* the loop: mappings not yet handed to a resolver
  resolving, \* the loop: mappings that are being resolved
  probe,     \* a probe: the mappings and the revision it took
  writes,    \* history: how often the table was changed
  shown,     \* history: the change the cache reflects
  overtaken  \* history: a refresh was overtaken by a later one, or failed

dnsVars == << table, cache, revision, task, pending, resolving, probe,
              writes, shown, overtaken >>

\* active_dns_mappings.
MappedBy(t) ==
  [d \in Domains |->
     LET hits == {i \in Ids : t[i].domain = d /\ t[i].enabled}
     IN  IF hits = {} THEN NoMapping ELSE t[CHOOSE i \in hits : TRUE].ip]

NoneMapped == [d \in Domains |-> NoMapping]
Idle == [pc |-> "idle", seen |-> {}, read |-> NoneMapped, at |-> 0]

\* The service has started (serve refreshes the cache before it accepts).
DnsInit ==
  /\ table = StoredMappings
  /\ cache = MappedBy(StoredMappings)
  /\ revision = 0
  /\ task = [t \in Callers \union {Loop} |-> Idle]
  /\ pending = {} /\ resolving = {}
  /\ probe = [active |-> FALSE, mappings |-> NoneMapped, revision |-> 0]
  /\ writes = 0 /\ shown = 0 /\ overtaken = FALSE

loopVars  == << pending, resolving >>
cacheVars == << cache, revision, shown, overtaken >>

TaskTo(t, pc) == task' = [task EXCEPT ![t].pc = pc]

-----------------------------------------------------------------------------
(* The table. *)

\* The column is UNIQUE.
DomainIsFree(i, d) == \A j \in Ids \ {i} : table[j].domain # d

\* One statement of the database.
Change(i, row) ==
  /\ writes < MaxWrites /\ writes' = writes + 1
  /\ table' = [table EXCEPT ![i] = row]

\* create_, update_, toggle_ and delete_dns_mapping and the import.  A dynamic input
\* is resolved first, before anything is read, so any row may be written.
EditMapping(t) ==
  /\ task[t].pc = "idle"
  /\ \E i \in Ids, row \in Rows \union {Deleted} :
       /\ row # table[i] /\ table[i] # Deleted
       /\ row = Deleted \/ DomainIsFree(i, row.domain)
       /\ table[i] = NoRow => row # Deleted
       /\ Change(i, row)
  /\ TaskTo(t, "refresh")
  /\ UNCHANGED << cacheVars, loopVars, probe >>

\* refresh_dns_mapping: the row is read, then its domain is resolved.
BeginManual(t) ==
  /\ task[t].pc = "idle"
  /\ \E i \in Ids :
       /\ table[i] \in Rows
       /\ task' = [task EXCEPT ![t].pc = "resolving",
                               ![t].seen = {[id |-> i, row |-> table[i]]}]
  /\ UNCHANGED << table, cacheVars, loopVars, probe, writes >>

\* update_dns_ip_if_unchanged.
Unchanged(seen) == table[seen.id] = seen.row

StoreAnswer(seen, ip) == Change(seen.id, [table[seen.id] EXCEPT !.ip = ip])

\* Mutant: what was stored is not shown.
EndManualQuietly(t) ==
  /\ task[t].pc = "resolving"
  /\ \E seen \in task[t].seen :
       \/ \E ip \in Answers[seen.row.domain] \ {seen.row.ip} :
            Unchanged(seen) /\ StoreAnswer(seen, ip)
       \/ UNCHANGED << table, writes >>
  /\ TaskTo(t, "over")
  /\ UNCHANGED << cacheVars, loopVars, probe >>

\* The answer: nothing to do if it is the same; given up if the row has changed.
EndManual(t) ==
  /\ task[t].pc = "resolving"
  /\ \E seen \in task[t].seen :
       \/ \E ip \in Answers[seen.row.domain] \ {seen.row.ip} :
            Unchanged(seen) /\ StoreAnswer(seen, ip) /\ TaskTo(t, "refresh")
       \/ /\ TaskTo(t, "over")
          /\ UNCHANGED << table, writes >>
  /\ UNCHANGED << cacheVars, loopVars, probe >>

\* The service starts, or starts again.
Serve(t) ==
  /\ task[t].pc = "idle"
  /\ TaskTo(t, "refresh")
  /\ UNCHANGED << table, cacheVars, loopVars, probe, writes >>

\* A command returns; its caller may call again.
Return(t) ==
  /\ task[t].pc = "over"
  /\ task' = [task EXCEPT ![t] = Idle]
  /\ UNCHANGED << table, cacheVars, loopVars, probe, writes >>

-----------------------------------------------------------------------------
(* refresh_dns_cache. *)

\* Where a task goes after its refresh.
AfterRefresh(t) == IF t = Loop THEN "joining" ELSE "over"

\* It reads the table.
ReadTable(t) ==
  /\ task[t].pc = "refresh"
  /\ task' = [task EXCEPT ![t].pc = "swap", ![t].read = MappedBy(table),
                          ![t].at = writes]
  /\ UNCHANGED << table, cacheVars, loopVars, probe, writes >>

\* Mutant: the probes are not told.
ReplaceQuietly(t) ==
  /\ cache' = task[t].read
  /\ UNCHANGED revision

\* Under the write lock.
Replace(t) ==
  /\ cache' = task[t].read
  /\ revision' = IF cache = task[t].read THEN revision ELSE revision + 1

SwapCache(t) ==
  /\ task[t].pc = "swap"
  /\ Replace(t)
  /\ shown' = task[t].at
  /\ overtaken' = (overtaken \/ task[t].at < shown)
  /\ TaskTo(t, AfterRefresh(t))
  /\ UNCHANGED << table, loopVars, probe, writes >>

\* The table cannot be read: the caller gets the error, the loop ends its round.
RefreshFails(t) ==
  /\ task[t].pc = "refresh"
  /\ overtaken' = TRUE
  /\ IF t = Loop
     THEN task' = [task EXCEPT ![t] = Idle] /\ pending' = {} /\ resolving' = {}
     ELSE TaskTo(t, "over") /\ UNCHANGED loopVars
  /\ UNCHANGED << table, cache, revision, shown, probe, writes >>

-----------------------------------------------------------------------------
(* refresh_dynamic_mappings. *)

\* list_dynamic_dns_mappings, by the interval or by a change of the settings.
BeginRound ==
  /\ task[Loop].pc = "idle"
  /\ TaskTo(Loop, "joining")
  /\ pending' = {[id |-> i, row |-> table[i]] :
                    i \in {j \in Ids : table[j].enabled /\ table[j].dynamic}}
  /\ UNCHANGED << table, cacheVars, resolving, probe, writes >>

\* Mutant: there is no limit.
MayLaunchAny == pending # {}

MayLaunch == pending # {} /\ Cardinality(resolving) < Parallel

Launch ==
  /\ task[Loop].pc = "joining" /\ MayLaunch
  /\ \E seen \in pending :
       pending' = pending \ {seen} /\ resolving' = resolving \union {seen}
  /\ UNCHANGED << table, cacheVars, task, probe, writes >>

\* join_next: what the resolver says is stored, even if it is the address there was.
\* A domain that does not resolve is left alone, as is a row edited meanwhile.
Join ==
  /\ task[Loop].pc = "joining" /\ ~MayLaunch
  /\ \E seen \in resolving :
       /\ resolving' = resolving \ {seen}
       /\ \/ \E ip \in Answers[seen.row.domain] :
               /\ Unchanged(seen)
               /\ IF ip = table[seen.id].ip
                  THEN UNCHANGED << table, writes >>
                  ELSE StoreAnswer(seen, ip)
               /\ TaskTo(Loop, "refresh")
          \/ UNCHANGED << table, writes, task >>
  /\ UNCHANGED << cacheVars, pending, probe >>

EndRound ==
  /\ task[Loop].pc = "joining" /\ pending = {} /\ resolving = {}
  /\ task' = [task EXCEPT ![Loop] = Idle]
  /\ UNCHANGED << table, cacheVars, loopVars, probe, writes >>

-----------------------------------------------------------------------------
(* A probe takes the mappings and the revision under the cache's read lock.  *)
(* Its result is stored only if the revision is still the same.              *)

TakeSnapshot ==
  /\ ~probe.active
  /\ probe' = [active |-> TRUE, mappings |-> cache, revision |-> revision]
  /\ UNCHANGED << table, cacheVars, loopVars, task, writes >>

EndProbe ==
  /\ probe.active
  /\ probe' = [active |-> FALSE, mappings |-> NoneMapped, revision |-> 0]
  /\ UNCHANGED << table, cacheVars, loopVars, task, writes >>

-----------------------------------------------------------------------------
Refresh(t) == ReadTable(t) \/ SwapCache(t)

DnsNext ==
  \/ \E t \in Callers :
       EditMapping(t) \/ BeginManual(t) \/ EndManual(t) \/ Serve(t) \/ Return(t)
  \/ \E t \in Callers \union {Loop} : Refresh(t) \/ RefreshFails(t)
  \/ BeginRound \/ Launch \/ Join \/ EndRound
  \/ TakeSnapshot \/ EndProbe

DnsSpec == DnsInit /\ [][DnsNext]_dnsVars

DnsTypeOK ==
  /\ table \in [Ids -> Rows \union {NoRow, Deleted}]
  /\ cache \in AddressMaps
  /\ revision \in Nat
  /\ task \in [Callers \union {Loop} -> TaskRecords]
  /\ \A t \in Callers \union {Loop} : task[t].at <= writes
  /\ pending \in SUBSET Seen /\ resolving \in SUBSET Seen
  /\ Cardinality(resolving) <= Parallel
  /\ probe \in [active : BOOLEAN, mappings : AddressMaps, revision : Nat]
  /\ writes \in 0..MaxWrites /\ shown \in 0..writes /\ overtaken \in BOOLEAN

\* An address that was resolved is written only to a row that still asks for it: it
\* is an answer for the domain the row has now, and the background loop writes only
\* to a row that is, now, enabled and dynamic.
ResolvedIsWanted ==
  [][\A i \in Ids :
       LET byLoop   == task[Loop].pc = "joining" /\ task'[Loop].pc = "refresh"
           byManual == \E t \in Callers : task[t].pc = "resolving"
                                           /\ task'[t].pc = "refresh"
       IN  table'[i] # table[i] /\ (byLoop \/ byManual) =>
             /\ table[i] \in Rows
             /\ table'[i].ip \in Answers[table[i].domain]
             /\ byLoop => table[i].enabled /\ table[i].dynamic]_dnsVars

\* Once no refresh is under way, the cache the dialler reads is the enabled rows of
\* the table, unless a refresh failed or overtook a later one between its two steps:
\* that is the only way a committed edit can be left out of the cache.
CacheFollowsTable ==
  (/\ \A t \in Callers \union {Loop} : task[t].pc \notin {"refresh", "swap"}
   /\ ~overtaken)
  => cache = MappedBy(table)

\* A probe whose revision is still current measured with the mappings of now, so the
\* result that is stored is not one of a mapping that was replaced meanwhile.
CurrentProbeUsedCurrentMappings ==
  probe.active /\ probe.revision = revision => probe.mappings = cache

\* Addresses in use are addresses wanted: what is dialled, and what a result that
\* counts was measured with, is what the table says now.
MappingsInv == DnsTypeOK /\ CacheFollowsTable /\ CurrentProbeUsedCurrentMappings
=============================================================================
