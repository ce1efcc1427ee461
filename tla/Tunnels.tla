------------------------------- MODULE Tunnels -------------------------------
(***************************************************************************)
(* What xds.Build and xds.Push (admin/internal/xds) make Envoy do with     *)
(* HTTPS tunnels.  A snapshot has a virtual host with an RBAC rule, a      *)
(* cluster and an internal listener for every host key of port 443; Envoy  *)
(* takes the three kinds of resources over one after the other, so it may  *)
(* route by one snapshot and listen by another.  A CONNECT passes the RBAC *)
(* rule of the most specific virtual host and is led to the cluster and    *)
(* listener named there, which compares the SNI of the TLS handshake.      *)
(* The name is a hash of the key and of its IPs (hashName, taken to be     *)
(* injective): another set of IPs is another listener, and Envoy drains    *)
(* the connections of a listener that is gone.                             *)
(*                                                                         *)
(* A key is the set of requested names that it matches: one name, or those *)
(* below the suffix of a wildcard.  A snapshot gives every key the IPs it  *)
(* admits, none when the key is not in the map.  Port 80 has no tunnels:   *)
(* each of its requests is routed anew, as in HostIPs.                     *)
(***************************************************************************)
EXTENDS Naturals, FiniteSets

CONSTANTS
  PodIP,          \* pod IPs
  Host,           \* names that workspaces ask for
  HostKey,        \* host keys of port 443
  NoSNI,          \* the TLS handshake has not arrived
  MaxPush,        \* bound on pushed snapshots
  MaxRestart,     \* bound on restarts of Envoy
  MaxTunnel       \* bound on tunnels at a time

\* What policy.HostIPs returns: a key admits the IPs of every wildcard above it
\* (EnvoyProofs).
Snapshot ==
  {s \in [HostKey -> SUBSET PodIP] :
     \A k, m \in HostKey : k \subseteq m /\ s[k] # {} => s[m] \subseteq s[k]}

Tunnel == [ip : PodIP, key : HostKey, ips : SUBSET PodIP, sni : Host \cup {NoSNI}, draining : BOOLEAN]

\* Of some keys that match a name, one is within all the others: of an exact
\* name and wildcards, the longest.  The keys of HostIPs are so (EnvoyProofs).
KeysNest(keys, names) ==
  /\ keys \subseteq SUBSET names
  /\ \A n \in names, K \in SUBSET keys :
       K # {} /\ (\A k \in K : n \in k) => \E k \in K : \A m \in K : k \subseteq m

ASSUME TunnelsAssumption ==
  /\ KeysNest(HostKey, Host)
  /\ NoSNI \notin Host
  /\ MaxPush \in Nat /\ MaxRestart \in Nat /\ MaxTunnel \in Nat

VARIABLES
  pushed,                        \* the snapshot in the cache of xds.Server
  clusters, listeners, routes,   \* the ones Envoy has taken each kind from
  tunnels,                       \* open tunnels
  pushes, restarts

envoy == <<clusters, listeners, routes, tunnels>>
tunnelVars == <<pushed, envoy, pushes, restarts>>

Empty == [k \in HostKey |-> {}]

TunnelTypeOK ==
  /\ pushed \in Snapshot /\ clusters \in Snapshot
  /\ listeners \in Snapshot /\ routes \in Snapshot
  /\ tunnels \subseteq Tunnel
  /\ pushes \in Nat /\ restarts \in Nat

TunnelInit ==
  /\ pushed = Empty
  /\ clusters = Empty /\ listeners = Empty /\ routes = Empty
  /\ tunnels = {}
  /\ pushes = 0 /\ restarts = 0

-----------------------------------------------------------------------------
(* admin *)

\* Mutant: a name does not inherit the IPs of the wildcards above it.
PushUnmerged(s) ==
  /\ pushes < MaxPush
  /\ pushes' = pushes + 1
  /\ pushed' = [k \in HostKey |-> s[k] \ UNION {s[m] : m \in {m \in HostKey : k # m /\ k \subseteq m}}]
  /\ UNCHANGED <<envoy, restarts>>

\* A rebuild pushes the resources of a new map.
Push(s) ==
  /\ pushes < MaxPush
  /\ pushes' = pushes + 1
  /\ pushed' = s
  /\ UNCHANGED <<envoy, restarts>>

\* Mutant: the IPs are not part of the name.
hashNameOfHost(k, ips) == <<k, {}>>

hashName(k, ips) == <<k, ips>>

\* Mutant: no cluster and listener are built for wildcards.
SniOfExact(s) == {hashName(k, s[k]) : k \in {k \in HostKey : s[k] # {} /\ Cardinality(k) = 1}}

\* Build: the sni_* clusters and listeners of a snapshot.
Sni(s) == {hashName(k, s[k]) : k \in {k \in HostKey : s[k] # {}}}

\* Mutant: the listener takes every handshake.
AcceptsAny(k) == Host

\* sniListener: the SNIs its only filter chain matches.
ServerNames(k) == k

-----------------------------------------------------------------------------
(* Envoy (external) *)

TakeClusters ==
  /\ clusters # pushed
  /\ clusters' = pushed
  /\ UNCHANGED <<pushed, listeners, routes, tunnels, pushes, restarts>>

\* The listeners that are gone drain.
TakeListeners ==
  /\ listeners # pushed
  /\ listeners' = pushed
  /\ tunnels' = {IF hashName(t.key, t.ips) \in Sni(pushed) THEN t
                 ELSE [t EXCEPT !.draining = TRUE] : t \in tunnels}
  /\ UNCHANGED <<pushed, clusters, routes, pushes, restarts>>

TakeRoutes ==
  /\ routes # pushed
  /\ routes' = pushed
  /\ UNCHANGED <<pushed, clusters, listeners, tunnels, pushes, restarts>>

\* The key whose virtual host is the most specific one for name n.
Matching(s, n) == {k \in HostKey : n \in k /\ s[k] # {}}
MostSpecific(s, n) == {k \in Matching(s, n) : \A m \in Matching(s, n) : k \subseteq m}

\* rbacPerRoute admits ip, and cluster and listener of that name are there.
Admits(ip, k) ==
  /\ ip \in routes[k]
  /\ hashName(k, routes[k]) \in Sni(clusters)
  /\ hashName(k, routes[k]) \in Sni(listeners)

\* Stage 1: a CONNECT for name n is let through.
Connect(ip, n, k) ==
  /\ Cardinality(tunnels) < MaxTunnel
  /\ k \in MostSpecific(routes, n)
  /\ Admits(ip, k)
  /\ tunnels' = tunnels \cup {[ip |-> ip, key |-> k, ips |-> routes[k], sni |-> NoSNI,
                               draining |-> FALSE]}
  /\ UNCHANGED <<pushed, clusters, listeners, routes, pushes, restarts>>

\* Stage 2: the handshake names n; any other name ends the connection.
Hello(t, n) ==
  /\ t \in tunnels /\ t.sni = NoSNI
  /\ tunnels' = (tunnels \ {t}) \cup (IF n \in ServerNames(t.key) THEN {[t EXCEPT !.sni = n]} ELSE {})
  /\ UNCHANGED <<pushed, clusters, listeners, routes, pushes, restarts>>

\* The drain time is over, a side closes, or max_stream_duration is reached.
Close(t) ==
  /\ t \in tunnels
  /\ tunnels' = tunnels \ {t}
  /\ UNCHANGED <<pushed, clusters, listeners, routes, pushes, restarts>>

EnvoyRestart ==
  /\ restarts < MaxRestart
  /\ restarts' = restarts + 1
  /\ clusters' = Empty /\ listeners' = Empty /\ routes' = Empty
  /\ tunnels' = {}
  /\ UNCHANGED <<pushed, pushes>>

TunnelNext ==
  \/ \E s \in Snapshot : Push(s)
  \/ TakeClusters \/ TakeListeners \/ TakeRoutes
  \/ \E ip \in PodIP, n \in Host, k \in HostKey : Connect(ip, n, k)
  \/ \E t \in tunnels : Close(t) \/ \E n \in Host : Hello(t, n)
  \/ EnvoyRestart

TunnelSpec == TunnelInit /\ [][TunnelNext]_tunnelVars

\* Envoy takes what was pushed, and ends what drains within the drain time.
Fairness ==
  /\ WF_tunnelVars(TakeClusters) /\ WF_tunnelVars(TakeListeners) /\ WF_tunnelVars(TakeRoutes)
  /\ WF_tunnelVars(\E t \in tunnels : t.draining /\ Close(t))

FairSpec == TunnelSpec /\ Fairness

-----------------------------------------------------------------------------
(* Properties *)

\* Some rule that holds in s lets ip reach n.
MayReach(s, ip, n) == \E k \in HostKey : n \in k /\ ip \in s[k]

\* A tunnel that does not drain carries an SNI that its IP may reach according
\* to the listeners Envoy has: nobody uses an allowed CONNECT for a name only
\* others may reach, and a revocation leaves no tunnel alone, whatever was
\* pushed between CONNECT, handshake and now.
OpenIsEntitled ==
  \A t \in tunnels : ~t.draining /\ t.sni # NoSNI => MayReach(listeners, t.ip, t.sni)

\* Once nothing more is pushed, no tunnel stays open that its IP may not have.
RevokedCloses == <>[](\A t \in tunnels : t.sni # NoSNI => MayReach(pushed, t.ip, t.sni))

\* Once nothing more is pushed, every CONNECT that the rules allow is served:
\* the three kinds of resources meet again, under the names of the last map.
EntitledIsServed ==
  <>[](\A ip \in PodIP, n \in Host : MayReach(pushed, ip, n) =>
         \E k \in MostSpecific(routes, n) : Admits(ip, k) /\ n \in ServerNames(k))

\* The inductive invariant: a tunnel that does not drain runs through a listener
\* of its name, for an IP that the name stands for.
TunnelIInv ==
  /\ TunnelTypeOK
  /\ \A t \in tunnels :
       /\ t.ip \in t.ips
       /\ t.sni # NoSNI => t.sni \in t.key
       /\ ~t.draining => hashName(t.key, t.ips) \in Sni(listeners)

=============================================================================
