# Formal models of the Sandcastle control plane

TLA+ models, TLC runs and TLAPS proofs for `sandcastle-admin` (`admin/`), the
service that decides which workspace may reach which host and pushes that
decision to Envoy and Cilium.

## The system

| Part | State | Operations | Code |
|---|---|---|---|
| Zone store | zones, `is_default`, zone rules, assignments (Postgres) | create, clone, rename, delete, set default, add/delete rule, assign, seed | `store/zones.go`, `store/store.go`, `001_init.sql` |
| Requests and grants | requests, workspace rules with expiry, audit | file, decide, grant, revoke, expire | `store/requests.go`, `store/zones.go` |
| Reconcile loop | `changed` channel (capacity 1), `lastErr`, tickers | wake, drain, rebuild, resync, expire | `cmd/sandcastle-admin/main.go` |
| Policy | none (pure) | `ZoneOf`, `Effective`, `HostIPs` | `policy/policy.go` |
| xDS server | snapshot cache, `version` | `Build`, `Push`, access-log stream | `xds/` |
| Cilium applier | objects at the kube API | `Render`, `Apply` (create, update, prune) | `cilium/cilium.go` |
| Pod watcher | informer cache | `Running`, `ByIP`, `ByID` | `watch/pods.go` |
| Denials | `throttle.last`, table `denials` | `allow`, `RecordDenial` | `main.go`, `store/requests.go` |
| Sessions | signed cookies, `TEST_TOKEN` | login, callback, logout, `Require` | `auth/auth.go` |
| Web UI | none | handlers, each ending in `done` | `web/` |

Handlers run concurrently. Each store method is one READ COMMITTED transaction.
A handler that succeeds calls `Changed`, a send that does not block; so does the
informer after it updates its cache. One goroutine selects on that channel, a
one-minute resync and a 30-second expiry ticker, and rebuilds the whole policy:
three queries, the running pods, `HostIPs`, Envoy, then Cilium. The deployment
has one replica with strategy Recreate, so two processes never overlap.

What makes it hard: statements of different transactions interleave; a decision
is often taken on an unlocked read; the policy is read in several steps while it
changes; any stage may fail or time out; the process may die between a commit
and its announcement; snapshot versions restart with the process; grants lapse
by the clock; Go iterates maps in random order; others write the same Kubernetes
objects; a request may be served after its caller gave up; pod IPs are reused and
the informer lags; log entries, links, forms and callback URLs are used late; Envoy
takes a snapshot over piece by piece. `PROJECT.json` lists these
hazards at their lines, with the properties that cover them.

## Modules

| Module | Models |
|---|---|
| `Zones` | zone half of the store, one action per SQL statement |
| `Requests` | requests, grants, expiry and their audit rows |
| `Reconcile` | select loop, rebuild, xDS cache, Envoy's stream, crashes |
| `Enforcement` | abstract: what Envoy enforces never goes back |
| `HostIPs` | `policy.HostIPs`, its map iteration as free choice |
| `Denials` | throttle and concurrent `RecordDenial` |
| `PolicyRead` | the three queries of `PolicyInput` between commits, `Effective`, `Render` |
| `CiliumApply` | `cilium.Apply` call by call, with other writers and failing calls |
| `Tunnels` | `xds.Build` as Envoy takes it over: CONNECT, SNI, draining |
| `Pods` | `watch.Pods`, attribution of denials, the request link |
| `Sessions` | `auth`: login through Coder, cookies, CSRF, the test hook's bearer |
| `MC*` | instances for TLC |
| `EnvoyProofs` | theorems about `HostIPs` and `Tunnels`, and that the one supplies the other |
| `CiliumProofs` | theorems about `CiliumApply` and `PolicyRead`, and what they give together |
| other `*Proofs` | theorems about the module of that name |

**Zones.** The tables hold committed rows. `tx[s]` is the open transaction of
session `s`: its next statement, the locks it holds and its uncommitted writes,
which reach the tables at `Commit`. A statement that needs a row another
transaction holds is disabled until that one ends (`Writable`, `Shareable`,
`Deletable`, `RowFree`, `RuleFree`). A rename that changes the unique column `name`
holds its row FOR UPDATE and keeps new references to it out until it ends (`named`);
one to the same name does not. An UPDATE or DELETE that waits looks again
only at the rows its snapshot found. Foreign keys, the cascade to rules and the
index `zones_one_default` are guards of the statements they check. `Abort` is any
rollback (cancelled request, lost connection, name clash, deadlock victim);
`Restart` is a new process, which runs `Seed`.

**Requests.** The same style. The audit table is kept as counts per request and
per grant: `filed`, `decided`, `opened`, `closed`. `Lapse` is the clock reaching
`expires_at`.

**Reconcile.** The contents of an input (`zones`, `rules`, `assignments`, `pods`)
are a version number. `Read` takes one input at a time, so a rebuild may mix
versions. `owed` counts callers between their commit and `notify`; `silent` marks
a commit whose caller saw an error; `due` marks an expired row still in the table.
`whole` says that the last `cilium.Apply` went through; after a failed one
`cilium` bounds what any of the policies was rendered from; a crash within it leaves
all, some or none of them written. The informer's resync every ten minutes notifies
without a change (`InformerResync`). Envoy and the snapshot cache are external: a watch is answered
when versions differ, and may or may not be when they are equal.

**HostIPs.** A name is its labels from the top-level domain down, so a wildcard
covers a key when its labels are a proper prefix. The loop over the pods is
`Init`; each turn of the two nested loops is an action that picks any key left.
`Routed` is Envoy's choice of the exact domain, else the longest wildcard.

**Denials.** The style of `Zones`, one stream per access-log stream of Envoy.
`last` is the throttle's map; `Allow` is the part of `allow` that answers true,
the other part changes nothing. `now` is taken at BEGIN, as Postgres does, so a
transaction may reach a row after one that began later. `Trim` is the snapshot of
the DELETE and `Delete` its row locks: it deletes the rows it found unless they
are gone meanwhile. The process and the database share one clock. Which
workspace and host a log entry names is a free choice.

**PolicyRead.** The committed rows change by whole transactions (their statements
are the subject of `Zones` and `Requests`); `QueryZones`, `QueryRules` and
`QueryAssignments` each copy what is committed at that moment. `homes` and `lists`
remember where each workspace was and what it was entitled to while the read went
on. `Valid` are the rows that `ValidRule` accepts: no other is added, but a row that
another release accepted may be there, and `Effective` and `dnsRules` drop it. `Render` is a set of policies; `Allowed` is how the API server and Cilium take
them: a selector without values is refused, an empty DNS rule list allows every
name.

**CiliumApply.** One action per answered API call (`Get`, `CreateOrUpdate`, `List`,
`Delete`) and one per failing call. A write that failed for its caller may wait in
`late` and be served at any later time. `Deadline` ends the rebuild's context: the
calls left fail without being sent. Objects carry a resourceVersion, which `Update`
must match; `Delete` has no precondition, as in the code. `errs` are the names in
the joined error, `touched` those somebody else wrote since `Apply` began.
`OtherWrite` and `OtherDelete` may relabel, edit, replace or delete any object.

**Tunnels.** A key is the set of names it matches, a snapshot maps keys to IPs as
`HostIPs` does (closed under the wildcards above, which `EnvoyProofs` shows).
Clusters, listeners and routes of Envoy each come from some pushed snapshot.
`hashName` is injective. A tunnel whose listener is gone drains. Port 80 has no
tunnels.

**Pods.** A pod goes through its stages once, the cache follows each pod's stages
in order but not in step with other pods' (the informer's queue and a relist both
allow that). `moved` marks a log entry or link whose IP was given to another pod
since, `Stale` an IP whose former pod the cache still takes for running. An IP is
released by a terminating pod only: that a pod changes its IP in place (a node
reboot) is left out. A form is posted by anybody, for the workspace it was opened for
or for one that the poster names (`Chosen`). The throttle and the table are the subject of `Denials`.

**Sessions.** admin keeps no sessions: the state is the cookies in the browsers, the
pages left open there, and the callbacks waiting for Coder (`calls`). One token
stands for state and verifier of a login. `links` are callback URLs, which any
browser may open at any time; a code is exchanged once. `seen` remembers when a
user last had an admin role. A request has a cookie jar and may have a bearer;
`Caller` is who `User` takes it for and `Allows` what `Require` decides, for GET and
POST, so the properties quantify over every request that could be made in a state.
`Restart` deploys admin with or without `TEST_TOKEN`. Signing is an assumption: a cookie that admin did not
issue under that name is no cookie.

### How the modules fit together

`Zones`, `Requests` and `Denials` refine what a transaction is; `PolicyRead` takes
transactions as steps and refines the reads of `Reconcile`, which takes tables as
version numbers. `HostIPs` is what a rebuild computes from such an input and gives
`Tunnels` its snapshots; `CiliumApply` is the stage `ApplyCilium` of `Reconcile` in
detail, `PolicyRead!Render` its argument. `Pods` supplies the IPs. The announcement
and retry that repair a torn read or a failed `Apply` are `NoLostWakeup` and
`Convergence` of `Reconcile`. `Enforcement` is the abstract specification that
`Reconcile` is shown to implement.

## Runs

| Run | Question | Result |
|---|---|---|
| `zones` | default zone, references and explicit members under two concurrent sessions | holds |
| `zones_delete` | "DeleteZone refuses the default zone" | violated |
| `requests` | one decision, one grant per approval, complete audit, finality; lapsed grants are deleted | holds |
| `requests_file` | one pending request per workspace, host and port | violated |
| `reconcile` | no lost wakeup; Envoy before Cilium; convergence after crash, failure, unseen commit; refinement of `Enforcement` | holds |
| `host_ips` | same result in every iteration order; Envoy admits exactly the entitled | holds |
| `denials` | rate limit, no row set back, throttle bounded, how far the cap is missed | holds |
| `policy_read` | Cilium and Envoy agree on torn reads; unaffected workspaces keep their list | holds |
| `cilium_apply` | one bad object blocks no other; foreign objects are not overwritten; every policy is in force in the end | holds |
| `tunnels` | open tunnels are entitled; revoked ones close, allowed CONNECTs are served | holds |
| `pods` | wrong workspace only after a reuse or with a stale cache | holds |
| `sessions` | forms act as their user, browsers are signed in by their own login, admin-only requests have a recent role or the configured bearer | holds |

The violated ones state what a comment in the code says and are recorded as
findings. Both are a check in one statement and a write in the next without a lock
or an index behind it.

### Further configurations

These check a sentence of the comments or the design document that the code does
not keep. TLC finds a counterexample for each
(`tlc -config ReconcileAudit.cfg MCReconcile`). They are not among the runs and
findings of `PROJECT.json`; the last column names the property of a run that says
how far the deviation goes.

| Configuration | Module, property | What happens | Limit |
|---|---|---|---|
| `ZonesAssign` | `MCZones`, `DefaultMembersImplicit` | a stale read of `is_default` leaves an explicit row on the default zone | `CiliumAgrees`: the row changes nothing while that zone is the default |
| `ReconcileAudit` | `MCReconcile`, `FailureAudited` | `lastErr` is set although the audit write failed | |
| `DenialsCap` | `MCDenials`, `CapKept` | two concurrent inserts do not see each other when they trim | `OvershootBounded`: one row per other stream |
| `PolicyReadTorn` | `MCPolicyRead`, `UnaffectedKeepsList` | a change of default deletes the rows of the new default's members; a rebuild that has read the old default but not yet the rows puts them into the old default zone | `UnaffectedExact`: only if the default changed; the announced rebuild repairs it |
| `CiliumForeign` | `MCCiliumApply`, `ForeignUntouched` | Delete by name after a stale List | `ForeignNotOverwritten`: it is deleted, not written |
| `PodsReuse` | `MCPods`, `AttributedRight` | the IP is looked up when the log arrives | `WrongOnlyAfterReuse` |
| `PodsUpstream` | `MCPods`, `DenialsWereRefused` | a site's own 403 counts as a denial | |

### Bounds

- `zones`: three zones (the seeded one, and two that can be made default,
  deleted or cloned against each other), one workspace, one rule, two sessions.
  Every lock conflict is between two transactions. Zone ids are never reused,
  which bounds the model.
- `requests`: two requests and two grants, two handlers and the ticker: two
  decisions of one request, a revocation against an expiry, and an approval
  against a direct grant all occur.
- `reconcile`: one change, which may fall before, into or after a rebuild and touch
  several tables; one failing stage; one crash of admin or restart of Envoy.
  `VersionBound = 2` makes versions collide; the code's 64-bit counter does not
  wrap, but it restarts at zero. More changes are covered by the proofs, except
  for `Convergence`.
- `host_ips`: four nested keys on port 443 and one on 80, three placements of two
  pods, every combination of zone rules and grants listed in `MCHostIPs`. A dns
  rule, an invalid rule and a pod without an IP must have no effect. The
  function returns, so this run does not check for deadlock.
- `denials`: two streams, three hosts of one workspace, `Cap = 1` (two inserts can
  pass it, three hosts give the trim a choice), `MaxTracked = 2` with a minute of
  two ticks (the sweep both helps and does not), `MaxClock = 3` (two counts of one
  row a second apart, and a late transaction).
- `policy_read`: two zones, two workspaces, a valid rule of each kind and an invalid
  one, from every store that admins can have made of them with at most one invalid
  row (constraint `OneInvalid`; each row is dropped by itself), with two commits between the queries (a change
  of default and an assignment, a deletion and a new zone, ...). The read ends, so
  there is no deadlock check; the same holds for the runs below that say so in
  their configuration, where clocks, tokens or pods run out.
- `cilium_apply`: two policies with two specs, one change, one foreign write and one
  failure, so that a late write and another writer meet in one `Apply`, and the next
  one finds what they left. More of each are covered by the proofs, except for
  `Convergence`.
- `tunnels`: two names with a key each and the wildcard above both, two IPs, two
  snapshots (grant and revoke, or the reverse) and a restart of Envoy, one tunnel at
  a time: tunnels do not affect each other.
- `pods`: two workspaces of different owners and a second pod of the first, two IPs
  (so that reuse is possible and not forced), an admin, one 403 and one form that is
  opened; forms posted for a workspace of choice are not bounded.
- `sessions`: two browsers and two users; `MaxToken = 3` allows a second login after
  the first has its session; two logins go on at Coder, one page stays open, one
  callback waits at a time; one value of `TEST_TOKEN`, set or not, changes with
  restarts at any time. Four ticks with `SessionTTL = Timeout = 1` reach past the
  last moment a role may count. Concurrent callbacks and longer times are covered by
  the proofs.

### Fairness

- `Requests`: a handler's transaction ends (its context does); the ticker keeps
  firing; the expiry DELETE and COMMIT, tried every 30 seconds, do not fail for
  ever, nor does a revocation's COMMIT (strong fairness, since an abort may
  interrupt any single attempt).
- `Reconcile`: goroutines run, the resync ticker fires, the kubelet restarts the
  process, Envoy reconnects, an out-of-date watch is answered. Failures are
  finite. Nothing is assumed of the expiry ticker: the resync alone suffices.
- `CiliumApply`: the resync calls `Apply` again, a call is answered or, past the
  deadline, fails. Failures, changes and other writers are finite; nothing is assumed
  of late requests.
- `Tunnels`: Envoy takes over what was pushed, and closes what drains within its
  drain time.

## Proofs

Each proof module proves the inductive invariant of its component (`IInv`, or
`TunnelIInv` and `ReadIInv` where a module is about two components), for every value
of the constants, and derives the properties; type correctness is part of it
everywhere (the runs `sessions` and `cilium_apply` leave `TypeOK` to the proof).

- **Zones.** `IInv` says of a transaction what it has done by its current
  statement (`Progress`), that it locks what it writes and refers to (`Guarded`),
  what the tables say while it does (`Holds`), and what two transactions never
  both hold (`Exclusive`). `AtMostOneDefault` is not inductive without it: that a
  commit may set a default depends on no other transaction having set one and on
  the row it unset still being its own. Assumes `FirstZone \in Zone`,
  `NoZone \notin Zone`, `SeedRule \subseteq Rule`.
- **Requests.** `IInv` adds that a row held by a transaction is as it found it, and
  that no two hold one row. Assumes the special values are distinct.
- **Reconcile.** `IInv` says that what a rebuild has read is current or another
  rebuild is announced (`ReadIsFresh`), that nothing enforced is newer than the
  inputs or than the read under way (`NothingFromTheFuture`), and that the cache
  leads Cilium and Envoy (`CacheLeads`). The refinement of `Enforcement` follows
  from the last two. Assumes `VersionBound > 1` and natural bounds.
- **HostIPs** (`EnvoyProofs`). `IInv` says that a key's IPs lie between its own and the merged set
  (`Bounded`) and that the own IPs of every visited wildcard have arrived
  (`Arrived`); that coverage is transitive makes the order irrelevant. The routing
  theorem needs that matching keys nest, and that one of them is the longest.
- **Denials.** `IInv` says that a transaction locks what it writes or deletes, that
  a row it writes still has the `last_seen` it judged (`Holds`), and that a key
  without a row counts zero. The rate limit needs it because the judgement and the
  commit are different steps. Assumes positive `Second` and `MaxTracked`.
  `OvershootBounded` needs a second invariant, `OvershootInv`: the bound holds in
  every state that some subset of the transactions past their trim could leave by
  committing. A trim leaves at most `Cap` of the rows it sees, and each transaction
  of another stream adds at most the one row it writes. Assumes finitely many streams, and at least one.
- **CiliumApply** (`CiliumProofs`). `IInv` says that an object which still has the version `Get`
  returned is the object `Get` returned, also for late updates (`VersionsIdentify`),
  and which names are in force, reported, touched or still to be handled at each
  point of `Apply` (`Progress`). The first gives `ForeignNotOverwritten`, the second
  `OneBadObjectBlocksNoOther`. Assumes that `None` and `NoObject` are special.
- **Sessions.** `IInv` bounds what a role read at Coder is still good for, in calls
  and in cookies (`RoleIsRecent`, which needs that a call has no role before `me`:
  `NotAskedYet`), and says that a CSRF token belongs to one user and a state to one
  browser (`TokensIdentify`). `RoleBounded` and `FormBound` follow for every request,
  by what `Caller` returns (`CallerFacts`). Assumes natural lifetimes, that the test
  hook is no user of Coder, and that the special values are distinct.
- **Tunnels** (`EnvoyProofs`). `TunnelIInv` says that a tunnel that does not drain
  runs through a listener of its name, for an IP and an SNI that the name stands for;
  that names are injective makes the IPs current. `SettledServes` is the state that
  `EntitledIsServed` says is reached: with all three kinds of resources from one
  push, every allowed CONNECT is served. It assumes that of the keys matching a name
  one is within the others (`KeysNest`).
- **From the rules to Envoy** (`EnvoyProofs`). With a key of `HostIPs` taken as the
  set of requested names it matches, `TunnelKeysNest` proves that assumption (the
  longest matching key is within the others), and `BuiltIsSnapshot` that the map
  `HostIPs` returns is a snapshot `Tunnels` lets admin push.
- **Pods.** `IInv` says that the cache is behind the API and an IP has one holder
  (`PodsOK`), and that the holder of an IP that did not move belongs to the
  workspace that was answered (`EntriesOK`). `WrongOnlyAfterReuse` needs both: the
  entry is made in one step and looked up in another, through a cache.
- **PolicyRead** (`CiliumProofs`). `CiliumAgrees` is a fact about `Render` and any
  input, whole or torn: a workspace is selected by the policy of its zone and by
  that of its grants, and by no other. `UnaffectedExact` needs `ReadOK` (in
  `ReadIInv`): the rules
  that were read give a workspace one of its lists in one of its zones, and the
  zone that is read last is one of its zones while the default has not moved.
  Assumes that `NoZone` and `NoWs` are special and the bound is natural.
- **From the store to the cluster** (`CiliumProofs`). `AppliedIsEffective` joins
  the two: when `Apply` returned nil for what `Render` made of an input, and nobody
  else wrote a policy meanwhile, admin's policies in the cluster let each workspace
  resolve exactly the DNS rules of its allowlist and other pods nothing. What is
  left of an earlier input would show here.

Only model-checked: the liveness properties (`LapsedRemoved`, both `Convergence`,
`RevokedCloses`, `EntitledIsServed`): temporal reasoning under fairness is beyond
the prover. Every invariant, every action property and the refinement that the runs
check are proved. That the order of the naturals is well-founded and the facts about
cardinality are cited from the prover's library.

## Not modelled

- Regular expressions of `ValidName`, form parsing (`hostPort`, `ruleFrom`, `ttlFor`),
  `localPath`, the JSON of listeners, clusters and policies, HTML: functions of one
  input over characters, without state.
- The pages that only list (`mine`, `queue`, `zones`, `workspaces`, `audit`) and the
  handlers that parse a form, call one store method and `done`.
- The cryptography of cookies; a collision of the 40-bit
  names of `hashName`.
- Migration, which runs once before the service starts.
- YAML, Terraform, images and scripts, which have no state at run time.
