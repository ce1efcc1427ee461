----------------------------- MODULE PodsProofs ------------------------------
(***************************************************************************)
(* For any pods, IPs, workspaces and users, and any number of answers,     *)
(* links and forms: a denial or a request goes to another workspace than   *)
(* the refused one only when the IP was reused or the watcher is behind.   *)
(***************************************************************************)
EXTENDS Pods, WellFoundedInduction, TLAPS

\* The first of the matches is a match.
LEMMA FirstIsOne ==
  ASSUME NEW ws \in SUBSET Nat, ws # {} PROVE First(ws) \in ws
<1>1. PICK w \in ws : \A v \in ws : ~(<<v, w>> \in OpToRel(<, Nat))
  BY ZenonT(60), WFMin, NatLessThanWellFounded
<1>2. \A v \in ws : w <= v
  <2> SUFFICES ASSUME NEW v \in ws PROVE w <= v
    OBVIOUS
  <2>1. v < w => <<v, w>> \in OpToRel(<, Nat)
    BY DEF OpToRel
  <2>2. ~ (v < w) /\ v \in Nat /\ w \in Nat
    BY ZenonT(60), <1>1, <2>1
  <2> QED
    BY <2>2
<1> QED
  BY ZenonT(60), <1>2 DEF First

\* ByIP, when it answers, names the workspace of the entry, unless the IP moved
\* on or the cache has yet to hear of the end of a pod.
LEMMA Attribution ==
  ASSUME IInv, NEW e \in logs \cup links, ByIP(e.ip) # {}
  PROVE  /\ First(ByIP(e.ip)) \in Ws
         /\ First(ByIP(e.ip)) = e.ws \/ e.moved \/ Stale(e.ip)
<1>1. ByIP(e.ip) \subseteq Ws /\ Ws \subseteq Nat
  BY PodsAssumption DEF ByIP, Running
<1>2. First(ByIP(e.ip)) \in ByIP(e.ip)
  BY ZenonT(60), <1>1, FirstIsOne
<1>3. PICK p \in Pod : cached[p] = RunningStage /\ ip[p] = e.ip /\ WsOf[p] = First(ByIP(e.ip))
  BY ZenonT(60), <1>2 DEF ByIP, Running
<1>4. stage[p] \in Nat /\ cached[p] <= stage[p]
  BY DEF IInv, TypeOK, PodsOK, Stage
<1>5. CASE stage[p] > RunningStage
  BY <1>1, <1>2, <1>3, <1>5 DEF Stale
<1>6. CASE stage[p] = RunningStage
  <2>1. Holds(p, e.ip)
    BY <1>3, <1>6 DEF Holds
  <2>2. ~ e.moved => WsOf[p] = e.ws
    BY ZenonT(60), <2>1 DEF IInv, EntriesOK
  <2>3. e.moved \in BOOLEAN
    BY DEF IInv, TypeOK, Entry
  <2> QED
    BY <1>1, <1>2, <1>3, <2>2, <2>3
<1> QED
  BY <1>1, <1>2, <1>3, <1>4, <1>5, <1>6 DEF RunningStage

\* What an entry of Move comes from.
LEMMA Moved ==
  ASSUME NEW es \in SUBSET Entry, NEW i, NEW x \in Move(es, i)
  PROVE  /\ x \in Entry
         /\ x.moved \/ (x \in es /\ x.ip # i)
<1>1. PICK e \in es : x = IF e.ip = i THEN [e EXCEPT !.moved = TRUE] ELSE e
  BY DEF Move
<1>2. [e EXCEPT !.moved = TRUE] \in Entry /\ [e EXCEPT !.moved = TRUE].moved
  BY ZenonT(60) DEF Entry
<1> QED
  BY <1>1, <1>2

\* The conjuncts of the invariant about records depend on these variables only.
LEMMA SameRecords ==
  ASSUME IInv, UNCHANGED <<forms, denials, filed>>
  PROVE  \A r \in (forms \cup denials \cup filed)' : r.ws = r.from \/ r.excused
<1>1. (forms \cup denials \cup filed)' = forms \cup denials \cup filed
  OBVIOUS
<1>2. \A r \in forms \cup denials \cup filed : r.ws = r.from \/ r.excused
  BY DEF IInv
<1> QED
  BY ZenonT(60), <1>1, <1>2

\* A pod gets an IP that nobody holds: the entries about it are marked.
LEMMA RunStep ==
  ASSUME IInv, NEW p \in Pod, NEW i \in IP, Run(p, i)
  PROVE  IInv'
<1>1. /\ stage' = [stage EXCEPT ![p] = RunningStage] /\ ip' = [ip EXCEPT ![p] = i]
      /\ stage[p] = 0 /\ cached' = cached /\ \A q \in Pod : ~ Holds(q, i)
      /\ logs' = Move(logs, i) /\ links' = Move(links, i)
      /\ UNCHANGED <<entries, forms, opened, denials, filed>>
  BY DEF Run
<1>2. stage \in [Pod -> Stage] /\ ip \in [Pod -> IP \cup {NoIP}] /\ cached \in [Pod -> Stage]
  BY DEF IInv, TypeOK
<1>3. /\ stage'[p] = RunningStage /\ ip'[p] = i
      /\ \A q \in Pod \ {p} : stage'[q] = stage[q] /\ ip'[q] = ip[q]
  BY <1>1, <1>2
<1>4. \A q \in Pod \ {p}, j \in IP : Holds(q, j)' <=> Holds(q, j)
  BY <1>3 DEF Holds
<1>5. \A x \in logs' \cup links' : x \in Entry /\ (x.moved \/ (x \in logs \cup links /\ x.ip # i))
  <2>1. logs \in SUBSET Entry /\ links \in SUBSET Entry
    BY DEF IInv, TypeOK
  <2>2. ASSUME NEW x \in logs' PROVE x \in Entry /\ (x.moved \/ (x \in logs /\ x.ip # i))
    <3>1. x \in Move(logs, i)
      BY <1>1
    <3> QED
      BY ZenonT(60), <2>1, <3>1, Moved
  <2>3. ASSUME NEW x \in links' PROVE x \in Entry /\ (x.moved \/ (x \in links /\ x.ip # i))
    <3>1. x \in Move(links, i)
      BY <1>1
    <3> QED
      BY ZenonT(60), <2>1, <3>1, Moved
  <2> QED
    BY <2>2, <2>3
<1>6. TypeOK'
  <2>1. stage' \in [Pod -> Stage] /\ ip' \in [Pod -> IP \cup {NoIP}]
    BY <1>1, <1>2 DEF Stage, RunningStage
  <2> QED
    BY <1>1, <1>5, <2>1 DEF IInv, TypeOK
<1>7. PodsOK'
  <2>1. \A q \in Pod : cached'[q] <= stage'[q] /\ (stage'[q] # 0 => ip'[q] \in IP)
    BY <1>1, <1>2, <1>3 DEF IInv, PodsOK, Stage, RunningStage
  <2>2. ASSUME NEW q \in Pod, NEW r \in Pod, NEW j \in IP, Holds(q, j)', Holds(r, j)'
        PROVE  q = r
    <3>1. Holds(p, j)' => j = i
      BY <1>3 DEF Holds
    <3> QED
      BY <1>1, <1>4, <2>2, <3>1 DEF IInv, PodsOK
  <2> QED
    BY <2>1, <2>2 DEF PodsOK
<1>8. EntriesOK'
  <2> SUFFICES ASSUME NEW x \in logs' \cup links', NEW q \in Pod, ~ x.moved, Holds(q, x.ip)'
               PROVE  WsOf[q] = x.ws
    BY DEF EntriesOK
  <2>1. x \in Entry /\ x \in logs \cup links /\ x.ip # i /\ x.ip \in IP
    BY <1>5 DEF Entry
  <2>2. q # p
    BY <1>3, <2>1 DEF Holds
  <2>3. Holds(q, x.ip)
    BY <1>4, <2>1, <2>2
  <2> QED
    BY ZenonT(60), <2>1, <2>3 DEF IInv, EntriesOK
<1> QED
  BY ZenonT(60), <1>1, <1>6, <1>7, <1>8, SameRecords DEF IInv

\* A pod ends, or the cache hears of it: nobody becomes a holder.
LEMMA EndSyncStep ==
  ASSUME IInv, NEW p \in Pod, End(p) \/ \E s \in Stage : Sync(p, s)
  PROVE  IInv'
<1>1. UNCHANGED <<ip, logs, links, entries, forms, opened, denials, filed>>
  BY DEF End, Sync, pods
<1>2. stage \in [Pod -> Stage] /\ cached \in [Pod -> Stage]
  BY DEF IInv, TypeOK
<1>3. /\ stage' \in [Pod -> Stage] /\ cached' \in [Pod -> Stage]
      /\ \A q \in Pod : cached'[q] <= stage'[q] /\ (stage'[q] # 0 => stage[q] # 0)
      /\ \A q \in Pod : stage'[q] \in {RunningStage, Terminating}
                          => stage[q] \in {RunningStage, Terminating}
  <2>1. CASE End(p)
    <3>1. /\ stage' = [stage EXCEPT ![p] = @ + 1] /\ cached' = cached
          /\ stage[p] \in {1, 2}
      BY <2>1 DEF End, RunningStage, Terminating
    <3>2. stage'[p] = stage[p] + 1 /\ \A q \in Pod \ {p} : stage'[q] = stage[q]
      BY <1>2, <3>1
    <3>3. stage' \in [Pod -> Stage]
      BY <1>2, <3>1 DEF Stage
    <3>4. \A q \in Pod : cached[q] <= stage[q] /\ cached[q] \in Nat /\ stage[q] \in Nat
      BY <1>2 DEF IInv, PodsOK, Stage
    <3> QED
      BY <1>2, <3>1, <3>2, <3>3, <3>4 DEF RunningStage, Terminating
  <2>2. CASE \E s \in Stage : Sync(p, s)
    BY <1>2, <2>2 DEF Sync, pods, IInv, PodsOK
  <2> QED
    BY <2>1, <2>2
<1>4. \A q \in Pod : \A j : Holds(q, j)' => Holds(q, j)
  BY <1>1, <1>3 DEF Holds
<1>5. TypeOK'
  BY <1>1, <1>3 DEF IInv, TypeOK
<1>6. PodsOK'
  <2>1. \A q \in Pod : cached'[q] <= stage'[q] /\ (stage'[q] # 0 => ip'[q] \in IP)
    BY <1>1, <1>3 DEF IInv, PodsOK
  <2>2. \A q, r \in Pod, j \in IP : Holds(q, j)' /\ Holds(r, j)' => q = r
    BY ZenonT(60), <1>4 DEF IInv, PodsOK
  <2> QED
    BY ZenonT(60), <2>1, <2>2 DEF PodsOK
<1>7. EntriesOK'
  BY ZenonT(60), <1>1, <1>4 DEF IInv, EntriesOK
<1> QED
  BY ZenonT(60), <1>1, <1>5, <1>6, <1>7, SameRecords DEF IInv

-----------------------------------------------------------------------------

\* Steps that leave the pods and their cache alone.
LEMMA SamePods ==
  ASSUME IInv, UNCHANGED <<stage, ip, cached>>
  PROVE  PodsOK' /\ \A p \in Pod : \A j : Holds(p, j)' <=> Holds(p, j)
<1>1. \A p \in Pod : \A j : Holds(p, j)' <=> Holds(p, j)
  BY DEF Holds
<1>2. \A p \in Pod : cached'[p] <= stage'[p] /\ (stage'[p] # 0 => ip'[p] \in IP)
  BY DEF IInv, PodsOK
<1>3. \A p, q \in Pod, i \in IP : Holds(p, i)' /\ Holds(q, i)' => p = q
  BY ZenonT(60), <1>1 DEF IInv, PodsOK
<1> QED
  BY ZenonT(60), <1>1, <1>2, <1>3 DEF PodsOK

\* Steps that add no entry.
LEMMA FewerEntries ==
  ASSUME IInv, UNCHANGED <<stage, ip, cached>>, logs' \subseteq logs, links' = links
  PROVE  EntriesOK'
<1>1. \A p \in Pod : \A j : Holds(p, j)' => Holds(p, j)
  BY ZenonT(60), SamePods
<1>2. logs' \cup links' \subseteq logs \cup links
  OBVIOUS
<1> QED
  BY ZenonT(60), <1>1, <1>2 DEF IInv, EntriesOK

\* The pod that is answered is the only holder of its IP.
LEMMA Answer403Step ==
  ASSUME IInv, NEW p \in Pod, NEW refused \in BOOLEAN, Answer403(p, refused)
  PROVE  IInv'
<1> DEFINE e == [ip |-> ip[p], ws |-> WsOf[p], refused |-> refused, moved |-> FALSE]
<1>1. /\ logs' \cup links' \subseteq logs \cup links \cup {e}
      /\ logs' \subseteq logs \cup {e} /\ links' \subseteq links \cup {e}
      /\ stage[p] \in {RunningStage, Terminating} /\ entries < MaxEntry /\ entries' = entries + 1
      /\ UNCHANGED <<stage, ip, cached, forms, opened, denials, filed>>
  BY DEF Answer403, pods
<1>2. Holds(p, ip[p]) /\ ip[p] \in IP
  BY <1>1 DEF Holds, IInv, PodsOK, RunningStage, Terminating
<1>3. e \in Entry /\ e.ip = ip[p] /\ e.ws = WsOf[p]
  BY <1>2, PodsAssumption DEF Entry
<1> HIDE DEF e
<1>4. TypeOK'
  <2>1. entries' \in 0..MaxEntry
    BY <1>1, PodsAssumption DEF IInv, TypeOK
  <2> QED
    BY <1>1, <1>3, <2>1 DEF IInv, TypeOK
<1>5. EntriesOK'
  <2> SUFFICES ASSUME NEW x \in logs' \cup links', NEW q \in Pod, ~ x.moved, Holds(q, x.ip)'
               PROVE  WsOf[q] = x.ws
    BY DEF EntriesOK
  <2>1. Holds(q, x.ip)
    BY ZenonT(60), <1>1, SamePods
  <2>2. CASE x \in logs \cup links
    BY ZenonT(60), <2>1, <2>2 DEF IInv, EntriesOK
  <2>3. CASE x = e
    <3>1. q = p
      BY ZenonT(60), <1>2, <1>3, <2>1, <2>3 DEF IInv, PodsOK
    <3> QED
      BY <1>3, <2>3, <3>1
  <2> QED
    BY <1>1, <2>2, <2>3
<1> QED
  BY ZenonT(60), <1>1, <1>4, <1>5, SamePods, SameRecords DEF IInv

\* A log entry arrives, or is lost.
LEMMA LogStep ==
  ASSUME IInv, NEW e \in logs, OnDenial(e) \/ LoseLog(e)
  PROVE  IInv'
<1> DEFINE r == [ws |-> First(ByIP(e.ip)), from |-> e.ws, refused |-> e.refused,
                 excused |-> e.moved \/ Stale(e.ip)]
<1>1. /\ logs' = logs \ {e}
      /\ denials' = denials \/ (ByIP(e.ip) # {} /\ denials' = denials \cup {r})
      /\ UNCHANGED <<stage, ip, cached, links, entries, forms, opened, filed>>
  <2>1. CASE OnDenial(e)
    BY <2>1 DEF OnDenial, pods
  <2>2. CASE LoseLog(e)
    BY <2>2 DEF LoseLog, pods
  <2> QED
    BY <2>1, <2>2
<1>2. ByIP(e.ip) # {} => r \in Record /\ (r.ws = r.from \/ r.excused)
  <2> SUFFICES ASSUME ByIP(e.ip) # {} PROVE r \in Record /\ (r.ws = r.from \/ r.excused)
    OBVIOUS
  <2>1. First(ByIP(e.ip)) \in Ws /\ (First(ByIP(e.ip)) = e.ws \/ e.moved \/ Stale(e.ip))
    BY ZenonT(60), Attribution
  <2>2. e.ws \in Ws /\ e.refused \in BOOLEAN /\ (e.moved \/ Stale(e.ip)) \in BOOLEAN
    BY DEF IInv, TypeOK, Entry, Stale
  <2>3. r \in Record
    BY ZenonT(60), <2>1, <2>2 DEF Record
  <2>4. r.ws = r.from \/ r.excused
    BY ZenonT(60), <2>1
  <2> QED
    BY ZenonT(60), <2>3, <2>4
<1> HIDE DEF r
<1>3. TypeOK'
  BY <1>1, <1>2 DEF IInv, TypeOK
<1>4. \A x \in (forms \cup denials \cup filed)' : x.ws = x.from \/ x.excused
  BY ZenonT(60), <1>1, <1>2 DEF IInv
<1>5. EntriesOK'
  BY ZenonT(60), <1>1, FewerEntries
<1> QED
  BY ZenonT(60), <1>1, <1>3, <1>4, <1>5, SamePods DEF IInv

\* A form is opened, by a link or from the list of workspaces.
LEMMA OpenFormStep ==
  ASSUME IInv, NEW f \in Form, f.ws = f.from \/ f.excused,
         OpenForm, forms' = forms \cup {f},
         UNCHANGED <<stage, ip, cached, logs, links, entries, denials, filed>>
  PROVE  IInv'
<1>1. TypeOK'
  BY PodsAssumption DEF OpenForm, IInv, TypeOK
<1>2. \A x \in (forms \cup denials \cup filed)' : x.ws = x.from \/ x.excused
  BY ZenonT(60) DEF IInv
<1>3. EntriesOK'
  BY ZenonT(60), FewerEntries
<1> QED
  BY ZenonT(60), <1>1, <1>2, <1>3, SamePods DEF IInv

\* A form names the workspace that ByIP gives for its link, or that its URL names.
LEMMA RequestFormStep ==
  ASSUME IInv, NEW u \in User,
         (\E e \in links : requestForm(u, e)) \/ (\E w \in Ws : requestFormByID(u, w))
  PROVE  IInv'
<1>1. ASSUME NEW e \in links, requestForm(u, e) PROVE IInv'
  <2> DEFINE f == [ws |-> First(ByIP(e.ip)), from |-> e.ws,
                   excused |-> e.moved \/ Stale(e.ip)]
  <2>1. ByIP(e.ip) # {}
    BY <1>1 DEF requestForm
  <2>2. First(ByIP(e.ip)) \in Ws /\ (First(ByIP(e.ip)) = e.ws \/ e.moved \/ Stale(e.ip))
    BY ZenonT(60), <2>1, Attribution
  <2>3. e.ws \in Ws /\ (e.moved \/ Stale(e.ip)) \in BOOLEAN
    BY DEF IInv, TypeOK, Entry, Stale
  <2>4. f \in Form
    BY ZenonT(60), <2>2, <2>3 DEF Form
  <2>5. f.ws = f.from \/ f.excused
    BY ZenonT(60), <2>2
  <2>6. /\ OpenForm /\ forms' = forms \cup {f}
        /\ UNCHANGED <<stage, ip, cached, logs, links, entries, denials, filed>>
    BY ZenonT(60), <1>1 DEF requestForm, pods
  <2> HIDE DEF f
  <2> QED
    BY ZenonT(60), <2>4, <2>5, <2>6, OpenFormStep
<1>2. ASSUME NEW w \in Ws, requestFormByID(u, w) PROVE IInv'
  <2> DEFINE f == Chosen(w)
  <2>1. f \in Form /\ f.ws = f.from
    BY ZenonT(60) DEF Form, Chosen
  <2>2. /\ OpenForm /\ forms' = forms \cup {f}
        /\ UNCHANGED <<stage, ip, cached, logs, links, entries, denials, filed>>
    BY ZenonT(60), <1>2 DEF requestFormByID, pods
  <2> HIDE DEF f
  <2> QED
    BY ZenonT(60), <2>1, <2>2, OpenFormStep
<1> QED
  BY <1>1, <1>2

\* A form is posted, one that was opened or one for a workspace of choice.
LEMMA FileRequestStep ==
  ASSUME IInv, NEW u \in User, NEW f \in Form, fileRequest(u, f)
  PROVE  IInv'
<1>1. /\ filed' = filed \cup {f}
      /\ UNCHANGED <<stage, ip, cached, logs, links, entries, forms, opened, denials>>
  BY ZenonT(60) DEF fileRequest, pods
<1>2. f.ws = f.from \/ f.excused
  <2>1. CASE f \in forms
    BY <2>1 DEF IInv
  <2>2. CASE \E w \in Ws : f = Chosen(w)
    BY <2>2 DEF Chosen
  <2> QED
    BY ZenonT(60), <2>1, <2>2 DEF fileRequest
<1>3. TypeOK'
  BY <1>1 DEF IInv, TypeOK
<1>4. \A x \in (forms \cup denials \cup filed)' : x.ws = x.from \/ x.excused
  BY ZenonT(60), <1>1, <1>2 DEF IInv
<1>5. EntriesOK'
  BY ZenonT(60), <1>1, FewerEntries
<1> QED
  BY ZenonT(60), <1>1, <1>3, <1>4, <1>5, SamePods DEF IInv

-----------------------------------------------------------------------------

\* The inductive invariant of the pod watcher and those who rely on it.
THEOREM Inductive == Spec => []IInv
<1>1. Init => IInv
  <2> SUFFICES ASSUME Init PROVE IInv
    OBVIOUS
  <2>1. TypeOK
    BY PodsAssumption DEF Init, TypeOK, Stage
  <2>2. PodsOK
    BY DEF Init, PodsOK, Holds, RunningStage, Terminating
  <2>3. EntriesOK /\ forms \cup denials \cup filed = {}
    BY DEF Init, EntriesOK
  <2> QED
    BY <2>1, <2>2, <2>3 DEF IInv
<1>2. IInv /\ UNCHANGED vars => IInv'
  BY DEF vars, pods, IInv, TypeOK, PodsOK, EntriesOK, Holds
<1>3. IInv /\ [Next]_vars => IInv'
  BY ZenonT(60), <1>2, RunStep, EndSyncStep, Answer403Step, LogStep, RequestFormStep, FileRequestStep DEF Next
<1> QED
  BY <1>1, <1>3, PTL DEF Spec

\* Pods, cache, entries, forms and rows keep their types (TypeOK).
THEOREM TypeCorrect == Spec => []TypeOK
<1>1. IInv => TypeOK
  BY DEF IInv
<1> QED
  BY <1>1, Inductive, PTL

\* ByIP misattributes a denial or a request only after a reuse of the IP or
\* while the informer has yet to hear of a pod's end (WrongOnlyAfterReuse).
THEOREM WrongOnlyWhenExcused == Spec => []WrongOnlyAfterReuse
<1>1. IInv => WrongOnlyAfterReuse
  BY DEF IInv, WrongOnlyAfterReuse
<1> QED
  BY <1>1, Inductive, PTL

=============================================================================
