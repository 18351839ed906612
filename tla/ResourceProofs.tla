--------------------------- MODULE ResourceProofs ---------------------------
(***************************************************************************)
(* The registrar with the controllers of the two resource kinds            *)
(* (ResourceControllers) still implements Ledger.  The controllers write   *)
(* from what they read earlier, from stopped connections too, and delete   *)
(* by the hint of an entry without looking at its ID.  TasksFor and        *)
(* HeldFor say of what a worker still has to do and of the stores that     *)
(* outlive their connection what StartedInv says of the rest.              *)
(***************************************************************************)
EXTENDS ResourceControllers, LedgerProofs

(* No entry of another registrar has a hint that reads like one of this    *)
(* registrar's.  The program does not check it: deleteEntriesForIdentity   *)
(* and the clean-ups go by the hint alone.                                 *)
HintsApart ==
  \A e \in ForeignEntry :
    /\ \A i \in Identity \cup {Nil}, h \in {s.hint : s \in IdentitySpec} \cup {Nil} :
         ~entryBelongsToIdentity(e, i, h)
    /\ \A c \in Cluster : ~entryBelongsToCluster(e, c)

Visit == Identity \X IdentitySpec \X Cluster

(* The object that a worker has read.                                      *)
Named(k, t) ==
  IF k = "identity" THEN t.name \in Identity /\ t.spec \in IdentitySpec
  ELSE t.name \in Cluster /\ t.spec \in Registration

(* Pods of the cluster of visit v that have run, with a label.             *)
PodsFor(S, v) == {x \in Pod \X Label : Home[x[1]] = v[3] /\ x[1] \in S}

(* A call in progress writes for pods of S and deletes renderings.         *)
TaskFor(S, k, t) ==
  /\ DOMAIN t = DOMAIN IdleTask
  /\ t.pc # "idle" /\ (t.pc = "remove" => k = "cluster") => Named(k, t)
  /\ t.todo \subseteq Visit
  /\ t.pods # {} => t.visit \in Visit /\ t.pods \subseteq PodsFor(S, t.visit)
  /\ t.pc = "write" => t.entry \in Rendered /\ OwnedBy(S, t.entry)
  /\ t.pc = "select" => t.found \subseteq Rendered
  /\ t.remove \subseteq Rendered

TasksFor(S, tasks) == DOMAIN tasks = Kind /\ \A k \in Kind : TaskFor(S, k, tasks[k])

(* The store of a stopped connection has running pods of S only.           *)
StoreFine(S, store) == store \in [Pod -> PodState] /\ \A p \in Pod : Eligible(store[p]) => p \in S

HeldFor(S, stopped) ==
  /\ DOMAIN stopped = {"pass", "cluster"} \X Cluster
  /\ \A x \in DOMAIN stopped : stopped[x] # Nil => StoreFine(S, stopped[x].pods)

ControllersInv ==
  /\ TypeOK /\ StartedInv /\ UniqueIDs
  /\ TasksFor(StartedPods, task) /\ HeldFor(StartedPods, held)

------------------------------------------------------------------------------
(* All of it is monotone in the set of pods that have run.                 *)
LEMMA TasksMonotone ==
  ASSUME NEW S, NEW T, S \subseteq T
  PROVE  /\ \A tasks : TasksFor(S, tasks) => TasksFor(T, tasks)
         /\ \A stopped : HeldFor(S, stopped) => HeldFor(T, stopped)
<1>1. \A v : PodsFor(S, v) \subseteq PodsFor(T, v)
  BY DEF PodsFor
<1>2. \A k, t : TaskFor(S, k, t) => TaskFor(T, k, t)
  <2> SUFFICES ASSUME NEW k, NEW t, TaskFor(S, k, t) PROVE TaskFor(T, k, t)
    OBVIOUS
  <2>1. OwnedBy(S, t.entry) => OwnedBy(T, t.entry)
    BY Monotone
  <2>2. t.pods \subseteq PodsFor(S, t.visit) => t.pods \subseteq PodsFor(T, t.visit)
    BY <1>1
  <2> QED
    BY <2>1, <2>2 DEF TaskFor
<1> QED
  BY <1>2 DEF TasksFor, HeldFor, StoreFine

(* A worker between two calls.                                             *)
LEMMA IdleTaskFor ==
  ASSUME NEW S, NEW k
  PROVE  TaskFor(S, k, IdleTask)
BY DEF TaskFor, IdleTask

(* One worker goes on, the other does not.                                 *)
LEMMA OneTaskFor ==
  ASSUME NEW S, TasksFor(S, task), NEW k \in Kind, NEW t, TaskFor(S, k, t), Became(k, t)
  PROVE  TasksFor(S, task')
BY DEF TasksFor, Became

(* The informer stores as they are now.                                    *)
LEMMA PodsFine ==
  ASSUME FleetTypeOK, NEW S, StartedPods \subseteq S
  PROVE  StoreFine(S, pods)
BY DEF StoreFine, FleetTypeOK, Eligible, StartedPods

(* The pods of a visit, read from the store or from that of a connection   *)
(* that has been stopped meanwhile.                                        *)
LEMMA VisitedPods ==
  ASSUME FleetTypeOK, NEW S, StartedPods \subseteq S, HeldFor(S, held),
         NEW k \in Kind, NEW v \in Visit
  PROVE  PodsOfVisit(k, v) \subseteq PodsFor(S, v)
<1> DEFINE store == StoreFor(k, v[3])
<1>1. v[3] \in Cluster
  BY DEF Visit
<1>2. StoreFine(S, store)
  BY <1>1, PodsFine DEF StoreFor, HeldFor
<1> HIDE DEF store
<1>3. ASSUME NEW p \in getMatchingPods(v[3], v[2], store)
      PROVE  <<p, store[p].label>> \in PodsFor(S, v)
  <2>1. p \in Pod /\ Home[p] = v[3] /\ Eligible(store[p])
    BY DEF getMatchingPods
  <2>2. store[p].label \in Label /\ p \in S
    BY <1>2, <2>1 DEF StoreFine, PodState
  <2> QED
    BY <2>1, <2>2 DEF PodsFor
<1> QED
  BY <1>3 DEF PodsOfVisit, store

(* How a call goes on.                                                     *)
LEMMA AdvanceFor ==
  ASSUME FleetTypeOK, NEW S, StartedPods \subseteq S, HeldFor(S, held),
         NEW k \in Kind, NEW t, TaskFor(S, k, t), Named(k, t), NEW u \in Advance(k, t)
  PROVE  TaskFor(S, k, u)
<1> DEFINE next == [t EXCEPT !.entry = Nil, !.found = {}]
           stocked == {v \in t.todo : PodsOfVisit(k, v) # {}}
           Cleaning == {[next EXCEPT !.pc = "listOrphans", !.todo = {}, !.visit = Nil]}
           Visiting(v, passed) == [next EXCEPT !.pc = "ensure", !.todo = @ \ ({v} \cup passed),
                                               !.visit = v, !.pods = PodsOfVisit(k, v)]
           Visits == UNION {{Visiting(v, passed) : passed \in SUBSET (t.todo \ stocked)} :
                              v \in stocked}
<1>1. /\ DOMAIN next = DOMAIN IdleTask /\ next.name = t.name /\ next.spec = t.spec
      /\ next.todo = t.todo /\ next.visit = t.visit /\ next.pods = t.pods
      /\ next.remove = t.remove
  BY DEF TaskFor, IdleTask
<1>2. t.todo \subseteq Visit /\ t.remove \subseteq Rendered
  BY DEF TaskFor
<1>3. Advance(k, t) = IF t.pods # {} THEN {[next EXCEPT !.pc = "ensure"]}
                      ELSE IF stocked = {} THEN Cleaning ELSE Visits
  BY DEF Advance
<1> HIDE DEF next, Visiting, Visits, Cleaning
<1>6. CASE t.pods # {}
  BY <1>1, <1>3, <1>6 DEF TaskFor, IdleTask, Named
<1>7. CASE t.pods = {} /\ stocked = {}
  <2>1. u = [next EXCEPT !.pc = "listOrphans", !.todo = {}, !.visit = Nil]
    BY <1>3, <1>7 DEF Cleaning
  <2>2. /\ DOMAIN u = DOMAIN IdleTask /\ u.pc = "listOrphans" /\ u.name = t.name
        /\ u.spec = t.spec /\ u.todo = {} /\ u.pods = {} /\ u.remove = t.remove
    BY <1>1, <1>7, <2>1 DEF IdleTask
  <2> QED
    BY <1>2, <2>2 DEF TaskFor, Named
<1>8. ASSUME NEW v \in stocked, NEW left \in SUBSET t.todo, NEW P, P = PodsOfVisit(k, v),
             u = [next EXCEPT !.pc = "ensure", !.todo = left, !.visit = v, !.pods = P]
      PROVE  TaskFor(S, k, u)
  <2>1. v \in Visit
    BY <1>2
  <2>2. P \subseteq PodsFor(S, v)
    BY <1>8, <2>1, VisitedPods
  <2>3. /\ DOMAIN u = DOMAIN IdleTask /\ u.pc = "ensure" /\ u.name = t.name /\ u.spec = t.spec
        /\ u.todo = left /\ u.visit = v /\ u.pods = P /\ u.remove = t.remove
    BY <1>1, <1>8 DEF IdleTask
  <2> QED
    BY <1>2, <2>1, <2>2, <2>3 DEF TaskFor, Named
<1>9. CASE t.pods = {} /\ stocked # {}
  <2>1. PICK v \in stocked, passed \in SUBSET (t.todo \ stocked) : u = Visiting(v, passed)
    BY <1>3, <1>9 DEF Visits
  <2> DEFINE left == t.todo \ ({v} \cup passed)
             P == PodsOfVisit(k, v)
  <2>2. u = [next EXCEPT !.pc = "ensure", !.todo = left, !.visit = v, !.pods = P]
    BY <1>1, <2>1 DEF Visiting
  <2>3. left \in SUBSET t.todo
    OBVIOUS
  <2> HIDE DEF left, P, stocked
  <2> QED
    BY <1>8, <2>2, <2>3 DEF P
<1> QED
  BY <1>6, <1>7, <1>9

(* Going on to delete renderings.                                          *)
LEMMA RemoveAllFor ==
  ASSUME NEW S, NEW k, NEW t, TaskFor(S, k, t), k = "cluster" => Named(k, t),
         NEW doomed, doomed \subseteq Rendered
  PROVE  TaskFor(S, k, RemoveAll(k, t, doomed))
<1>1. TaskFor(S, k, Deleted(k, t))
  BY IdleTaskFor DEF Deleted, TaskFor, Named, IdleTask
<1> QED
  BY <1>1 DEF RemoveAll, TaskFor, Named, IdleTask

(* What is picked by its hint is a rendering.                              *)
LEMMA OwnedRendered ==
  ASSUME HintsApart, TypeOK, NEW k \in Kind, NEW t,
         (t = IdleTask /\ k = "identity") \/ Named(k, t)
  PROVE  Owned(k, t) \subseteq Rendered
<1> SUFFICES ASSUME NEW e \in ForeignEntry, Belongs(k, t, e) PROVE FALSE
  BY DEF Owned, ListEntries, TypeOK, ServerTypeOK
<1>1. CASE k = "cluster"
  BY <1>1 DEF Belongs, Named, HintsApart
<1>2. CASE k = "identity"
  <2>1. t.name \in Identity \cup {Nil} /\ (t.spec \in IdentitySpec \/ t.spec = Nil)
    BY <1>2 DEF Named, IdleTask
  <2> DEFINE h == IF t.spec = Nil THEN Nil ELSE t.spec.hint
  <2>2. h \in {s.hint : s \in IdentitySpec} \cup {Nil}
    BY <2>1
  <2>3. entryBelongsToIdentity(e, t.name, h)
    BY <1>2 DEF Belongs
  <2> QED
    BY <2>1, <2>2, <2>3 DEF HintsApart
<1> QED
  BY <1>1, <1>2 DEF Kind

------------------------------------------------------------------------------
(* A connection that is stopped while somebody uses it leaves the store as *)
(* it is now.                                                              *)
LEMMA HeldKept ==
  ASSUME FleetTypeOK, NEW S, StartedPods \subseteq S, HeldFor(S, held), KeepHeld
  PROVE  HeldFor(S, held')
<1>1. StoreFine(S, pods)
  BY PodsFine
<1>2. DOMAIN held' = DOMAIN held
  BY DEF KeepHeld
<1>3. ASSUME NEW x \in DOMAIN held, held'[x] # Nil
      PROVE  StoreFine(S, held'[x].pods)
  <2>1. held'[x] = held[x] \/ held'[x] = [reg |-> conn[x[2]].reg, pods |-> pods]
    BY <1>3 DEF KeepHeld
  <2> QED
    BY <1>1, <1>3, <2>1 DEF HeldFor
<1> QED
  BY <1>2, <1>3 DEF HeldFor

(* The pass works through a stopped connection: what it declares is for    *)
(* pods that ran when the connection was stopped.                          *)
LEMMA ProcessHeldFor ==
  ASSUME TypeOK, NEW S, StartedPods \subseteq S, HeldFor(S, held),
         PassFor(S, declared \cup toCreate \cup toUpdate),
         NEW c \in Cluster, NEW i \in Identity, NEW skipped \in SUBSET Pod,
         ProcessHeld(c, i, skipped)
  PROVE  /\ FleetTypeOK' /\ PassTypeOK' /\ PassFor(S, declared' \cup toCreate' \cup toUpdate')
         /\ spire' = spire /\ job' = job /\ queue' = queue /\ pods' = pods
<1> DEFINE store == held[<<"pass", c>>].pods
           new == {Declaration(i, idents[i], c, p, store[p].label) :
                     p \in {x \in VisitedHeld(c, i) \ skipped : CanRender(idents[i])}}
<1>1. idents[i] \in IdentitySpec /\ StoreFine(S, store)
  BY DEF ProcessHeld, TypeOK, PassTypeOK, HeldFor
<1>2. VisitedHeld(c, i) \subseteq {p \in Pod : Home[p] = c /\ Eligible(store[p])}
  BY DEF VisitedHeld, getMatchingPods
<1>3. declared' = AddDeclared(declared, new)
  BY DEF ProcessHeld
<1> HIDE DEF store
<1>4. ASSUME NEW p \in VisitedHeld(c, i)
      PROVE  /\ Declaration(i, idents[i], c, p, store[p].label) \in Rendered
             /\ OwnedBy(S, Declaration(i, idents[i], c, p, store[p].label))
  <2>1. p \in Pod /\ p \in S /\ Home[p] = c /\ store[p].label \in Label
    BY <1>1, <1>2 DEF StoreFine, PodState
  <2> QED
    BY <1>1, <2>1, DeclarationRendered, RenderedHasUID DEF OwnedBy
<1>5. new \subseteq Rendered /\ PassFor(S, new)
  BY <1>4 DEF PassFor
<1> HIDE DEF new
<1>6. Cardinality(skipped) \in Nat
  BY FleetAssumption, FS_Subset, FS_CardinalityType
<1>7. faults' \in 0..MaxFaults
  BY <1>6, FleetAssumption DEF ProcessHeld, TypeOK, FleetTypeOK
<1>8. FleetTypeOK'
  BY <1>7, PassEnvFleet DEF ProcessHeld, TypeOK
<1>9. declared' \subseteq Rendered /\ declared' \subseteq declared \cup new
  BY <1>3, <1>5 DEF AddDeclared, Put, TypeOK, PassTypeOK
<1>10. PassTypeOK'
  BY <1>9 DEF ProcessHeld, TypeOK, PassTypeOK, diffVars
<1>11. PassFor(S, declared' \cup toCreate' \cup toUpdate')
  BY <1>5, <1>9 DEF ProcessHeld, PassFor, diffVars
<1> QED
  BY <1>8, <1>10, <1>11 DEF ProcessHeld, passEnv, connVars

------------------------------------------------------------------------------
(* What a step of a controller may do.                                     *)
Worked ==
  /\ FleetTypeOK' /\ QueuesFor(StartedPods, queue') /\ TasksFor(StartedPods, task')
  /\ spire' = spire \/ Request
  /\ UNCHANGED <<pods, job, passVars>>

(* A step that leaves the connections and SPIRE alone.                     *)
LEMMA TaskOnly ==
  ASSUME ControllersInv, NEW k \in Kind, NEW t, TaskFor(StartedPods, k, t), Became(k, t),
         faults' \in 0..MaxFaults, UNCHANGED <<controllersEnv, connVars>>,
         spire' = spire \/ Request
  PROVE  Worked
<1>1. FleetTypeOK'
  BY PassEnvFleet DEF ControllersInv, TypeOK, controllersEnv, passEnv
<1>2. QueuesFor(StartedPods, queue')
  BY StartedParts DEF ControllersInv, connVars
<1> QED
  BY <1>1, <1>2, OneTaskFor DEF Worked, ControllersInv, controllersEnv

(* The same of a step that goes on to the next remote call.                *)
LEMMA GoesOn ==
  ASSUME ControllersInv, NEW k \in Kind, NEW t, TaskFor(StartedPods, k, t), Named(k, t),
         BecameOne(k, Advance(k, t)),
         faults' \in 0..MaxFaults, UNCHANGED <<controllersEnv, connVars>>,
         spire' = spire \/ Request
  PROVE  Worked
<1>1. PICK u \in Advance(k, t) : Became(k, u)
  BY DEF BecameOne
<1>2. TaskFor(StartedPods, k, u)
  BY AdvanceFor DEF ControllersInv, TypeOK
<1> QED
  BY <1>1, <1>2, TaskOnly

(* A worker begins with the deletes of an object that is gone or disabled. *)
LEMMA DeletesOwned ==
  ASSUME HintsApart, ControllersInv, NEW k \in Kind, NEW ok \in BOOLEAN, NEW t,
         TaskFor(StartedPods, k, t), (t = IdleTask /\ k = "identity") \/ Named(k, t),
         DeleteOwned(k, t, ok), UNCHANGED <<controllersEnv, connVars, spire>>
  PROVE  Worked
<1> DEFINE doomed == IF ok THEN Owned(k, t) ELSE {}
<1>1. doomed \subseteq Rendered
  BY OwnedRendered DEF ControllersInv
<1>2. Became(k, RemoveAll(k, t, doomed)) /\ Outcome(ok)
  BY DEF DeleteOwned
<1> HIDE DEF doomed
<1>3. TaskFor(StartedPods, k, RemoveAll(k, t, doomed))
  BY <1>1, RemoveAllFor
<1>4. faults' \in 0..MaxFaults
  BY <1>2, OutcomeType DEF ControllersInv, TypeOK
<1> QED
  BY <1>2, <1>3, <1>4, TaskOnly

(* A worker takes an identity from its queue.                              *)
LEMMA IdentityTaken ==
  ASSUME HintsApart, ControllersInv, NEW i \in Identity, NEW ok \in BOOLEAN,
         ReconcileWorkloadIdentity(i, ok)
  PROVE  Worked
<1> DEFINE s == identities[i]
<1>1. "identity" \in Kind /\ spire' = spire /\ UNCHANGED <<controllersEnv, connVars>>
  BY DEF Kind, ReconcileWorkloadIdentity
<1>2. CASE s = Nil
  <2>1. DeleteOwned("identity", IdleTask, ok)
    BY <1>2 DEF ReconcileWorkloadIdentity
  <2> QED
    BY <1>1, <2>1, IdleTaskFor, DeletesOwned
<1>3. CASE s # Nil
  <2> DEFINE todo == {<<i, s, c>> : c \in findMatchingClusters(s)}
             t == [IdleTask EXCEPT !.name = i, !.spec = s, !.todo = todo]
  <2>1. BecameOne("identity", Advance("identity", t)) /\ faults' \in 0..MaxFaults
    BY <1>3 DEF ReconcileWorkloadIdentity, ControllersInv, TypeOK, FleetTypeOK
  <2>2. s \in IdentitySpec
    BY <1>3 DEF ControllersInv, TypeOK, FleetTypeOK
  <2>3. todo \subseteq Visit
    BY <2>2 DEF findMatchingClusters, Visit
  <2> HIDE DEF todo, s
  <2>4. TaskFor(StartedPods, "identity", t) /\ Named("identity", t)
    BY <2>2, <2>3 DEF TaskFor, Named, IdleTask
  <2> HIDE DEF t
  <2> QED
    BY <1>1, <2>1, <2>4, GoesOn
<1> QED
  BY <1>2, <1>3

(* A worker takes a cluster from its queue.                                *)
LEMMA ClusterTaken ==
  ASSUME HintsApart, ControllersInv, NEW c \in Cluster, NEW ok \in BOOLEAN,
         ReconcileEKSCluster(c, ok)
  PROVE  Worked
<1> DEFINE reg == registry[c]
           t == [IdleTask EXCEPT !.name = c, !.spec = reg]
           joining == [t EXCEPT !.pc = "connect"]
<1>1. "cluster" \in Kind /\ spire' = spire /\ UNCHANGED <<controllersEnv, connVars>>
  BY DEF Kind, ReconcileEKSCluster
<1>2. \/ reg # Nil /\ DeleteOwned("cluster", t, ok)
      \/ /\ faults' \in 0..MaxFaults
         /\ Became("cluster", IdleTask) \/ (reg # Nil /\ Became("cluster", joining))
  BY DEF ReconcileEKSCluster, ControllersInv, TypeOK, FleetTypeOK
<1>3. reg \in Registration \cup {Nil}
  BY DEF ControllersInv, TypeOK, FleetTypeOK
<1> HIDE DEF reg
<1>4. ASSUME reg # Nil
      PROVE  /\ TaskFor(StartedPods, "cluster", t) /\ Named("cluster", t)
             /\ TaskFor(StartedPods, "cluster", joining)
  BY <1>3, <1>4 DEF TaskFor, Named, IdleTask
<1> HIDE DEF t, joining
<1>5. CASE reg # Nil /\ DeleteOwned("cluster", t, ok)
  BY <1>1, <1>4, <1>5, DeletesOwned
<1>6. CASE faults' \in 0..MaxFaults /\ Became("cluster", IdleTask)
  BY <1>1, <1>6, IdleTaskFor, TaskOnly
<1>7. CASE faults' \in 0..MaxFaults /\ reg # Nil /\ Became("cluster", joining)
  BY <1>1, <1>4, <1>7, TaskOnly
<1> QED
  BY <1>2, <1>5, <1>6, <1>7

(* The cluster worker connects, or fails to.                               *)
LEMMA WorkerConnects ==
  ASSUME ControllersInv, NEW ok \in BOOLEAN, Connect(ok)
  PROVE  Worked
<1> DEFINE t == task["cluster"]
           todo == {<<i, identities[i], t.name>> : i \in findIdentitiesForCluster(t.spec)}
           S == StartedPods
<1>1. /\ "cluster" \in Kind /\ TaskFor(S, "cluster", t) /\ Named("cluster", t)
      /\ t.name \in Cluster /\ t.spec \in Registration
  BY DEF Kind, Connect, ControllersInv, TasksFor, TaskFor, Named
<1>2. AddOrUpdateCluster(t.name, t.spec, ok, IdleListeners)
  BY DEF Connect
<1>3. FleetTypeOK'
  <2>1. faults' \in 0..MaxFaults
    BY OutcomeType DEF Connect, ControllersInv, TypeOK
  <2>2. IdleListeners \subseteq Listener
    BY DEF IdleListeners
  <2>3. conn' \in [Cluster -> Connection \cup {Nil}] /\ queue' \in [Listener -> Seq(Notification)]
    BY <1>1, <1>2, <2>2, ConnectType DEF ControllersInv, TypeOK
  <2> QED
    BY <2>1, <2>3 DEF Connect, ControllersInv, TypeOK, FleetTypeOK, controllersEnv, resourceVars
<1>4. QueuesFor(S, queue')
  BY <1>1, <1>2, ConnectFor, StartedParts DEF ControllersInv
<1>5. todo \subseteq Visit
  BY <1>1 DEF findIdentitiesForCluster, Visit, ControllersInv, TypeOK, FleetTypeOK
<1>6. \/ Became("cluster", IdleTask)
      \/ BecameOne("cluster", Advance("cluster", [t EXCEPT !.todo = todo]))
  BY DEF Connect
<1> HIDE DEF t, todo
<1>7. /\ TaskFor(S, "cluster", [t EXCEPT !.todo = todo])
      /\ Named("cluster", [t EXCEPT !.todo = todo])
  BY <1>1, <1>5 DEF TaskFor, Named, IdleTask
<1>8. \E u : TaskFor(S, "cluster", u) /\ Became("cluster", u)
  BY <1>1, <1>6, <1>7, IdleTaskFor, AdvanceFor DEF BecameOne, ControllersInv, TypeOK
<1>9. TasksFor(S, task')
  BY <1>1, <1>8, OneTaskFor DEF ControllersInv
<1> QED
  BY <1>3, <1>4, <1>9 DEF Worked, Connect, controllersEnv

(* The worker disconnects a disabled cluster.                              *)
LEMMA WorkerDisconnects ==
  ASSUME ControllersInv, Disconnect
  PROVE  Worked
<1> DEFINE c == task["cluster"].name
<1>1. c \in Cluster /\ "cluster" \in Kind
  BY DEF Kind, Disconnect, ControllersInv, TasksFor, TaskFor, Named
<1>2. \/ conn' = [conn EXCEPT ![c] = Nil] /\ queue' = stopClusterConnection(c)
      \/ conn' = conn /\ queue' = queue
  BY DEF Disconnect, RemoveCluster, connVars
<1>3. FleetTypeOK'
  BY <1>1, <1>2, StopType
     DEF Disconnect, ControllersInv, TypeOK, FleetTypeOK, controllersEnv, resourceVars
<1>4. QueuesFor(StartedPods, queue')
  BY <1>1, <1>2, StopFor, StartedParts DEF ControllersInv, TypeOK
<1>5. TasksFor(StartedPods, task')
  BY <1>1, IdleTaskFor, OneTaskFor DEF Disconnect, ControllersInv
<1> QED
  BY <1>3, <1>4, <1>5 DEF Worked, Disconnect, controllersEnv

(* What a worker has read, and that a failure stays within the bound.      *)
LEMMA AtWork ==
  ASSUME ControllersInv, NEW k \in Kind
  PROVE  /\ TaskFor(StartedPods, k, task[k])
         /\ task[k].pc # "idle" /\ (task[k].pc = "remove" => k = "cluster") => Named(k, task[k])
         /\ \A ok \in BOOLEAN : Outcome(ok) => faults' \in 0..MaxFaults
<1>1. TaskFor(StartedPods, k, task[k])
  BY DEF ControllersInv, TasksFor
<1>2. \A ok \in BOOLEAN : Outcome(ok) => faults' \in 0..MaxFaults
  BY OutcomeType DEF ControllersInv, TypeOK
<1> QED
  BY <1>1, <1>2 DEF TaskFor

(* The worker compares a pod's entry with SPIRE: what it will write is the *)
(* rendering for a pod that ran.                                           *)
LEMMA WorkerCompares ==
  ASSUME ControllersInv, NEW k \in Kind, NEW x \in task[k].pods,
         NEW result \in {"ok", "node", "list"}, EnsureTaskList(k, x, result)
  PROVE  Worked
<1> DEFINE t == task[k]
           S == StartedPods
           rest == [t EXCEPT !.pods = @ \ {x}]
           e == Declaration(t.visit[1], t.visit[2], t.visit[3], x[1], x[2])
           found == IF result = "ok" THEN {y \in ListEntries : y.id = e.id} ELSE {}
           writing == [rest EXCEPT !.pc = "write", !.entry = e, !.found = found]
<1>1. /\ t.pc = "ensure" /\ spire' = spire /\ UNCHANGED <<controllersEnv, connVars>>
      /\ BecameOne(k, Advance(k, rest)) \/ Became(k, writing)
  BY DEF EnsureTaskList
<1>2. TaskFor(S, k, t) /\ Named(k, t)
  BY <1>1, AtWork
<1>3. faults' \in 0..MaxFaults
  BY AtWork DEF EnsureTaskList
<1>4. t.visit \in Visit /\ x \in PodsFor(S, t.visit)
  BY <1>2 DEF TaskFor
<1>5. e \in Rendered /\ OwnedBy(S, e)
  <2>1. /\ t.visit[1] \in Identity /\ t.visit[2] \in IdentitySpec
        /\ x[1] \in Pod /\ x[1] \in S /\ x[2] \in Label /\ t.visit[3] = Home[x[1]]
    BY <1>4 DEF Visit, PodsFor
  <2> QED
    BY <2>1, DeclarationRendered, RenderedHasUID DEF OwnedBy
<1> HIDE DEF t, e, found
<1>6. TaskFor(S, k, rest) /\ Named(k, rest)
  BY <1>1, <1>2 DEF TaskFor, Named, IdleTask
<1>7. TaskFor(S, k, writing)
  <2>1. /\ DOMAIN writing = DOMAIN IdleTask /\ writing.pc = "write" /\ writing.entry = e
        /\ writing.name = t.name /\ writing.spec = t.spec /\ writing.todo = t.todo
        /\ writing.visit = t.visit /\ writing.pods = t.pods \ {x} /\ writing.remove = t.remove
    BY <1>2 DEF TaskFor, IdleTask
  <2> HIDE DEF writing, rest
  <2> QED
    BY <1>2, <1>5, <2>1 DEF TaskFor, Named
<1> HIDE DEF rest, writing
<1> QED
  BY <1>1, <1>3, <1>6, <1>7, GoesOn, TaskOnly

(* The worker writes the entry it rendered.                                *)
LEMMA WorkerWrites ==
  ASSUME ControllersInv, NEW k \in Kind, NEW ok \in BOOLEAN, EnsureTaskWrite(k, ok)
  PROVE  Worked
<1>1. /\ task[k].pc = "write" /\ UNCHANGED <<controllersEnv, connVars>>
      /\ BecameOne(k, Advance(k, task[k])) /\ Outcome(ok)
      /\ spire' = spire \/ CreateEntry(task[k].entry) \/ UpdateEntry(task[k].entry)
  BY DEF EnsureTaskWrite
<1>2. TaskFor(StartedPods, k, task[k]) /\ Named(k, task[k]) /\ faults' \in 0..MaxFaults
  BY <1>1, AtWork
<1>3. spire' = spire \/ Request
  BY <1>1, <1>2 DEF TaskFor, Request, controllersEnv
<1> QED
  BY <1>1, <1>2, <1>3, GoesOn

(* The worker lists, selects and deletes what belongs to its object: all   *)
(* of it renderings.                                                       *)
LEMMA WorkerCleansUp ==
  ASSUME HintsApart, ControllersInv, NEW k \in Kind
  PROVE  /\ SelectOrphans(k) => Worked
         /\ \A ok \in BOOLEAN : ListOrphans(k, ok) => Worked
         /\ \A ok \in BOOLEAN, e \in task[k].remove : RemoveOrphan(k, e, ok) => Worked
<1> DEFINE t == task[k]
           S == StartedPods
<1>1. TaskFor(S, k, t)
  BY AtWork
<1>2. ASSUME SelectOrphans(k) PROVE Worked
  <2> DEFINE doomed == {e \in t.found : ~OwnedBy(validPodUIDs(k, t), e)}
  <2>1. /\ t.pc = "select" /\ Became(k, RemoveAll(k, t, doomed))
        /\ spire' = spire /\ faults' = faults /\ UNCHANGED <<controllersEnv, connVars>>
    BY <1>2 DEF SelectOrphans
  <2>2. doomed \subseteq Rendered /\ Named(k, t)
    BY <1>1, <2>1 DEF TaskFor
  <2> HIDE DEF doomed, t
  <2>3. TaskFor(S, k, RemoveAll(k, t, doomed))
    BY <1>1, <2>2, RemoveAllFor
  <2>4. faults' \in 0..MaxFaults
    BY <2>1 DEF ControllersInv, TypeOK, FleetTypeOK
  <2> QED
    BY <2>1, <2>3, <2>4, TaskOnly
<1>3. ASSUME NEW ok \in BOOLEAN, ListOrphans(k, ok) PROVE Worked
  <2> DEFINE listed == IF ok THEN Owned(k, t) ELSE {}
             new == IF listed = {} THEN IdleTask ELSE [t EXCEPT !.pc = "select", !.found = listed]
  <2>1. /\ t.pc = "listOrphans" /\ Became(k, new) /\ Outcome(ok) /\ spire' = spire
        /\ UNCHANGED <<controllersEnv, connVars>>
    BY <1>3 DEF ListOrphans
  <2>2. Named(k, t) /\ faults' \in 0..MaxFaults
    BY <2>1, AtWork
  <2>3. listed \subseteq Rendered
    BY <2>2, OwnedRendered DEF ControllersInv
  <2> HIDE DEF listed, t
  <2>4. TaskFor(S, k, [t EXCEPT !.pc = "select", !.found = listed])
    BY <1>1, <2>2, <2>3 DEF TaskFor, Named, IdleTask
  <2>5. TaskFor(S, k, new)
    BY <2>4, IdleTaskFor
  <2> HIDE DEF new
  <2> QED
    BY <2>1, <2>2, <2>5, TaskOnly
<1>4. ASSUME NEW ok \in BOOLEAN, NEW e \in task[k].remove, RemoveOrphan(k, e, ok)
      PROVE  Worked
  <2>1. /\ t.pc = "remove" /\ Became(k, RemoveAll(k, t, t.remove \ {e})) /\ Outcome(ok)
        /\ (spire' = spire \/ DeleteEntry(e.id)) /\ UNCHANGED <<controllersEnv, connVars>>
    BY <1>4 DEF RemoveOrphan
  <2>2. e \in Rendered /\ t.remove \ {e} \subseteq Rendered /\ (k = "cluster" => Named(k, t))
    BY <1>1, <2>1 DEF TaskFor
  <2>3. spire' = spire \/ Request
    BY <2>1, <2>2 DEF Request, controllersEnv
  <2>4. faults' \in 0..MaxFaults
    BY <2>1, AtWork
  <2>5. TaskFor(S, k, RemoveAll(k, t, t.remove \ {e}))
    BY <1>1, <2>2, RemoveAllFor
  <2> QED
    BY <2>1, <2>3, <2>4, <2>5, TaskOnly
<1> QED
  BY <1>2, <1>3, <1>4

(* Every step of a controller.                                             *)
LEMMA ControllerWorks ==
  ASSUME HintsApart, ControllersInv, NEW k \in Kind, Controller(k)
  PROVE  Worked
BY IdentityTaken, ClusterTaken, WorkerConnects, WorkerDisconnects, WorkerCompares,
   WorkerWrites, WorkerCleansUp DEF Controller

------------------------------------------------------------------------------
(* SPIRE after a request.                                                  *)
LEMMA RequestFor ==
  ASSUME ServerTypeOK, ServerFor(StartedPods, spire), spire' = spire \/ Request
  PROVE  ServerTypeOK' /\ ServerFor(StartedPods, spire')
<1>1. CASE spire' = spire
  BY <1>1 DEF ServerTypeOK
<1>2. CASE Request
  BY <1>2, CreateType, UpdateType, DeleteType, WriteFor, DeleteFor DEF Request
<1> QED
  BY <1>1, <1>2

(* A step of the registrar leaves the workers alone, or starts them anew.  *)
LEMMA BesideTheControllers ==
  ASSUME ControllersInv, Step, KeepHeld, UNCHANGED noise,
         task' = task \/ task' = [k \in Kind |-> IdleTask]
  PROVE  /\ ControllersInv' /\ StartedPods \subseteq StartedPods'
         /\ spire' = spire \/ Request
<1>1. TypeOK' /\ StartedInv'
  BY StepType, StepStarted DEF ControllersInv, TypeOK
<1>2. StartedPods \subseteq StartedPods' /\ (spire' = spire \/ Request)
  BY StartedGrows, OneRequest DEF ControllersInv
<1>3. UniqueIDs'
  BY <1>2, RequestUnique DEF ControllersInv
<1>4. TasksFor(StartedPods', task')
  <2>1. CASE task' = task
    BY <1>2, <2>1, TasksMonotone DEF ControllersInv
  <2>2. CASE task' = [k \in Kind |-> IdleTask]
    BY <2>2, IdleTaskFor DEF TasksFor
  <2> QED
    BY <2>1, <2>2
<1>5. HeldFor(StartedPods', held')
  <2>1. HeldFor(StartedPods', held)
    BY <1>2, TasksMonotone DEF ControllersInv
  <2> QED
    BY <1>2, <2>1, HeldKept DEF ControllersInv, TypeOK
<1> QED
  BY <1>1, <1>2, <1>3, <1>4, <1>5 DEF ControllersInv

(* A step of the pass through a stopped connection, or of a controller.    *)
LEMMA WithinTheControllers ==
  ASSUME HintsApart, ControllersInv, KeepHeld, UNCHANGED noise,
         \/ \E k \in Kind : Controller(k)
         \/ UNCHANGED task /\ \E c \in Cluster, i \in Identity, skipped \in SUBSET Pod :
                                ProcessHeld(c, i, skipped)
  PROVE  /\ ControllersInv' /\ StartedPods \subseteq StartedPods'
         /\ spire' = spire \/ Request
<1> DEFINE S == StartedPods
           Flow == PassFor(S, declared' \cup toCreate' \cup toUpdate')
           Good == /\ FleetTypeOK' /\ PassTypeOK' /\ Flow /\ QueuesFor(S, queue')
                   /\ TasksFor(S, task') /\ UNCHANGED <<pods, job>>
                   /\ spire' = spire \/ Request
<1>1. /\ ServerFor(S, spire) /\ PassFor(S, declared \cup toCreate \cup toUpdate)
      /\ JobsFor(S, job) /\ QueuesFor(S, queue) /\ TypeOK /\ UniqueIDs
      /\ TasksFor(S, task) /\ HeldFor(S, held)
  BY StartedParts DEF ControllersInv
<1>2. Good
  <2>1. CASE \E k \in Kind : Controller(k)
    <3>1. Worked
      BY <2>1, ControllerWorks
    <3>2. PassTypeOK' /\ Flow
      BY <1>1, <3>1 DEF Worked, TypeOK, PassTypeOK, passVars, stateVars, diffVars
    <3> QED
      BY <3>1, <3>2 DEF Worked
  <2>2. ASSUME NEW c \in Cluster, NEW i \in Identity, NEW skipped \in SUBSET Pod,
               ProcessHeld(c, i, skipped), task' = task
        PROVE  Good
    BY <1>1, <2>2, ProcessHeldFor
  <2> QED
    BY <2>1, <2>2
<1>3. StartedPods' = S
  BY <1>2 DEF StartedPods
<1>4. ServerTypeOK' /\ ServerFor(S, spire') /\ UniqueIDs'
  BY <1>1, <1>2, RequestFor, RequestUnique DEF TypeOK
<1>5. HeldFor(S, held')
  BY <1>1, HeldKept DEF TypeOK
<1>6. TypeOK'
  BY <1>1, <1>2, <1>4 DEF TypeOK, JobsTypeOK
<1>7. StartedInv'
  BY <1>1, <1>2, <1>3, <1>4, StartedParts
<1> QED
  BY <1>2, <1>3, <1>4, <1>5, <1>6, <1>7 DEF ControllersInv

(* ControllersInv is inductive, and every step makes one request at most.  *)
LEMMA ControllersStep ==
  ASSUME HintsApart, ControllersInv, [ControllersNext]_resourcesVars
  PROVE  /\ ControllersInv' /\ StartedPods \subseteq StartedPods'
         /\ spire' = spire \/ Request
<1>1. CASE ControllersNext
  <2>1. KeepHeld /\ UNCHANGED noise
    BY <1>1 DEF ControllersNext
  <2>2. \/ Step /\ (task' = task \/ task' = [k \in Kind |-> IdleTask])
        \/ \E k \in Kind : Controller(k)
        \/ UNCHANGED task /\ \E c \in Cluster, i \in Identity, skipped \in SUBSET Pod :
                               ProcessHeld(c, i, skipped)
    BY <1>1 DEF ControllersNext, Pass, Step
  <2> QED
    BY <2>1, <2>2, BesideTheControllers, WithinTheControllers
<1>2. CASE UNCHANGED resourcesVars
  <2>1. TypeOK' /\ StartedInv'
    BY <1>2, StutterType, StutterStarted DEF resourcesVars, ControllersInv
  <2>2. spire' = spire /\ pods' = pods /\ task' = task /\ held' = held
    BY <1>2 DEF resourcesVars, vars, fleetVars
  <2>3. StartedPods' = StartedPods
    BY <2>2 DEF StartedPods
  <2>4. UniqueIDs'
    BY <2>2, RequestUnique DEF ControllersInv
  <2> QED
    BY <2>1, <2>2, <2>3, <2>4 DEF ControllersInv
<1> QED
  BY <1>1, <1>2

(* Nothing is in progress at first.                                        *)
LEMMA ControllersStart == Init /\ ControllersInit => ControllersInv
<1>1. ControllersInit => TasksFor(StartedPods, task) /\ HeldFor(StartedPods, held)
  BY IdleTaskFor DEF ControllersInit, TasksFor, HeldFor
<1> QED
  BY <1>1, TypeInit, StartedInitially, UniqueInitially DEF ControllersInv

(* With the controllers of the two resource kinds beside the pass and the  *)
(* handlers, their writes from what they read earlier and from stopped     *)
(* connections, the registrar still makes one entry in the ledger at a     *)
(* time, for pods that have run, and strikes out its own only: provided    *)
(* that no entry of another registrar has a hint that reads like its own.  *)
THEOREM ControllersLedger ==
  ASSUME HintsApart
  PROVE  ControllersSpec => ImplementsLedger
<1>1. Init => L!Init
  BY ForeignAssumption, RenderedManaged DEF Init, SpireInit, L!Init
<1>2. ControllersInv /\ [ControllersNext]_resourcesVars
        => ControllersInv' /\ [L!Next]_<<spire, StartedPods>>
  <2> SUFFICES ASSUME ControllersInv, [ControllersNext]_resourcesVars
               PROVE  ControllersInv' /\ [L!Next]_<<spire, StartedPods>>
    OBVIOUS
  <2>1. ControllersInv' /\ StartedPods \subseteq StartedPods' /\ (spire' = spire \/ Request)
    BY ControllersStep
  <2> QED
    BY <2>1, RequestLedger DEF ControllersInv
<1> QED
  BY <1>1, <1>2, ControllersStart, PTL DEF ControllersSpec, ImplementsLedger, L!Spec

(* Beside the controllers too, no pod that never ran has a managed entry,  *)
(* and the entries of other registrars stay as they are, under the same    *)
(* proviso.                                                                *)
THEOREM ControllersSafe ==
  ASSUME HintsApart
  PROVE  ControllersSpec => [](OnlyForStartedPods /\ ForeignUntouched)
<1>1. Init => ForeignUntouched
  BY DEF Init, SpireInit, ForeignUntouched
<1>2. ASSUME NEW e \in Rendered, NEW f \in ForeignEntry
      PROVE  f.id # e.id
  BY RenderedManaged, ForeignAssumption DEF shouldProcessEntry
<1>3. ASSUME ForeignUntouched, spire' = spire \/ Request
      PROVE  ForeignUntouched'
  BY <1>2, <1>3 DEF Request, CreateEntry, UpdateEntry, DeleteEntry, ForeignUntouched
<1>4. ControllersInv /\ ForeignUntouched /\ [ControllersNext]_resourcesVars
        => ControllersInv' /\ ForeignUntouched'
  BY <1>3, ControllersStep
<1>5. ControllersInv => OnlyForStartedPods
  BY DEF ControllersInv, StartedInv
<1> QED
  BY <1>1, <1>4, <1>5, ControllersStart, PTL DEF ControllersSpec

=============================================================================
