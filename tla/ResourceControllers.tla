------------------------ MODULE ResourceControllers ------------------------
(***************************************************************************)
(* The controllers of the two resource kinds beside the full pass and the  *)
(* pod event handlers: internal/controller/workloadidentity_controller.go, *)
(* eksclusterregistry_controller.go and the targeted reconciliation of one *)
(* identity or one cluster they call (targeted_reconciler.go).  Each       *)
(* controller has a work queue without duplicates and one worker.  The     *)
(* full pass wakes them too, by writing the status of every object.        *)
(***************************************************************************)
EXTENDS Registrar

VARIABLES
  asked,   \* the two work queues: a set of <<kind, name>>
  task,    \* Kind -> the Reconcile call in progress
  held     \* <<holder, cluster>> -> a stopped connection still in use, or Nil

Kind == {"identity", "cluster"}

resourcesVars == <<vars, asked, task, held>>

(* name, spec: the object as it was read; todo: <<identity, spec, cluster>> *)
(* still to be visited; visit, pods: the one being visited and its pods     *)
(* still to be reconciled; entry, found, remove: as in IdleJob.             *)
IdleTask == [pc |-> "idle", name |-> Nil, spec |-> Nil, todo |-> {},
             visit |-> Nil, pods |-> {}, entry |-> Nil, found |-> {}, remove |-> {}]

Existing == ({"identity"} \X {i \in Identity : identities[i] # Nil})
            \cup ({"cluster"} \X {c \in Cluster : registry[c] # Nil})

(* The first list of each controller's cache fills its queue.              *)
ControllersInit ==
  /\ asked = Existing
  /\ task = [k \in Kind |-> IdleTask]
  /\ held = [x \in {"pass", "cluster"} \X Cluster |-> Nil]

------------------------------------------------------------------------------
(* A generated hint is "workloadidentity:IDENTITY:CLUSTER;owner:...", a    *)
(* custom one "HINT;owner:...".  A custom hint is compared as a whole, so  *)
(* the owner tag in the entry's hint makes them differ.                    *)
entryBelongsToIdentity(e, i, hint) ==
  IF hint = Nil
    THEN Len(e.hint.base) >= 3 /\ SubSeq(e.hint.base, 1, 2) = <<"workloadidentity", i>>
    ELSE e.hint = [base |-> <<hint>>, owner |-> Nil]

(* The part between the second and the third colon is compared: with an    *)
(* owner tag it is "CLUSTER;owner".                                        *)
entryBelongsToCluster(e, c) ==
  Len(e.hint.base) >= 3 /\ e.hint.base[3] = c /\ e.hint.owner = Nil

Belongs(k, t, e) ==
  IF k = "cluster" THEN entryBelongsToCluster(e, t.name)
  ELSE entryBelongsToIdentity(e, t.name, IF t.spec = Nil THEN Nil ELSE t.spec.hint)

(* Both read the manager's cache, which is filled before the workers start. *)
findMatchingClusters(s) ==
  {c \in Cluster : /\ registry[c] # Nil /\ registry[c].enabled
                   /\ shouldProcessIdentity(s, registry[c])}

findIdentitiesForCluster(reg) ==
  {i \in Identity : identities[i] # Nil /\ shouldProcessIdentity(identities[i], reg)}

(* Mutant: a pod that has only been accepted counts as running.            *)
acceptedPods(c, s, store) ==
  {p \in Pod : /\ Home[p] = c /\ EligibleEarly(store[p])
               /\ SelectedByInformerList(s, p, store[p].label)}

(* getMatchingPods and the test for running, scheduled pods, in an         *)
(* informer's store.  The namespaces to be ignored are not looked at.      *)
getMatchingPods(c, s, store) ==
  {p \in Pod : /\ Home[p] = c /\ Eligible(store[p])
               /\ SelectedByInformerList(s, p, store[p].label)}

(* Mutant: nothing is found under the UIDs.                                *)
noPodUIDs(k, t) == {}

(* The pods that keep an entry from being an orphan.  Only clusters that   *)
(* are connected at this moment contribute.                                *)
validPodUIDs(k, t) ==
  IF k = "identity"
    THEN UNION {getMatchingPods(c, t.spec, pods) :
                  c \in {x \in findMatchingClusters(t.spec) : conn[x] # Nil}}
    ELSE UNION {getMatchingPods(t.name, identities[i], pods) :
                  i \in {x \in findIdentitiesForCluster(t.spec) : conn[t.name] # Nil}}

------------------------------------------------------------------------------
controllersEnv == <<resourceVars, pods, changes, job, passVars>>

Became(k, t) == task' = [task EXCEPT ![k] = t]
BecameOne(k, T) == \E t \in T : Became(k, t)

(* The store of the connection a worker uses for cluster c: the cluster    *)
(* worker keeps the one it looked up, even if it has been stopped.         *)
StoreFor(k, c) ==
  IF k = "cluster" /\ held[<<k, c>>] # Nil THEN held[<<k, c>>].pods ELSE pods

PodsOfVisit(k, v) ==
  IF k = "identity" /\ conn[v[3]] = Nil THEN {}
  ELSE {<<p, StoreFor(k, v[3])[p].label>> :
          p \in getMatchingPods(v[3], v[2], StoreFor(k, v[3]))}

(* How the call goes on to its next remote call: the next pod of the       *)
(* visit, the pods of another one (those without pods are passed over in   *)
(* any order), or the clean-up.                                            *)
Advance(k, t) ==
  LET next == [t EXCEPT !.entry = Nil, !.found = {}]
      stocked == {v \in t.todo : PodsOfVisit(k, v) # {}}
  IN IF t.pods # {} THEN {[next EXCEPT !.pc = "ensure"]}
     ELSE IF stocked = {}
       THEN {[next EXCEPT !.pc = "listOrphans", !.todo = {}, !.visit = Nil]}
     ELSE UNION {{[next EXCEPT !.pc = "ensure", !.todo = @ \ ({v} \cup passed),
                               !.visit = v, !.pods = PodsOfVisit(k, v)] :
                    passed \in SUBSET (t.todo \ stocked)} : v \in stocked}

(* After the last delete the call ends, that for a disabled cluster after  *)
(* the cluster has been disconnected.                                      *)
Deleted(k, t) ==
  IF k = "cluster" /\ t.spec # Nil /\ ~t.spec.enabled
    THEN [t EXCEPT !.pc = "disconnect", !.found = {}, !.remove = {}]
    ELSE IdleTask

RemoveAll(k, t, doomed) ==
  IF doomed = {} THEN Deleted(k, t)
  ELSE [t EXCEPT !.pc = "remove", !.found = {}, !.remove = doomed]

Take(k, n) ==
  /\ task[k].pc = "idle" /\ <<k, n>> \in asked
  /\ asked' = asked \ {<<k, n>>}

(* The entries deleteEntriesForIdentity and deleteEntriesForCluster pick.  *)
Owned(k, t) == {e \in ListEntries : Belongs(k, t, e)}

(* They list SPIRE, and when that fails, delete nothing.                   *)
DeleteOwned(k, t, ok) ==
  /\ Outcome(ok)
  /\ Became(k, RemoveAll(k, t, IF ok THEN Owned(k, t) ELSE {}))

(* WorkloadIdentityReconciler.Reconcile.  When the object is gone the      *)
(* targeted reconciler gets an empty one, without name and spec: no entry  *)
(* belongs to it and the call ends.                                        *)
ReconcileWorkloadIdentity(i, ok) ==
  /\ Take("identity", i)
  /\ LET s == identities[i] IN
     IF s = Nil THEN DeleteOwned("identity", IdleTask, ok)
     ELSE /\ ok /\ UNCHANGED faults
          /\ BecameOne("identity", Advance("identity",
               [IdleTask EXCEPT !.name = i, !.spec = s,
                  !.todo = {<<i, s, c>> : c \in findMatchingClusters(s)}]))
  /\ UNCHANGED <<controllersEnv, connVars, spire>>

(* EKSClusterRegistryReconciler.Reconcile, likewise; there is no entry of  *)
(* and no connection to a cluster without name.  A disabled cluster is     *)
(* disconnected after its entries have been deleted.                       *)
ReconcileEKSCluster(c, ok) ==
  /\ Take("cluster", c)
  /\ LET reg == registry[c]
         t == [IdleTask EXCEPT !.name = c, !.spec = reg]
     IN IF reg # Nil /\ ~reg.enabled THEN DeleteOwned("cluster", t, ok)
        ELSE /\ ok /\ UNCHANGED faults
             /\ Became("cluster", IF reg = Nil THEN IdleTask ELSE [t EXCEPT !.pc = "connect"])
  /\ UNCHANGED <<controllersEnv, connVars, spire>>

(* AddOrUpdateCluster, and GetClusterConnection right after it: the worker *)
(* keeps the connection.                                                   *)
Connect(ok) ==
  /\ task["cluster"].pc = "connect"
  /\ Outcome(ok)
  /\ LET t == task["cluster"] IN
     /\ AddOrUpdateCluster(t.name, t.spec, ok, IdleListeners)
     /\ IF ok THEN BecameOne("cluster", Advance("cluster",
                     [t EXCEPT !.todo = {<<i, identities[i], t.name>> :
                                           i \in findIdentitiesForCluster(t.spec)}]))
              ELSE Became("cluster", IdleTask)
  /\ UNCHANGED <<controllersEnv, asked, spire>>

(* The node of the next pod, then reconcilePodEntry as in EnsureList.      *)
(* "node": the node cannot be read; "list": ListEntries fails.             *)
EnsureTaskList(k, x, result) ==
  /\ task[k].pc = "ensure" /\ x \in task[k].pods
  /\ Outcome(result = "ok")
  /\ LET t == task[k]
         rest == [t EXCEPT !.pods = @ \ {x}]
         e == Declaration(t.visit[1], t.visit[2], t.visit[3], x[1], x[2])
         found == IF result = "ok" THEN {y \in ListEntries : y.id = e.id} ELSE {}
         upToDate == found # {} /\ \A y \in found : getOutdatedEntryFields(e, y) = {}
     IN IF result = "node" \/ ~CanRender(t.visit[2]) \/ upToDate
          THEN BecameOne(k, Advance(k, rest))
          ELSE Became(k, [rest EXCEPT !.pc = "write", !.entry = e, !.found = found])
  /\ UNCHANGED <<controllersEnv, connVars, asked, spire>>

EnsureTaskWrite(k, ok) ==
  /\ task[k].pc = "write"
  /\ Outcome(ok)
  /\ \/ ~ok /\ UNCHANGED spire
     \/ ok /\ task[k].found = {} /\ CreateEntry(task[k].entry)
     \/ ok /\ task[k].found # {} /\ UpdateEntry(task[k].entry)
  /\ BecameOne(k, Advance(k, task[k]))
  /\ UNCHANGED <<controllersEnv, connVars, asked>>

(* cleanupOrphanedEntriesForIdentity and ...ForCluster: list SPIRE ...     *)
ListOrphans(k, ok) ==
  /\ task[k].pc = "listOrphans"
  /\ Outcome(ok)
  /\ LET listed == IF ok THEN Owned(k, task[k]) ELSE {} IN
     Became(k, IF listed = {} THEN IdleTask
               ELSE [task[k] EXCEPT !.pc = "select", !.found = listed])
  /\ UNCHANGED <<controllersEnv, connVars, asked, spire>>

(* ... then read the resources and the stores ...                          *)
SelectOrphans(k) ==
  /\ task[k].pc = "select"
  /\ LET valid == validPodUIDs(k, task[k]) IN
     Became(k, RemoveAll(k, task[k], {e \in task[k].found : ~OwnedBy(valid, e)}))
  /\ UNCHANGED <<controllersEnv, connVars, asked, faults, spire>>

(* ... then delete one by one.                                             *)
RemoveOrphan(k, e, ok) ==
  /\ task[k].pc = "remove" /\ e \in task[k].remove
  /\ Outcome(ok)
  /\ IF ok THEN DeleteEntry(e.id) ELSE UNCHANGED spire
  /\ Became(k, RemoveAll(k, task[k], task[k].remove \ {e}))
  /\ UNCHANGED <<controllersEnv, connVars, asked>>

Disconnect ==
  /\ task["cluster"].pc = "disconnect"
  /\ LET c == task["cluster"].name IN RemoveCluster(c) \/ (conn[c] = Nil /\ UNCHANGED connVars)
  /\ Became("cluster", IdleTask)
  /\ UNCHANGED <<controllersEnv, asked, faults, spire>>

Controller(k) ==
  \/ SelectOrphans(k)
  \/ k = "cluster" /\ Disconnect
  \/ \E x \in task[k].pods, result \in {"ok", "node", "list"} : EnsureTaskList(k, x, result)
  \/ \E ok \in BOOLEAN :
       \/ k = "identity" /\ \E i \in Identity : ReconcileWorkloadIdentity(i, ok)
       \/ k = "cluster" /\ \E c \in Cluster : ReconcileEKSCluster(c, ok)
       \/ k = "cluster" /\ Connect(ok)
       \/ EnsureTaskWrite(k, ok) \/ ListOrphans(k, ok)
       \/ \E e \in task[k].remove : RemoveOrphan(k, e, ok)

------------------------------------------------------------------------------
(* Writes wake the controller of the object: those of users, and at the    *)
(* end of a pass updateStatuses, which writes every object that has not    *)
(* changed since the pass listed it.                                       *)
Wake ==
  LET statuses == pc = "apply" /\ pc' = "idle"
      I == {i \in Identity : \/ identities'[i] # identities[i]
                             \/ statuses /\ idents[i] # Nil /\ idents[i] = identities[i]}
      C == {c \in Cluster : \/ registry'[c] # registry[c]
                            \/ statuses /\ clusters[c] # Nil /\ clusters[c] = registry[c]}
  IN asked' = asked \cup ({"identity"} \X I) \cup ({"cluster"} \X C)

(* The pass works through the connections it got from GetAllConnections,   *)
(* the cluster worker with the one it looked up.  When the other one stops *)
(* a connection, its holder goes on with the store and the registration as *)
(* they were.                                                              *)
Holds(h, c) ==
  IF h = "pass" THEN \E i \in Identity : <<c, i>> \in pending
  ELSE task["cluster"].name = c /\ task["cluster"].pc \in {"ensure", "write"}

Stopped(c) == conn[c] # Nil /\ (conn'[c] = Nil \/ conn'[c].reg.role # conn[c].reg.role)

KeepHeld ==
  held' = [x \in DOMAIN held |->
    IF ~Holds(x[1], x[2])' THEN Nil
    ELSE IF held[x] = Nil /\ Holds(x[1], x[2]) /\ Stopped(x[2]) THEN [reg |-> conn[x[2]].reg, pods |-> pods]
    ELSE held[x]]

(* ProcessCluster with a connection that has been stopped.                 *)
VisitedHeld(c, i) ==
  IF /\ shouldProcessIdentity(idents[i], held[<<"pass", c>>].reg)
     /\ ~isNamespaceIgnored(idents[i].namespace)
    THEN getMatchingPods(c, idents[i], held[<<"pass", c>>].pods)
    ELSE {}

ProcessHeld(c, i, skipped) ==
  /\ pc = "process" /\ <<c, i>> \in pending /\ held[<<"pass", c>>] # Nil
  /\ skipped \subseteq VisitedHeld(c, i)
  /\ faults + Cardinality(skipped) =< MaxFaults
  /\ faults' = faults + Cardinality(skipped)
  /\ pending' = pending \ {<<c, i>>}
  /\ declared' = AddDeclared(declared,
       {Declaration(i, idents[i], c, p, held[<<"pass", c>>].pods[p].label) :
          p \in {x \in VisitedHeld(c, i) \ skipped : CanRender(idents[i])}})
  /\ UNCHANGED <<passEnv, connVars, spire, pc, clusters, connecting, idents,
                 current, diffVars>>

Pass ==
  \/ FullPass /\ \A x \in pending : held[<<"pass", x[1]>>] # Nil => x \in pending'
  \/ \E c \in Cluster, i \in Identity, skipped \in SUBSET Pod : ProcessHeld(c, i, skipped)

------------------------------------------------------------------------------
ControllersNext ==
  /\ \/ Environment /\ UNCHANGED <<spire, job, passVars, task>> /\ Wake
     \/ Handler /\ UNCHANGED <<passVars, task, asked>>
     \/ Pass /\ UNCHANGED task /\ Wake
     \/ Restart /\ asked' = Existing /\ task' = [k \in Kind |-> IdleTask]
     \/ \E k \in Kind : Controller(k)
  /\ KeepHeld /\ UNCHANGED noise

ControllersSpec == Init /\ ControllersInit /\ [][ControllersNext]_resourcesVars

(* As in Registrar, and the two workers keep running.                      *)
ControllersFairSpec ==
  /\ ControllersSpec
  /\ WF_<<passVars, conn>>(Pass)
  /\ \A l \in Listener : WF_<<job, queue>>(Goroutine(l))
  /\ \A k \in Kind : WF_task(Controller(k))

-----------------------------------------------------------------------------
(* The clean-up after a targeted reconciliation deletes orphans only: no   *)
(* running pod is entitled to the entry ("Clean up orphaned entries").     *)
CleanupDeletesOnlyOrphans ==
  [][\A k \in Kind : task[k].pc = "remove" /\ task'[k] # task[k]
                     => WantedRemoved = {}]_resourcesVars

=============================================================================
