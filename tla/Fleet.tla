-------------------------------- MODULE Fleet --------------------------------
(***************************************************************************)
(* What the registrar watches: the WorkloadIdentity and EKSClusterRegistry *)
(* objects of the management cluster, the pods of the workload clusters,   *)
(* and the connections and pod informers internal/cluster/manager.go keeps *)
(* to those clusters.                                                      *)
(*                                                                         *)
(* pods is the pod as the informer of its cluster knows it: a watch event  *)
(* and the update of the informer's store are one step, so the store of a  *)
(* connected cluster is pods itself.  The event handler runs in one        *)
(* goroutine per connection (a Listener), which takes the notifications    *)
(* from its queue in order and can be arbitrarily far behind the store.    *)
(***************************************************************************)
EXTENDS SpireEntry, Integers

CONSTANTS
  Identity,           \* names of WorkloadIdentity objects
  Cluster,            \* names of EKSClusterRegistry objects
  Pod,                \* pod UIDs
  Listener,           \* goroutines that deliver informer events
  Label,              \* values of the label that selectors look at
  IdentitySpec,       \* specs a WorkloadIdentity may be given
  Registration,       \* specs an EKSClusterRegistry may be given
  Home,               \* the cluster of each pod
  NamespaceOf,        \* the namespace of each pod
  IgnoredNamespace,   \* namespaces matched by ignoreNamespaces
  MaxChanges,         \* bound on changes made by users and kubelets
  MaxFaults,          \* bound on failed remote calls and restarts
  MaxQueue            \* bound on pending notifications of a listener

(* An entry of Manager.clusters.                                           *)
Connection == [reg : Registration, listener : Listener]

ASSUME FleetAssumption ==
  /\ Home \in [Pod -> Cluster]
  /\ Nil \notin IdentitySpec /\ Nil \notin Registration /\ Nil \notin Listener
  /\ Nil \notin Connection
  /\ IsFiniteSet(Pod)
  /\ \A s \in IdentitySpec : /\ DOMAIN s = SpecFields
                               /\ s.selectors \in Seq(Selector)
  /\ MaxChanges \in Nat /\ MaxFaults \in Nat /\ MaxQueue \in Nat

VARIABLES
  identities,  \* Identity -> spec, or Nil when the object does not exist
  registry,    \* Cluster -> registration, or Nil
  pods,        \* Pod -> [phase, label]
  conn,        \* Cluster -> [reg, listener], or Nil: Manager.clusters
  queue,       \* Listener -> notifications not yet handled
  changes,     \* changes made so far
  faults       \* failures so far

resourceVars == <<identities, registry>>
connVars == <<conn, queue>>
fleetVars == <<identities, registry, pods, conn, queue, changes, faults>>

(* "ended" is every state after running in which the pod object still      *)
(* exists: Succeeded, Failed, or a DeletionTimestamp is set.               *)
Phase == {"absent", "pending", "running", "ended", "gone"}
PodState == [phase : Phase, label : Label]
Notification == [pod : Pod, phase : Phase, label : Label]

FleetTypeOK ==
  /\ identities \in [Identity -> IdentitySpec \cup {Nil}]
  /\ registry \in [Cluster -> Registration \cup {Nil}]
  /\ pods \in [Pod -> PodState]
  /\ conn \in [Cluster -> Connection \cup {Nil}]
  /\ queue \in [Listener -> Seq(Notification)]
  /\ changes \in 0..MaxChanges
  /\ faults \in 0..MaxFaults

(* The process starts beside whatever resources and pods there are.        *)
FleetInit ==
  /\ identities \in [Identity -> IdentitySpec \cup {Nil}]
  /\ registry \in [Cluster -> Registration \cup {Nil}]
  /\ pods \in [Pod -> [phase : {"absent", "pending", "running"}, label : Label]]
  /\ conn = [c \in Cluster |-> Nil]
  /\ queue = [l \in Listener |-> <<>>]
  /\ changes = 0
  /\ faults = 0

------------------------------------------------------------------------------
(* A remote call succeeds, or fails within the bound on failures.          *)
Outcome(ok) ==
  \/ ok /\ UNCHANGED faults
  \/ ~ok /\ faults < MaxFaults /\ faults' = faults + 1

Change == changes < MaxChanges /\ changes' = changes + 1

InStore(p) == pods[p].phase \notin {"absent", "gone"}
Stored(c) == {p \in Pod : Home[p] = c /\ InStore(p)}
NotificationOf(p, state) ==
  [pod |-> p, phase |-> state.phase, label |-> state.label]

(* Mutant: an update is dropped when an older one of its pod is pending.   *)
EnqueueOnce(q, n) ==
  IF \E k \in DOMAIN q : q[k].pod = n.pod THEN q ELSE Append(q, n)

(* processorListener.add: a notification joins the queue of its listener.  *)
Enqueue(q, n) == Append(q, n)

(* The informer of another cluster than c delivers to l.                   *)
OwnedByOther(l, c) == \E d \in Cluster \ {c} : conn[d] # Nil /\ conn[d].listener = l

------------------------------------------------------------------------------
(* Selection.  A nil ClusterSelector selects every cluster.  A nil         *)
(* PodSelector selects nothing where LabelSelectorAsSelector is applied to *)
(* it (getPodsFromInformer, getMatchingPods) and everything where it is    *)
(* tested for nil first (findMatchingIdentities).                          *)
shouldProcessIdentity(s, reg) ==
  s.clusterSelector = Nil \/ reg.labels \cap s.clusterSelector # {}

isNamespaceIgnored(n) == n \in IgnoredNamespace

SelectedByInformerList(s, p, label) ==
  /\ NamespaceOf[p] = s.namespace
  /\ s.podSelector # Nil
  /\ label \in s.podSelector

(* Mutant: the event path selects by namespace only.                       *)
SelectedByNamespace(s, p, label) == NamespaceOf[p] = s.namespace

SelectedByPodEvent(s, p, label) ==
  /\ NamespaceOf[p] = s.namespace
  /\ s.podSelector # Nil => label \in s.podSelector

(* Mutant: a pod that has only been accepted counts as running.            *)
EligibleEarly(state) == state.phase \in {"pending", "running"}

(* Running, not terminating, and scheduled.                                *)
Eligible(state) == state.phase = "running"

------------------------------------------------------------------------------
(* stopClusterConnection closes StopCh; pending notifications are lost.    *)
stopClusterConnection(c) ==
  IF conn[c] = Nil THEN queue ELSE [queue EXCEPT ![conn[c].listener] = <<>>]

(* Mutant: an existing connection is never looked at again.                *)
KeepConnection(c, reg, ok, free) ==
  \/ ok /\ (conn[c] # Nil \/ ~reg.enabled) /\ UNCHANGED connVars
  \/ /\ ok /\ conn[c] = Nil /\ reg.enabled
     /\ \E l \in free :
          /\ ~OwnedByOther(l, c)
          /\ conn' = [conn EXCEPT ![c] = [reg |-> reg, listener |-> l]]
          /\ UNCHANGED queue

(* Manager.AddOrUpdateCluster, with m.mu held.  An existing connection     *)
(* that reaches its cluster in the same way only gets the new              *)
(* registration, enabled or not; any other is stopped.  Then a disabled    *)
(* cluster is left without a connection; an enabled one is connected and   *)
(* its store filled (the events of the initial list are queued), or that   *)
(* fails.  The goroutine of the new connection is one of free: those whose *)
(* last event is handled.                                                  *)
AddOrUpdateCluster(c, reg, ok, free) ==
  \/ /\ ok /\ conn[c] # Nil /\ conn[c].reg.role = reg.role
     /\ conn' = [conn EXCEPT ![c] = [@ EXCEPT !.reg = reg]]
     /\ UNCHANGED queue
  \/ /\ conn[c] # Nil => conn[c].reg.role # reg.role
     /\ \/ /\ ok # reg.enabled
           /\ conn' = [conn EXCEPT ![c] = Nil]
           /\ queue' = stopClusterConnection(c)
        \/ /\ ok /\ reg.enabled
           /\ \E l \in free, order \in SetToSeqs(Stored(c)) :
                /\ ~OwnedByOther(l, c)
                /\ conn' = [conn EXCEPT ![c] = [reg |-> reg, listener |-> l]]
                /\ queue' = [stopClusterConnection(c) EXCEPT ![l] =
                     [k \in DOMAIN order |-> NotificationOf(order[k], pods[order[k]])]]

RemoveCluster(c) ==
  /\ conn[c] # Nil
  /\ queue' = stopClusterConnection(c)
  /\ conn' = [conn EXCEPT ![c] = Nil]

------------------------------------------------------------------------------
(* Users apply and delete the two kinds of resources.                      *)
ApplyIdentity(i, s) ==
  /\ Change /\ identities[i] # s
  /\ identities' = [identities EXCEPT ![i] = s]
  /\ UNCHANGED <<registry, pods, connVars, faults>>

DeleteIdentity(i) ==
  /\ Change /\ identities[i] # Nil
  /\ identities' = [identities EXCEPT ![i] = Nil]
  /\ UNCHANGED <<registry, pods, connVars, faults>>

ApplyRegistration(c, reg) ==
  /\ Change /\ registry[c] # reg
  /\ registry' = [registry EXCEPT ![c] = reg]
  /\ UNCHANGED <<identities, pods, connVars, faults>>

DeleteRegistration(c) ==
  /\ Change /\ registry[c] # Nil
  /\ registry' = [registry EXCEPT ![c] = Nil]
  /\ UNCHANGED <<identities, pods, connVars, faults>>

(* A pod object changes; the informer of a connected cluster notifies.     *)
PodBecomes(p, state) ==
  /\ Change
  /\ pods' = [pods EXCEPT ![p] = state]
  /\ IF conn[Home[p]] = Nil
       THEN UNCHANGED queue
       ELSE LET l == conn[Home[p]].listener IN
            /\ Len(queue[l]) < MaxQueue
            /\ queue' = [queue EXCEPT ![l] = Enqueue(@, NotificationOf(p, state))]
  /\ UNCHANGED <<resourceVars, conn, faults>>

(* A UID is never reused, and a pod never runs again after it ended.       *)
PhaseOrder == [absent |-> 0, pending |-> 1, running |-> 2, ended |-> 3, gone |-> 4]

MovePod(p, phase) ==
  /\ PhaseOrder[phase] > PhaseOrder[pods[p].phase]
  /\ phase = "gone" => InStore(p)
  /\ PodBecomes(p, [pods[p] EXCEPT !.phase = phase])

RelabelPod(p, label) ==
  /\ InStore(p) /\ label # pods[p].label
  /\ PodBecomes(p, [pods[p] EXCEPT !.label = label])

(* The informer's 30 s resync: an update notification for every pod of the *)
(* store.                                                                  *)
Resync(c) ==
  /\ conn[c] # Nil /\ Stored(c) # {}
  /\ LET l == conn[c].listener IN
     \E order \in SetToSeqs(Stored(c)) :
       /\ Len(queue[l]) + Len(order) =< MaxQueue
       /\ queue' = [queue EXCEPT ![l] = @ \o
            [k \in DOMAIN order |-> NotificationOf(order[k], pods[order[k]])]]
  /\ UNCHANGED <<resourceVars, pods, conn, changes, faults>>

Environment ==
  \/ \E i \in Identity, s \in IdentitySpec : ApplyIdentity(i, s)
  \/ \E i \in Identity : DeleteIdentity(i)
  \/ \E c \in Cluster, reg \in Registration : ApplyRegistration(c, reg)
  \/ \E c \in Cluster : DeleteRegistration(c)
  \/ \E p \in Pod, phase \in Phase : MovePod(p, phase)
  \/ \E p \in Pod, label \in Label : RelabelPod(p, label)
  \/ \E c \in Cluster : Resync(c)

==============================================================================
