--------------------------- MODULE MainReconciler ---------------------------
(***************************************************************************)
(* The full pass, reconcileAll of internal/controller/main_reconciler.go:  *)
(* bring the cluster connections up to date, read the identities and the   *)
(* SPIRE entries, compute the declared entries from the informer stores,   *)
(* apply the difference.  One step per remote call or per lock section.    *)
(***************************************************************************)
EXTENDS PodHandler, EntriesState

VARIABLES
  pc,          \* where the pass is; "idle" between passes
  clusters,    \* the EKSClusterRegistry objects the pass listed
  connecting,  \* clusters still to go through AddOrUpdateCluster
  idents,      \* the WorkloadIdentity objects the pass listed
  current,     \* managed entries found in SPIRE
  declared,    \* entries wanted there
  pending,     \* <<cluster, identity>> pairs still to be processed
  toCreate, toUpdate, toDelete    \* entry changes still to be applied

stateVars == <<current, declared, pending>>
diffVars == <<toCreate, toUpdate, toDelete>>
passVars == <<pc, clusters, connecting, idents, stateVars, diffVars>>
passEnv == <<resourceVars, pods, changes, job>>

NoClusters == [c \in Cluster |-> Nil]
NoIdentities == [i \in Identity |-> Nil]

PassCleared ==
  /\ pc = "idle"
  /\ clusters = NoClusters /\ connecting = {}
  /\ idents = NoIdentities
  /\ current = {} /\ declared = {} /\ pending = {}
  /\ toCreate = {} /\ toUpdate = {} /\ toDelete = {}

(* Return from reconcileAll: its locals are gone.                          *)
Return ==
  /\ pc' = "idle"
  /\ clusters' = NoClusters /\ connecting' = {}
  /\ idents' = NoIdentities
  /\ current' = {} /\ declared' = {} /\ pending' = {}
  /\ toCreate' = {} /\ toUpdate' = {} /\ toDelete' = {}

MainInit == PassCleared

(* The ticker or a trigger starts a pass, which lists the clusters.  (When *)
(* that fails the pass returns having done nothing.)                       *)
ListClusters ==
  /\ pc = "idle"
  /\ pc' = "connect"
  /\ clusters' = registry
  /\ connecting' = {c \in Cluster : registry[c] # Nil}
  /\ UNCHANGED <<passEnv, connVars, faults, spire, idents, stateVars, diffVars>>

ConnectCluster(c, ok) ==
  /\ pc = "connect" /\ c \in connecting
  /\ AddOrUpdateCluster(c, clusters[c], ok, IdleListeners)
  /\ Outcome(ok)
  /\ connecting' = connecting \ {c}
  /\ UNCHANGED <<passEnv, spire, pc, clusters, idents, stateVars, diffVars>>

Unwanted(c) == conn[c] # Nil /\ ~(clusters[c] # Nil /\ clusters[c].enabled)

PruneCluster(c) ==
  /\ pc = "connect" /\ connecting = {} /\ Unwanted(c)
  /\ RemoveCluster(c)
  /\ UNCHANGED <<passEnv, faults, spire, passVars>>

ListIdentities(ok) ==
  /\ pc = "connect" /\ connecting = {} /\ \A c \in Cluster : ~Unwanted(c)
  /\ Outcome(ok)
  /\ IF ok
       THEN /\ pc' = "entries" /\ idents' = identities
            /\ UNCHANGED <<clusters, connecting, stateVars, diffVars>>
       ELSE Return
  /\ UNCHANGED <<passEnv, connVars, spire>>

(* ListEntries, the filter on the ID prefix, and GetAllConnections.        *)
ListCurrent(ok) ==
  /\ pc = "entries"
  /\ Outcome(ok)
  /\ IF ok
       THEN /\ pc' = "process"
            /\ current' = AddCurrent({}, {e \in ListEntries : shouldProcessEntry(e)})
            /\ pending' = {x \in Cluster \X Identity :
                             conn[x[1]] # Nil /\ idents[x[2]] # Nil}
            /\ UNCHANGED <<clusters, connecting, idents, declared, diffVars>>
       ELSE Return
  /\ UNCHANGED <<passEnv, connVars, spire>>

(* The pods of getPodsFromInformer that are running, not terminating and   *)
(* scheduled: those whose node processWorkloadIdentity asks for.           *)
getPodsFromInformer(c, s) ==
  {p \in Stored(c) : SelectedByInformerList(s, p, pods[p].label) /\ Eligible(pods[p])}

(* Mutant: the cluster selector is not looked at.                          *)
VisitedAnywhere(c, i) ==
  IF isNamespaceIgnored(idents[i].namespace) THEN {}
  ELSE getPodsFromInformer(c, idents[i])

Visited(c, i) ==
  IF /\ conn[c] # Nil
     /\ shouldProcessIdentity(idents[i], conn[c].reg)
     /\ ~isNamespaceIgnored(idents[i].namespace)
    THEN getPodsFromInformer(c, idents[i])
    ELSE {}

processWorkloadIdentity(c, i, skipped) ==
  {Declaration(i, idents[i], c, p, pods[p].label) :
     p \in {x \in Visited(c, i) \ skipped : CanRender(idents[i])}}

(* One identity of processCluster.  A pod whose node cannot be read is     *)
(* skipped: nothing is declared for it.                                    *)
ProcessCluster(c, i, skipped) ==
  /\ pc = "process" /\ <<c, i>> \in pending
  /\ skipped \subseteq Visited(c, i)
  /\ faults + Cardinality(skipped) =< MaxFaults
  /\ faults' = faults + Cardinality(skipped)
  /\ pending' = pending \ {<<c, i>>}
  /\ declared' = AddDeclared(declared, processWorkloadIdentity(c, i, skipped))
  /\ UNCHANGED <<passEnv, connVars, spire, pc, clusters, connecting, idents,
                 current, diffVars>>

(* Mutant: SPIRE is listed after the informer stores have been read.       *)
GetChangesOfLateList ==
  LET late == {e \in ListEntries : shouldProcessEntry(e)} IN
  /\ pc = "process" /\ pending = {}
  /\ pc' = "apply"
  /\ toCreate' = toCreateOf(late, declared)
  /\ toUpdate' = toUpdateOf(late, declared)
  /\ toDelete' = toDeleteOf(late, declared)
  /\ UNCHANGED <<passEnv, connVars, faults, spire, clusters, connecting, idents,
                 stateVars>>

GetChanges ==
  /\ pc = "process" /\ pending = {}
  /\ pc' = "apply"
  /\ toCreate' = toCreateOf(current, declared)
  /\ toUpdate' = toUpdateOf(current, declared)
  /\ toDelete' = toDeleteOf(current, declared)
  /\ UNCHANGED <<passEnv, connVars, faults, spire, clusters, connecting, idents,
                 stateVars>>

(* applyEntryChanges: all deletes, then all creates, then all updates.  A  *)
(* failure is logged and the loop goes on.                                 *)
ApplyDelete(e, ok) ==
  /\ pc = "apply" /\ e \in toDelete
  /\ Outcome(ok)
  /\ IF ok THEN DeleteEntry(e.id) ELSE UNCHANGED spire
  /\ toDelete' = toDelete \ {e}
  /\ UNCHANGED <<passEnv, connVars, pc, clusters, connecting, idents, stateVars,
                 toCreate, toUpdate>>

ApplyCreate(e, ok) ==
  /\ pc = "apply" /\ toDelete = {} /\ e \in toCreate
  /\ Outcome(ok)
  /\ IF ok THEN CreateEntry(e) ELSE UNCHANGED spire
  /\ toCreate' = toCreate \ {e}
  /\ UNCHANGED <<passEnv, connVars, pc, clusters, connecting, idents, stateVars,
                 toUpdate, toDelete>>

ApplyUpdate(e, ok) ==
  /\ pc = "apply" /\ toDelete = {} /\ toCreate = {} /\ e \in toUpdate
  /\ Outcome(ok)
  /\ IF ok THEN UpdateEntry(e) ELSE UNCHANGED spire
  /\ toUpdate' = toUpdate \ {e}
  /\ UNCHANGED <<passEnv, connVars, pc, clusters, connecting, idents, stateVars,
                 toCreate, toDelete>>

Applied == pc = "apply" /\ toDelete = {} /\ toCreate = {} /\ toUpdate = {}

(* updateStatuses writes resource statuses only, then the pass is over.    *)
EndPass ==
  /\ Applied
  /\ Return
  /\ UNCHANGED <<passEnv, connVars, faults, spire>>

FullPass ==
  \/ ListClusters
  \/ \E c \in Cluster, ok \in BOOLEAN : ConnectCluster(c, ok)
  \/ \E c \in Cluster : PruneCluster(c)
  \/ \E ok \in BOOLEAN : ListIdentities(ok) \/ ListCurrent(ok)
  \/ \E c \in Cluster, i \in Identity, skipped \in SUBSET Pod :
       ProcessCluster(c, i, skipped)
  \/ GetChanges
  \/ \E ok \in BOOLEAN : \/ \E e \in toDelete : ApplyDelete(e, ok)
                         \/ \E e \in toCreate : ApplyCreate(e, ok)
                         \/ \E e \in toUpdate : ApplyUpdate(e, ok)
  \/ EndPass

=============================================================================
