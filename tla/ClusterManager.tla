---------------------------- MODULE ClusterManager ----------------------------
(***************************************************************************)
(* The connections to the workload clusters (internal/cluster/manager.go), *)
(* the cache of AWS clients behind them (internal/aws/client.go), and who  *)
(* contends for the manager's lock: the full passes of SharedReconciler,   *)
(* the worker of the EKSClusterRegistry controller, the pod event handlers *)
(* and the shutdown of the process.                                        *)
(*                                                                         *)
(* AddOrUpdateCluster keeps the lock while a new informer lists the pods   *)
(* of its cluster for the first time, which lasts until the cluster can be *)
(* reached.  A step under the lock is one action, except for that wait.    *)
(***************************************************************************)
EXTENDS SharedReconciler, FiniteSets

CONSTANTS
  Nil,            \* absent
  Cluster,        \* names of EKSClusterRegistry objects
  Informer,       \* pod informers
  Registration,   \* specs an EKSClusterRegistry may have
  MaxChanges,     \* bound on changes made by users
  MaxFaults,      \* bound on failed AWS calls
  MaxOutages      \* bound on outages of clusters

(* The two callers, the entries of m.clusters, the informers that run (the *)
(* role their client was made for), and who holds m.mu for which cluster.  *)
Caller == {"pass", "controller"}
Role == {reg.role : reg \in Registration}
Connection == [reg : Registration, informer : Informer]
Running == [role : Role, synced : BOOLEAN, event : BOOLEAN]
Holder == [by : Caller, cluster : Cluster]

(* Informers never run out: one more than can be in use.                   *)
ASSUME ManagerAssumption ==
  /\ IsFiniteSet(Cluster)
  /\ IsFiniteSet(Informer) /\ Cardinality(Informer) > Cardinality(Cluster)
  /\ \A reg \in Registration : reg.enabled \in BOOLEAN
  /\ Nil \notin Registration /\ Nil \notin Connection /\ Nil \notin Running
  /\ Nil \notin Holder
  /\ MaxChanges \in Nat /\ MaxFaults \in Nat /\ MaxOutages \in Nat

VARIABLES
  registry,   \* Cluster -> registration, or Nil
  conns,      \* Cluster -> [reg, informer], or Nil: Manager.clusters
  informers,  \* Informer -> [role, synced, event], or Nil when it does not run
  clients,    \* Cluster -> the role of its cached AWS client, or Nil: aws.Manager.clients
  lock,       \* [by, cluster]: who waits for its informer with Manager.mu, or Nil
  call,       \* Caller -> what it is about to do with the manager
  asked,      \* the work queue of the EKSClusterRegistry controller
  outages,    \* the roles under which no cluster can be reached now
  shut,       \* Shutdown has run
  counts      \* changes, faults and outages so far

managerVars == <<conns, informers, clients, lock>>
callVars == <<call, asked>>
worldVars == <<registry, outages>>
vars == <<loopVars, managerVars, callVars, worldVars, shut, counts>>

(* seen: the registrations as the caller read them; todo: the clusters it  *)
(* still has to add or to remove.                                          *)
NoCall == [pc |-> "idle", seen |-> [c \in Cluster |-> Nil], todo |-> {}]

Init ==
  /\ LoopInit
  /\ registry \in [Cluster -> Registration \cup {Nil}]
  /\ conns = [c \in Cluster |-> Nil]
  /\ informers = [f \in Informer |-> Nil]
  /\ clients = [c \in Cluster |-> Nil]
  /\ lock = Nil
  /\ call = [k \in Caller |-> NoCall]
  /\ asked = {c \in Cluster : registry[c] # Nil}
  /\ outages = {} /\ shut = FALSE
  /\ counts = [changes |-> 0, faults |-> 0, outages |-> 0]

Count(what, bound) ==
  counts[what] < bound /\ counts' = [counts EXCEPT ![what] = @ + 1]

------------------------------------------------------------------------------
(* Mutant: the connection is forgotten, but StopCh is not closed.          *)
forgetClusterConnection(c) == informers

(* Closes StopCh: the informer ends, and its handler with it.              *)
stopClusterConnection(c) ==
  IF conns[c] = Nil THEN informers ELSE [informers EXCEPT ![conns[c].informer] = Nil]

FreeInformers == {f \in Informer : informers[f] = Nil}

(* AddOrUpdateCluster or RemoveCluster returns to its caller.              *)
Returned(k, c) ==
  call' = [call EXCEPT ![k] = IF k = "controller" THEN NoCall
                              ELSE [call[k] EXCEPT !.todo = call[k].todo \ {c}]]

(* The role of the client GetClusterClient returns: the cache looks at the *)
(* name of the cluster only.                                               *)
CachedRole(c, reg) == IF clients[c] = Nil THEN reg.role ELSE clients[c]

(* GetClusterClient.  AWS is asked, and may fail, only without a cached    *)
(* client.                                                                 *)
GetClusterClient(c, reg, ok) ==
  \/ /\ ok
     /\ clients' = [clients EXCEPT ![c] = CachedRole(c, reg)]
     /\ UNCHANGED counts
  \/ /\ ~ok /\ clients[c] = Nil
     /\ Count("faults", MaxFaults)
     /\ UNCHANGED clients

Reaches(c, reg) == conns[c] # Nil /\ conns[c].reg.role = reg.role

AddOrUpdateCluster(k, c, ok) ==
  /\ lock = Nil /\ call[k].pc = "add" /\ c \in call[k].todo
  /\ LET reg == call[k].seen[c] IN
     \/ /\ Reaches(c, reg) /\ ok
        /\ conns' = [conns EXCEPT ![c].reg = reg]
        /\ Returned(k, c)
        /\ UNCHANGED <<informers, clients, lock, counts>>
     \/ /\ ~Reaches(c, reg) /\ ~reg.enabled /\ ok
        /\ conns' = [conns EXCEPT ![c] = Nil]
        /\ informers' = stopClusterConnection(c)
        /\ Returned(k, c)
        /\ UNCHANGED <<clients, lock, counts>>
     \/ /\ ~Reaches(c, reg) /\ reg.enabled /\ GetClusterClient(c, reg, ok)
        /\ IF ok
             THEN LET f == CHOOSE f \in FreeInformers : TRUE IN
                  /\ conns' = [conns EXCEPT ![c] = [reg |-> reg, informer |-> f]]
                  /\ informers' = [stopClusterConnection(c) EXCEPT ![f] =
                       [role |-> CachedRole(c, reg), synced |-> FALSE, event |-> FALSE]]
                  /\ lock' = [by |-> k, cluster |-> c]
                  /\ UNCHANGED call
             ELSE /\ conns' = [conns EXCEPT ![c] = Nil]
                  /\ informers' = stopClusterConnection(c)
                  /\ Returned(k, c)
                  /\ UNCHANGED lock
  /\ UNCHANGED <<loopVars, asked, worldVars, shut>>

(* Mutant: it waits for the HasSynced of the handler's registration, which *)
(* is true once the handler has seen the first list.                       *)
WaitForHandlerSync(k) ==
  /\ lock # Nil /\ lock.by = k
  /\ LET f == conns[lock.cluster].informer IN informers[f].synced /\ ~informers[f].event
  /\ lock' = Nil
  /\ Returned(k, lock.cluster)
  /\ UNCHANGED <<loopVars, conns, informers, clients, asked, worldVars, shut, counts>>

(* WaitForCacheSync returns; the lock is released.                         *)
WaitForCacheSync(k) ==
  /\ lock # Nil /\ lock.by = k
  /\ informers[conns[lock.cluster].informer].synced
  /\ lock' = Nil
  /\ Returned(k, lock.cluster)
  /\ UNCHANGED <<loopVars, conns, informers, clients, asked, worldVars, shut, counts>>

(* Mutant: the connection is removed without the lock.                     *)
RemoveClusterUnlocked(k, c) ==
  /\ call[k].pc = "remove" /\ c \in call[k].todo
  /\ conns' = [conns EXCEPT ![c] = Nil]
  /\ informers' = stopClusterConnection(c)
  /\ Returned(k, c)
  /\ UNCHANGED <<loopVars, clients, lock, asked, worldVars, shut, counts>>

RemoveCluster(k, c) ==
  /\ lock = Nil /\ call[k].pc = "remove" /\ c \in call[k].todo
  /\ conns' = [conns EXCEPT ![c] = Nil]
  /\ informers' = stopClusterConnection(c)
  /\ Returned(k, c)
  /\ UNCHANGED <<loopVars, clients, lock, asked, worldVars, shut, counts>>

Shutdown ==
  /\ cancelled /\ ~shut /\ lock = Nil
  /\ conns' = [c \in Cluster |-> Nil]
  /\ informers' = [f \in Informer |->
       IF \E c \in Cluster : conns[c] # Nil /\ conns[c].informer = f THEN Nil ELSE informers[f]]
  /\ shut' = TRUE
  /\ UNCHANGED <<loopVars, clients, lock, callVars, worldVars, counts>>

(* CleanupStaleClients, every 30 minutes: a client nobody has asked for in *)
(* that time, which may have passed between any two steps.                 *)
CleanupStaleClients(c) ==
  /\ clients[c] # Nil
  /\ clients' = [clients EXCEPT ![c] = Nil]
  /\ UNCHANGED <<loopVars, conns, informers, lock, callVars, worldVars, shut, counts>>

------------------------------------------------------------------------------
(* The informer has listed the pods for the first time; HasSynced is true  *)
(* and the events wait for the handler.                                    *)
Listed(f) ==
  /\ informers[f] # Nil /\ ~informers[f].synced /\ informers[f].role \notin outages
  /\ informers' = [informers EXCEPT ![f].synced = TRUE, ![f].event = TRUE]
  /\ UNCHANGED <<loopVars, conns, clients, lock, callVars, worldVars, shut, counts>>

(* handlePodChange takes the lock for reading.                             *)
handlePodChange(f) ==
  /\ informers[f] # Nil /\ informers[f].event /\ lock = Nil
  /\ informers' = [informers EXCEPT ![f].event = FALSE]
  /\ UNCHANGED <<loopVars, conns, clients, lock, callVars, worldVars, shut, counts>>

------------------------------------------------------------------------------
(* The pass lists the registrations, adds or updates each of them ...      *)
ListClusters ==
  /\ loop = "pass" /\ call["pass"].pc = "idle"
  /\ call' = [call EXCEPT !["pass"] =
       [pc |-> "add", seen |-> registry, todo |-> {c \in Cluster : registry[c] # Nil}]]
  /\ UNCHANGED <<loopVars, managerVars, asked, worldVars, shut, counts>>

(* Mutant: connections outlive their registrations.                        *)
NothingUnwanted(seen) == {}

Unwanted(seen) ==
  {c \in Cluster : conns[c] # Nil /\ ~(seen[c] # Nil /\ seen[c].enabled)}

(* ... and removes the connections that none of them asks for.             *)
GetAllConnections ==
  /\ lock = Nil /\ call["pass"].pc = "add" /\ call["pass"].todo = {}
  /\ call' = [call EXCEPT !["pass"].pc = "remove",
                          !["pass"].todo = Unwanted(call["pass"].seen)]
  /\ UNCHANGED <<loopVars, managerVars, asked, worldVars, shut, counts>>

(* The rest of the pass does not change connections.  Its status updates   *)
(* wake the controller.                                                    *)
EndPass ==
  /\ FinishPass
  /\ call["pass"].pc = "remove" /\ call["pass"].todo = {}
  /\ call' = [call EXCEPT !["pass"] = NoCall]
  /\ asked' = asked \cup {c \in Cluster : /\ call["pass"].seen[c] # Nil
                                         /\ call["pass"].seen[c] = registry[c]}
  /\ UNCHANGED <<managerVars, worldVars, shut, counts>>

(* ReconcileEKSCluster, as far as the manager is concerned.                *)
ReconcileEKSCluster(c) ==
  /\ call["controller"].pc = "idle" /\ c \in asked
  /\ asked' = asked \ {c}
  /\ call' = [call EXCEPT !["controller"] =
       IF registry[c] = Nil THEN NoCall
       ELSE [pc |-> IF registry[c].enabled THEN "add" ELSE "remove",
             seen |-> [NoCall.seen EXCEPT ![c] = registry[c]], todo |-> {c}]]
  /\ UNCHANGED <<loopVars, managerVars, worldVars, shut, counts>>

------------------------------------------------------------------------------
Apply(c, reg) ==
  /\ registry[c] # reg /\ Count("changes", MaxChanges)
  /\ registry' = [registry EXCEPT ![c] = reg]
  /\ asked' = asked \cup {c}
  /\ UNCHANGED <<loopVars, managerVars, call, outages, shut>>

Outage(r) ==
  /\ r \notin outages /\ Count("outages", MaxOutages)
  /\ outages' = outages \cup {r}
  /\ UNCHANGED <<loopVars, managerVars, callVars, registry, shut>>

Recover(r) ==
  /\ r \in outages
  /\ outages' = outages \ {r}
  /\ UNCHANGED <<loopVars, managerVars, callVars, registry, shut, counts>>

World ==
  \/ \E c \in Cluster, reg \in Registration \cup {Nil} : Apply(c, reg)
  \/ \E r \in Role : Outage(r) \/ Recover(r)

(* The goroutine of a caller.                                              *)
Manage(k) ==
  \/ \E c \in Cluster, ok \in BOOLEAN : AddOrUpdateCluster(k, c, ok)
  \/ WaitForCacheSync(k)
  \/ \E c \in Cluster : RemoveCluster(k, c)

Pass == ListClusters \/ Manage("pass") \/ GetAllConnections \/ EndPass
Controller == Manage("controller") \/ \E c \in Cluster : ReconcileEKSCluster(c)

elsewhere == <<managerVars, callVars, worldVars, shut, counts>>

(* Shutdown is the last thing main does.                                   *)
Next ==
  /\ ~shut
  /\ \/ (Trigger \/ Cancel \/ Loop) /\ UNCHANGED elsewhere
     \/ Pass \/ Controller
     \/ \E f \in Informer : Listed(f) \/ handlePodChange(f)
     \/ \E c \in Cluster : CleanupStaleClients(c)
     \/ Shutdown
     \/ World

Spec == Init /\ [][Next]_vars

(* Every goroutine keeps running and time passes.  sync.RWMutex serves     *)
(* whoever waits in the end, hence the strong fairness of what waits for   *)
(* it.  Outages end: an assumption, without which a caller may hold the    *)
(* lock for ever.                                                          *)
Alive(A) == ~shut /\ A

FairSpec ==
  /\ Spec
  /\ WF_vars(Alive(Loop /\ UNCHANGED elsewhere))
  /\ SF_vars(Alive(Pass)) /\ SF_vars(Alive(Controller)) /\ SF_vars(Shutdown)
  /\ \A f \in Informer : WF_vars(Alive(Listed(f)))
  /\ \A r \in Role : WF_vars(Alive(Recover(r)))

------------------------------------------------------------------------------
(* The shape of the manager's state and of its callers'; what is to be     *)
(* added was registered when the caller looked.                            *)
ManagerTypeOK ==
  /\ registry \in [Cluster -> Registration \cup {Nil}]
  /\ conns \in [Cluster -> Connection \cup {Nil}]
  /\ informers \in [Informer -> Running \cup {Nil}]
  /\ clients \in [Cluster -> Role \cup {Nil}]
  /\ lock \in Holder \cup {Nil}
  /\ call \in [Caller -> [pc : {"idle", "add", "remove"},
                          seen : [Cluster -> Registration \cup {Nil}],
                          todo : SUBSET Cluster]]
  /\ \A k \in Caller : call[k].pc = "add" =>
       \A c \in call[k].todo : call[k].seen[c] # Nil

(* The informers that run are those of the connections: none is left       *)
(* behind by an update, a removal or a shutdown, in whatever order the     *)
(* callers get the lock, and none is stopped under a connection.           *)
NoLeakedInformer ==
  /\ \A f \in Informer : informers[f] # Nil
        <=> \E c \in Cluster : conns[c] # Nil /\ conns[c].informer = f
  /\ \A c, d \in Cluster : conns[c] # Nil /\ conns[d] # Nil /\ c # d
        => conns[c].informer # conns[d].informer

(* Whoever waits with the lock waits for an informer that still runs and   *)
(* belongs to the connection it is adding: nobody else can stop it in the  *)
(* meantime, so that the wait ends when the cluster can be reached.        *)
WaitHasInformer ==
  lock # Nil =>
    /\ call[lock.by].pc = "add" /\ lock.cluster \in call[lock.by].todo
    /\ conns[lock.cluster] # Nil
    /\ informers[conns[lock.cluster].informer] # Nil

(* Two callers that each work from registrations they read earlier may     *)
(* undo each other's work, but once users and AWS come to rest every       *)
(* enabled cluster is connected under its registration and no other one    *)
(* is connected.                                                           *)
ConnectionsFollowRegistry ==
  <>[](cancelled \/ \A c \in Cluster :
         IF registry[c] # Nil /\ registry[c].enabled
           THEN conns[c] # Nil /\ conns[c].reg = registry[c]
           ELSE conns[c] = Nil)

(* Shutdown gets the lock, although a caller may be holding it for a       *)
(* cluster that cannot be reached at the time.                             *)
ShutdownCompletes == cancelled ~> shut

(* A connection reaches its cluster the way its registration says: when    *)
(* the role changes the manager says "Cluster configuration changed,       *)
(* reconnecting".                                                          *)
ConnectedAsRegistered ==
  \A c \in Cluster : conns[c] # Nil =>
    informers[conns[c].informer].role = conns[c].reg.role

==============================================================================
