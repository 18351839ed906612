------------------------- MODULE ClusterManagerProofs -------------------------
(***************************************************************************)
(* The informers that run are those of the connections, and whoever waits  *)
(* with the manager's lock waits for one of them (NoLeakedInformer and     *)
(* WaitHasInformer of ClusterManager).  With the types of the state both   *)
(* are inductive together.  A step changes connections and informers in    *)
(* one of three ways, each with a lemma: it disconnects a cluster, it      *)
(* connects one, or it changes neither which informers run nor whose they  *)
(* are.  That a free informer is found is the pigeonhole principle.        *)
(***************************************************************************)
EXTENDS ClusterManager, TLAPS, FiniteSetTheorems

(* There are more informers than connections.                              *)
LEMMA SomeInformerFree ==
  ASSUME ManagerTypeOK, NoLeakedInformer
  PROVE  FreeInformers # {}
<1> SUFFICES ASSUME FreeInformers = {} PROVE FALSE
  OBVIOUS
<1> DEFINE user == [f \in Informer |->
             CHOOSE c \in Cluster : conns[c] # Nil /\ conns[c].informer = f]
<1>1. \A f \in Informer :
        user[f] \in Cluster /\ conns[user[f]] # Nil /\ conns[user[f]].informer = f
  BY DEF FreeInformers, NoLeakedInformer
<1>2. user \in [Informer -> Cluster]
  BY <1>1
<1>3. \A f, g \in Informer : user[f] = user[g] => f = g
  BY <1>1
<1> HIDE DEF user
<1>4. Cardinality(Cluster) < Cardinality(Informer)
  BY ManagerAssumption, FS_CardinalityType
<1> QED
  BY <1>2, <1>3, <1>4, ManagerAssumption, FS_PigeonHole

------------------------------------------------------------------------------
(* A connection is dropped and its informer stopped.                       *)
LEMMA Disconnect ==
  ASSUME ManagerTypeOK, NoLeakedInformer, NEW c \in Cluster,
         conns' = [conns EXCEPT ![c] = Nil], informers' = stopClusterConnection(c)
  PROVE  /\ NoLeakedInformer'
         /\ conns' \in [Cluster -> Connection \cup {Nil}]
         /\ informers' \in [Informer -> Running \cup {Nil}]
<1>1. conns[c] # Nil => conns[c].informer \in Informer
  BY DEF ManagerTypeOK, Connection
<1>2. \A d \in Cluster : conns'[d] = IF d = c THEN Nil ELSE conns[d]
  BY DEF ManagerTypeOK
<1>3. \A f \in Informer : informers'[f] =
        IF conns[c] # Nil /\ conns[c].informer = f THEN Nil ELSE informers[f]
  BY <1>1 DEF ManagerTypeOK, stopClusterConnection
<1>4. NoLeakedInformer'
  BY <1>2, <1>3 DEF NoLeakedInformer
<1>5. /\ conns' \in [Cluster -> Connection \cup {Nil}]
      /\ informers' \in [Informer -> Running \cup {Nil}]
  BY <1>1 DEF ManagerTypeOK, stopClusterConnection
<1> QED
  BY <1>4, <1>5

(* A cluster is connected with an informer that did not run, in place of   *)
(* the connection it may have had.                                         *)
LEMMA Connect ==
  ASSUME ManagerTypeOK, NoLeakedInformer, NEW c \in Cluster,
         NEW reg \in Registration, NEW f \in FreeInformers, NEW run \in Running,
         conns' = [conns EXCEPT ![c] = [reg |-> reg, informer |-> f]],
         informers' = [stopClusterConnection(c) EXCEPT ![f] = run]
  PROVE  /\ NoLeakedInformer'
         /\ conns' \in [Cluster -> Connection \cup {Nil}]
         /\ informers' \in [Informer -> Running \cup {Nil}]
         /\ conns'[c] # Nil /\ informers'[conns'[c].informer] # Nil
<1> DEFINE new == [reg |-> reg, informer |-> f]
<1>0. f \in Informer /\ informers[f] = Nil
  BY DEF FreeInformers
<1>1. new \in Connection /\ new # Nil /\ new.informer = f /\ run # Nil
  BY <1>0, ManagerAssumption DEF Connection
<1> HIDE DEF new
<1>2. conns[c] # Nil => conns[c].informer \in Informer
  BY DEF ManagerTypeOK, Connection
<1>3. \A d \in Cluster : conns'[d] = IF d = c THEN new ELSE conns[d]
  BY DEF ManagerTypeOK, new
<1>4. \A g \in Informer : informers'[g] =
        IF g = f THEN run
        ELSE IF conns[c] # Nil /\ conns[c].informer = g THEN Nil ELSE informers[g]
  BY <1>2 DEF ManagerTypeOK, stopClusterConnection
<1>5. \A d \in Cluster : conns[d] # Nil => conns[d].informer # f
  BY <1>0 DEF NoLeakedInformer
<1>6. NoLeakedInformer'
  BY <1>0, <1>1, <1>3, <1>4, <1>5 DEF NoLeakedInformer
<1>7. /\ conns' \in [Cluster -> Connection \cup {Nil}]
      /\ informers' \in [Informer -> Running \cup {Nil}]
  BY <1>0, <1>1, <1>2 DEF ManagerTypeOK, stopClusterConnection, new
<1> QED
  BY <1>0, <1>1, <1>3, <1>4, <1>6, <1>7

(* Informers and connections go on with other contents.                    *)
LEMMA Unaffected ==
  ASSUME NoLeakedInformer,
         \A c \in Cluster : /\ conns'[c] = Nil <=> conns[c] = Nil
                            /\ conns[c] # Nil => conns'[c].informer = conns[c].informer,
         \A f \in Informer : informers'[f] = Nil <=> informers[f] = Nil
  PROVE  NoLeakedInformer'
BY DEF NoLeakedInformer

------------------------------------------------------------------------------
(* What is added or removed stays what the caller read, and the caller     *)
(* that holds the lock is not the one that returns.                        *)
LEMMA ReturnedType ==
  ASSUME ManagerTypeOK, NEW k \in Caller, NEW c \in Cluster, Returned(k, c)
  PROVE  /\ call' \in [Caller -> [pc : {"idle", "add", "remove"},
                                  seen : [Cluster -> Registration \cup {Nil}],
                                  todo : SUBSET Cluster]]
         /\ \A j \in Caller : call'[j].pc = "add" =>
              \A d \in call'[j].todo : call'[j].seen[d] # Nil
<1> DEFINE Request == [pc : {"idle", "add", "remove"},
                       seen : [Cluster -> Registration \cup {Nil}], todo : SUBSET Cluster]
           old == call[k]
           new == IF k = "controller" THEN NoCall ELSE [old EXCEPT !.todo = old.todo \ {c}]
<1>1. old \in Request /\ call \in [Caller -> Request]
  BY DEF ManagerTypeOK
<1>2. call' = [call EXCEPT ![k] = new]
  BY DEF Returned
<1>3. new \in Request /\ (new.pc = "add" => \A d \in new.todo : new.seen[d] # Nil)
  <2>1. NoCall \in Request /\ NoCall.pc = "idle"
    BY DEF NoCall
  <2>2. old.pc = "add" => \A d \in old.todo : old.seen[d] # Nil
    BY DEF ManagerTypeOK
  <2> HIDE DEF old
  <2> QED
    BY <1>1, <2>1, <2>2
<1> HIDE DEF new, old
<1> QED
  BY <1>1, <1>2, <1>3 DEF ManagerTypeOK

(* What the three invariants say together.                                 *)
ManagerInv == ManagerTypeOK /\ NoLeakedInformer /\ WaitHasInformer

(* An informer that is unaffected can still be waited for.                 *)
LEMMA WaitUnaffected ==
  ASSUME ManagerInv, lock' = lock, call' = call, conns' = conns,
         \A f \in Informer : informers'[f] = Nil <=> informers[f] = Nil
  PROVE  WaitHasInformer'
<1>1. lock # Nil => lock.cluster \in Cluster
  BY DEF ManagerInv, ManagerTypeOK, Holder
<1>2. lock # Nil => conns[lock.cluster].informer \in Informer
  BY <1>1 DEF ManagerInv, ManagerTypeOK, WaitHasInformer, Connection
<1> QED
  BY <1>2 DEF ManagerInv, WaitHasInformer

(* AddOrUpdateCluster, in its four outcomes.                               *)
LEMMA AddOrUpdateStep ==
  ASSUME ManagerInv, NEW k \in Caller, NEW c \in Cluster, NEW ok \in BOOLEAN,
         AddOrUpdateCluster(k, c, ok)
  PROVE  ManagerInv'
<1> USE DEF ManagerInv
<1> DEFINE reg == call[k].seen[c]
<1>1. lock = Nil /\ call[k].pc = "add" /\ c \in call[k].todo /\ registry' = registry
  BY DEF AddOrUpdateCluster, worldVars
<1>2. reg \in Registration
  BY <1>1 DEF ManagerTypeOK
<1>3. CASE /\ Reaches(c, reg) /\ conns' = [conns EXCEPT ![c].reg = reg]
           /\ Returned(k, c) /\ UNCHANGED <<informers, clients, lock, counts>>
  <2>1. conns[c] \in Connection /\ conns[c] # Nil
    BY <1>3 DEF Reaches, ManagerTypeOK
  <2> DEFINE new == [conns[c] EXCEPT !.reg = reg]
  <2>2. new \in Connection /\ new # Nil /\ new.informer = conns[c].informer
    BY <1>2, <2>1, ManagerAssumption DEF Connection
  <2>3. conns' = [conns EXCEPT ![c] = new]
    BY <1>3
  <2> HIDE DEF new
  <2>4. NoLeakedInformer'
    BY <1>3, <2>1, <2>2, <2>3, Unaffected DEF ManagerTypeOK
  <2> HIDE DEF reg
  <2>5. ManagerTypeOK'
    BY <1>1, <1>3, <2>2, <2>3, ReturnedType DEF ManagerTypeOK
  <2> QED
    BY <1>1, <1>3, <2>4, <2>5 DEF WaitHasInformer
<1>4. CASE /\ conns' = [conns EXCEPT ![c] = Nil] /\ informers' = stopClusterConnection(c)
           /\ Returned(k, c) /\ lock' = lock
           /\ clients' \in [Cluster -> Role \cup {Nil}]
  <2>1. /\ NoLeakedInformer'
        /\ conns' \in [Cluster -> Connection \cup {Nil}]
        /\ informers' \in [Informer -> Running \cup {Nil}]
    BY <1>4, Disconnect
  <2>2. ManagerTypeOK'
    BY <1>1, <1>4, <2>1, ReturnedType DEF ManagerTypeOK
  <2> QED
    BY <1>1, <1>4, <2>1, <2>2 DEF WaitHasInformer
<1>5. CASE ~Reaches(c, reg) /\ reg.enabled /\ GetClusterClient(c, reg, ok) /\ ok
  <2> DEFINE f == CHOOSE f \in FreeInformers : TRUE
             role == CachedRole(c, reg)
             run == [role |-> role, synced |-> FALSE, event |-> FALSE]
  <2>1. f \in FreeInformers
    BY SomeInformerFree
  <2>2. role \in Role
    BY <1>2 DEF CachedRole, ManagerTypeOK, Role
  <2>3. clients' \in [Cluster -> Role \cup {Nil}]
    BY <1>5, <2>2 DEF GetClusterClient, ManagerTypeOK
  <2>4. /\ conns' = [conns EXCEPT ![c] = [reg |-> reg, informer |-> f]]
        /\ informers' = [stopClusterConnection(c) EXCEPT ![f] = run]
        /\ lock' = [by |-> k, cluster |-> c] /\ call' = call
    BY <1>5 DEF AddOrUpdateCluster, Reaches
  <2>5. run \in Running
    BY <2>2 DEF Running
  <2> HIDE DEF f, role, run, reg
  <2>6. /\ NoLeakedInformer'
        /\ conns' \in [Cluster -> Connection \cup {Nil}]
        /\ informers' \in [Informer -> Running \cup {Nil}]
        /\ conns'[c] # Nil /\ informers'[conns'[c].informer] # Nil
    BY <1>2, <2>1, <2>4, <2>5, Connect
  <2>7. lock' \in Holder /\ lock'.by = k /\ lock'.cluster = c
    BY <2>4 DEF Holder
  <2>8. ManagerTypeOK'
    BY <1>1, <2>3, <2>4, <2>6, <2>7 DEF ManagerTypeOK
  <2> QED
    BY <1>1, <2>4, <2>6, <2>7, <2>8 DEF WaitHasInformer
<1> QED
  <2>1. clients' = clients => clients' \in [Cluster -> Role \cup {Nil}]
    BY DEF ManagerTypeOK
  <2>2. CASE ~Reaches(c, reg) /\ reg.enabled /\ GetClusterClient(c, reg, ok) /\ ~ok
    BY <1>4, <2>1, <2>2 DEF AddOrUpdateCluster, GetClusterClient, Reaches
  <2>3. CASE ~Reaches(c, reg) /\ ~reg.enabled
    BY <1>4, <2>1, <2>3 DEF AddOrUpdateCluster, Reaches
  <2>4. CASE Reaches(c, reg)
    BY <1>3, <2>4 DEF AddOrUpdateCluster
  <2> QED
    BY <1>5, <2>2, <2>3, <2>4 DEF AddOrUpdateCluster

(* The other steps that hold or take the lock.                             *)
LEMMA LockStep ==
  ASSUME ManagerInv,
         \/ \E k \in Caller : WaitForCacheSync(k) \/ \E c \in Cluster : RemoveCluster(k, c)
         \/ Shutdown
  PROVE  ManagerInv'
<1> USE DEF ManagerInv
<1>1. ASSUME NEW k \in Caller, WaitForCacheSync(k) PROVE ManagerInv'
  <2>1. lock.cluster \in Cluster /\ Returned(k, lock.cluster) /\ lock' = Nil
    BY <1>1 DEF WaitForCacheSync, ManagerTypeOK, Holder
  <2>2. ManagerTypeOK'
    BY <1>1, <2>1, ReturnedType DEF WaitForCacheSync, ManagerTypeOK, worldVars
  <2>3. NoLeakedInformer'
    BY <1>1 DEF WaitForCacheSync, NoLeakedInformer
  <2> QED
    BY <2>1, <2>2, <2>3 DEF WaitHasInformer
<1>2. ASSUME NEW k \in Caller, NEW c \in Cluster, RemoveCluster(k, c) PROVE ManagerInv'
  <2>1. /\ NoLeakedInformer'
        /\ conns' \in [Cluster -> Connection \cup {Nil}]
        /\ informers' \in [Informer -> Running \cup {Nil}]
    BY <1>2, Disconnect DEF RemoveCluster
  <2>2. ManagerTypeOK'
    BY <1>2, <2>1, ReturnedType DEF RemoveCluster, ManagerTypeOK, worldVars
  <2> QED
    BY <1>2, <2>1, <2>2 DEF RemoveCluster, WaitHasInformer
<1>3. CASE Shutdown
  <2>1. ManagerTypeOK'
    BY <1>3 DEF Shutdown, ManagerTypeOK, worldVars, callVars
  <2>2. NoLeakedInformer'
    BY <1>3 DEF Shutdown, NoLeakedInformer
  <2> QED
    BY <1>3, <2>1, <2>2 DEF Shutdown, WaitHasInformer
<1> QED
  BY <1>1, <1>2, <1>3

(* What informers and the cache of clients do by themselves.               *)
LEMMA InformerStep ==
  ASSUME ManagerInv,
         \/ \E f \in Informer : Listed(f) \/ handlePodChange(f)
         \/ \E c \in Cluster : CleanupStaleClients(c)
  PROVE  ManagerInv'
<1> USE DEF ManagerInv
<1>1. ASSUME NEW c \in Cluster, CleanupStaleClients(c) PROVE ManagerInv'
  BY <1>1 DEF CleanupStaleClients, ManagerTypeOK, NoLeakedInformer, WaitHasInformer,
              worldVars, callVars
<1>2. ASSUME NEW f \in Informer, Listed(f) \/ handlePodChange(f) PROVE ManagerInv'
  <2>1. informers[f] \in Running /\ informers[f] # Nil
    BY <1>2 DEF Listed, handlePodChange, ManagerTypeOK
  <2>2. PICK new \in Running : informers' = [informers EXCEPT ![f] = new]
    <3>1. /\ [informers[f] EXCEPT !.synced = TRUE, !.event = TRUE] \in Running
          /\ [informers[f] EXCEPT !.event = FALSE] \in Running
      BY <2>1 DEF Running
    <3> QED
      BY <1>2, <3>1 DEF Listed, handlePodChange
  <2>3. UNCHANGED <<conns, clients, lock, call, registry>>
    BY <1>2 DEF Listed, handlePodChange, callVars, worldVars
  <2>4. \A g \in Informer : informers'[g] = Nil <=> informers[g] = Nil
    BY <2>1, <2>2, ManagerAssumption DEF ManagerTypeOK
  <2>5. ManagerTypeOK'
    BY <2>2, <2>3 DEF ManagerTypeOK
  <2>6. NoLeakedInformer'
    BY <2>3, <2>4, Unaffected
  <2>7. WaitHasInformer'
    BY <2>3, <2>4, WaitUnaffected
  <2> QED
    BY <2>5, <2>6, <2>7
<1> QED
  BY <1>1, <1>2

(* A caller that begins something new holds no lock.                       *)
LEMMA CallStep ==
  ASSUME ManagerInv, NEW k \in Caller,
         NEW new \in [pc : {"idle", "add", "remove"},
                      seen : [Cluster -> Registration \cup {Nil}], todo : SUBSET Cluster],
         new.pc = "add" => \A d \in new.todo : new.seen[d] # Nil,
         call' = [call EXCEPT ![k] = new], UNCHANGED <<managerVars, registry>>,
         lock # Nil => call[k].pc # "add" \/ call[k].todo = {}
  PROVE  ManagerInv'
<1> USE DEF ManagerInv
<1>1. ManagerTypeOK'
  BY DEF ManagerTypeOK, managerVars
<1>2. NoLeakedInformer'
  BY DEF NoLeakedInformer, managerVars
<1>3. lock # Nil => lock.by # k /\ lock.by \in Caller
  BY DEF WaitHasInformer, ManagerTypeOK, Holder
<1>4. WaitHasInformer'
  BY <1>3 DEF WaitHasInformer, managerVars, ManagerTypeOK
<1> QED
  BY <1>1, <1>2, <1>4

(* The pass's and the controller's steps between calls of the manager.     *)
LEMMA CallerStep ==
  ASSUME ManagerInv,
         \/ ListClusters \/ GetAllConnections \/ EndPass
         \/ \E c \in Cluster : ReconcileEKSCluster(c)
  PROVE  ManagerInv'
<1> DEFINE Request == [pc : {"idle", "add", "remove"},
                       seen : [Cluster -> Registration \cup {Nil}], todo : SUBSET Cluster]
<1>0. /\ "pass" \in Caller /\ "controller" \in Caller
      /\ NoCall \in Request /\ NoCall.pc = "idle"
      /\ registry \in [Cluster -> Registration \cup {Nil}]
  BY DEF Caller, NoCall, ManagerInv, ManagerTypeOK
<1>1. CASE ListClusters
  <2> DEFINE new == [pc |-> "add", seen |-> registry, todo |-> {d \in Cluster : registry[d] # Nil}]
  <2>1. call' = [call EXCEPT !["pass"] = new] /\ call["pass"].pc = "idle"
    BY <1>1 DEF ListClusters
  <2>2. new \in Request /\ \A d \in new.todo : new.seen[d] # Nil
    BY <1>0
  <2> HIDE DEF new
  <2> QED
    BY <1>0, <1>1, <2>1, <2>2, CallStep DEF ListClusters, worldVars
<1>2. CASE GetAllConnections
  <2> DEFINE old == call["pass"]
             new == [old EXCEPT !.pc = "remove", !.todo = Unwanted(old.seen)]
  <2>1. call' = [call EXCEPT !["pass"] = new] /\ lock = Nil
    BY <1>2 DEF GetAllConnections
  <2>2. old \in Request
    BY <1>0 DEF ManagerInv, ManagerTypeOK
  <2>3. new \in Request /\ new.pc = "remove"
    BY <2>2 DEF Unwanted
  <2> HIDE DEF new
  <2> QED
    BY <1>0, <1>2, <2>1, <2>3, CallStep DEF GetAllConnections, worldVars
<1>3. CASE EndPass
  BY <1>0, <1>3, CallStep DEF EndPass, worldVars
<1>4. ASSUME NEW c \in Cluster, ReconcileEKSCluster(c) PROVE ManagerInv'
  <2> DEFINE new == IF registry[c] = Nil THEN NoCall
       ELSE [pc |-> IF registry[c].enabled THEN "add" ELSE "remove",
             seen |-> [NoCall.seen EXCEPT ![c] = registry[c]], todo |-> {c}]
  <2>1. call' = [call EXCEPT !["controller"] = new] /\ call["controller"].pc = "idle"
    BY <1>4 DEF ReconcileEKSCluster
  <2>2. new \in Request /\ (new.pc = "add" => \A d \in new.todo : new.seen[d] # Nil)
    BY <1>0 DEF NoCall
  <2> HIDE DEF new
  <2> QED
    BY <1>0, <1>4, <2>1, <2>2, CallStep DEF ReconcileEKSCluster, worldVars
<1> QED
  BY <1>1, <1>2, <1>3, <1>4

(* Users, AWS and the loop of SharedReconciler leave the manager alone.    *)
LEMMA OutsideStep ==
  ASSUME ManagerInv, UNCHANGED <<managerVars, call>>,
         registry' \in [Cluster -> Registration \cup {Nil}]
  PROVE  ManagerInv'
BY DEF ManagerInv, ManagerTypeOK, NoLeakedInformer, WaitHasInformer, managerVars

------------------------------------------------------------------------------
(* Nothing is connected at the start.                                      *)
LEMMA ManagerInitially == Init => ManagerInv
<1> SUFFICES ASSUME Init PROVE ManagerInv
  OBVIOUS
<1>1. ManagerTypeOK
  BY DEF Init, ManagerTypeOK, NoCall
<1> QED
  BY <1>1 DEF Init, ManagerInv, NoLeakedInformer, WaitHasInformer

(* One step per action.                                                    *)
LEMMA ManagerStep == ManagerInv /\ [Next]_vars => ManagerInv'
<1> SUFFICES ASSUME ManagerInv, [Next]_vars PROVE ManagerInv'
  OBVIOUS
<1>0. registry \in [Cluster -> Registration \cup {Nil}]
  BY DEF ManagerInv, ManagerTypeOK
<1>1. ASSUME NEW k \in Caller, Manage(k) PROVE ManagerInv'
  BY <1>1, AddOrUpdateStep, LockStep DEF Manage
<1>2. CASE Pass \/ Controller
  BY <1>1, <1>2, CallerStep DEF Pass, Controller, Caller
<1>3. CASE (Trigger \/ Cancel \/ Loop) /\ UNCHANGED elsewhere
  BY <1>0, <1>3, OutsideStep DEF elsewhere, callVars, worldVars
<1>4. CASE \E f \in Informer : Listed(f) \/ handlePodChange(f)
  BY <1>4, InformerStep
<1>5. CASE \E c \in Cluster : CleanupStaleClients(c)
  BY <1>5, InformerStep
<1>6. CASE Shutdown
  BY <1>6, LockStep
<1>7. CASE World
  BY <1>0, <1>7, OutsideStep DEF World, Apply, Outage, Recover, callVars, worldVars
<1>8. CASE UNCHANGED vars
  BY <1>0, <1>8, OutsideStep DEF vars, callVars, worldVars
<1> QED
  BY <1>2, <1>3, <1>4, <1>5, <1>6, <1>7, <1>8 DEF Next

(* For any number of clusters, callers in any order, failures and outages: *)
(* the informers that run are exactly those of the connections.            *)
THEOREM InformersSafe == Spec => []NoLeakedInformer
<1>1. ManagerInv => NoLeakedInformer
  BY DEF ManagerInv
<1> QED
  BY <1>1, ManagerInitially, ManagerStep, PTL DEF Spec

(* Nobody stops the informer that the holder of the lock waits for.        *)
THEOREM WaitSafe == Spec => []WaitHasInformer
<1>1. ManagerInv => WaitHasInformer
  BY DEF ManagerInv
<1> QED
  BY <1>1, ManagerInitially, ManagerStep, PTL DEF Spec

==============================================================================
