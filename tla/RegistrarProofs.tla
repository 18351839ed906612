--------------------------- MODULE RegistrarProofs ---------------------------
(***************************************************************************)
(* Type correctness of Registrar, and what follows from it for entries of  *)
(* others.  TypeOK is inductive as it stands: it says of every set of      *)
(* entries the program keeps, in SPIRE, in a pass and in a handler, that   *)
(* its managed members are renderings.  There is a lemma for each group of *)
(* actions; FullPassType and HandlerStepType have one step per action.     *)
(***************************************************************************)
EXTENDS Registrar, TLAPS, FiniteSetTheorems

(* What is declared for a pod under an identity is a rendering.            *)
LEMMA DeclarationRendered ==
  ASSUME NEW i \in Identity, NEW s \in IdentitySpec, NEW p \in Pod, NEW l \in Label
  PROVE  Declaration(i, s, Home[p], p, l) \in Rendered
BY DEF Rendered

(* Every rendering carries the prefix of this registrar.                   *)
LEMMA RenderedManaged ==
  ASSUME NEW e \in Rendered
  PROVE  shouldProcessEntry(e)
<1>1. PICK i \in Identity, s \in IdentitySpec, p \in Pod, l \in Label :
             e = Declaration(i, s, Home[p], p, l)
  BY DEF Rendered
<1>2. Declaration(i, s, Home[p], p, l).id
        = <<EntryIDPrefix, MakeEntryKey(RenderEntry(i, s, Home[p], p, l))>>
  BY DEF Declaration, WithID, RenderEntry
<1> QED
  BY <1>1, <1>2 DEF shouldProcessEntry

(* Nothing else in SPIRE carries it.                                       *)
LEMMA ManagedRendered ==
  ASSUME NEW e \in ForeignEntry \cup Rendered, shouldProcessEntry(e)
  PROVE  e \in Rendered
BY ForeignAssumption

(* A rendering carries the UID of its pod: the selector that               *)
(* reconcilePodEntry and processWorkloadIdentity put first.                *)
LEMMA RenderedHasUID ==
  ASSUME NEW i \in Identity, NEW s \in IdentitySpec, NEW c, NEW p \in Pod, NEW l \in Label
  PROVE  HasPodUID(Declaration(i, s, c, p, l), p)
<1>1. s.selectors \in Seq(Selector)
  BY FleetAssumption
<1> DEFINE sel == <<PodUIDSelector(p)>> \o s.selectors
<1>2. 1 \in DOMAIN sel /\ sel[1] = PodUIDSelector(p)
  BY <1>1
<1>3. Declaration(i, s, c, p, l).selectors = sel
  BY DEF Declaration, WithID, RenderEntry
<1> QED
  BY <1>2, <1>3 DEF HasPodUID

------------------------------------------------------------------------------
(* Notifications for the pods of a store, in any order.                    *)
LEMMA StoreNotifications ==
  ASSUME FleetTypeOK, NEW c \in Cluster, NEW order \in SetToSeqs(Stored(c))
  PROVE  [k \in DOMAIN order |-> NotificationOf(order[k], pods[order[k]])]
           \in Seq(Notification)
<1>1. Stored(c) \subseteq Pod /\ IsFiniteSet(Stored(c))
  BY FleetAssumption, FS_Subset DEF Stored
<1>2. Cardinality(Stored(c)) \in Nat
  BY <1>1, FS_CardinalityType
<1> DEFINE n == Cardinality(Stored(c))
<1>3. order \in [1..n -> Stored(c)]
  BY DEF SetToSeqs
<1>4. \A k \in 1..n : NotificationOf(order[k], pods[order[k]]) \in Notification
  <2> SUFFICES ASSUME NEW k \in 1..n
               PROVE  NotificationOf(order[k], pods[order[k]]) \in Notification
    OBVIOUS
  <2>1. order[k] \in Pod
    BY <1>1, <1>3
  <2>2. pods[order[k]] \in PodState
    BY <2>1 DEF FleetTypeOK
  <2> QED
    BY <2>1, <2>2 DEF NotificationOf, Notification, PodState
<1> HIDE DEF n
<1> QED
  BY <1>2, <1>3, <1>4 DEF n

(* Failures stay within their bound.                                       *)
LEMMA OutcomeType ==
  ASSUME FleetTypeOK, NEW ok \in BOOLEAN, Outcome(ok)
  PROVE  faults' \in 0..MaxFaults
BY FleetAssumption DEF FleetTypeOK, Outcome

(* A change of a pod queues a notification at its listener.                *)
LEMMA PodBecomesType ==
  ASSUME FleetTypeOK, NEW p \in Pod, NEW state \in PodState, PodBecomes(p, state)
  PROVE  FleetTypeOK'
<1> USE FleetAssumption
<1>1. pods' \in [Pod -> PodState] /\ changes' \in 0..MaxChanges
  BY DEF FleetTypeOK, PodBecomes, Change
<1>2. queue' \in [Listener -> Seq(Notification)]
  <2>1. CASE conn[Home[p]] = Nil
    BY <2>1 DEF FleetTypeOK, PodBecomes
  <2>2. CASE conn[Home[p]] # Nil
    <3>1. conn[Home[p]].listener \in Listener
      BY <2>2 DEF FleetTypeOK, Connection
    <3>2. NotificationOf(p, state) \in Notification
      BY DEF NotificationOf, Notification, PodState
    <3>3. queue' = [queue EXCEPT ![conn[Home[p]].listener] =
                      Append(@, NotificationOf(p, state))]
      BY <2>2 DEF PodBecomes, Enqueue
    <3>4. Append(queue[conn[Home[p]].listener], NotificationOf(p, state))
            \in Seq(Notification)
      BY <3>1, <3>2 DEF FleetTypeOK
    <3> QED
      BY <3>1, <3>3, <3>4 DEF FleetTypeOK
  <2> QED
    BY <2>1, <2>2
<1> QED
  BY <1>1, <1>2 DEF FleetTypeOK, PodBecomes, resourceVars

(* Steps of users, kubelets and informers keep the fleet well typed.       *)
LEMMA EnvironmentType ==
  ASSUME TypeOK, Environment
  PROVE  FleetTypeOK'
<1> USE FleetAssumption DEF TypeOK
<1>1. ASSUME NEW i \in Identity, NEW s \in IdentitySpec, ApplyIdentity(i, s)
      PROVE  FleetTypeOK'
  BY <1>1 DEF FleetTypeOK, ApplyIdentity, Change, connVars
<1>2. ASSUME NEW i \in Identity, DeleteIdentity(i)
      PROVE  FleetTypeOK'
  BY <1>2 DEF FleetTypeOK, DeleteIdentity, Change, connVars
<1>3. ASSUME NEW c \in Cluster, NEW reg \in Registration, ApplyRegistration(c, reg)
      PROVE  FleetTypeOK'
  BY <1>3 DEF FleetTypeOK, ApplyRegistration, Change, connVars
<1>4. ASSUME NEW c \in Cluster, DeleteRegistration(c)
      PROVE  FleetTypeOK'
  BY <1>4 DEF FleetTypeOK, DeleteRegistration, Change, connVars
<1>5. ASSUME NEW p \in Pod, NEW phase \in Phase, MovePod(p, phase)
      PROVE  FleetTypeOK'
  <2>1. [pods[p] EXCEPT !.phase = phase] \in PodState
    BY DEF FleetTypeOK, PodState
  <2> QED
    BY <1>5, <2>1, PodBecomesType DEF MovePod
<1>6. ASSUME NEW p \in Pod, NEW label \in Label, RelabelPod(p, label)
      PROVE  FleetTypeOK'
  <2>1. [pods[p] EXCEPT !.label = label] \in PodState
    BY DEF FleetTypeOK, PodState
  <2> QED
    BY <1>6, <2>1, PodBecomesType DEF RelabelPod
<1>7. ASSUME NEW c \in Cluster, Resync(c)
      PROVE  FleetTypeOK'
  <2>1. conn[c].listener \in Listener
    BY <1>7 DEF FleetTypeOK, Connection, Resync
  <2>2. PICK order \in SetToSeqs(Stored(c)) :
          queue' = [queue EXCEPT ![conn[c].listener] = @ \o
            [k \in DOMAIN order |-> NotificationOf(order[k], pods[order[k]])]]
    BY <1>7 DEF Resync
  <2>3. [k \in DOMAIN order |-> NotificationOf(order[k], pods[order[k]])]
          \in Seq(Notification)
    BY StoreNotifications
  <2>4. queue' \in [Listener -> Seq(Notification)]
    BY <2>1, <2>2, <2>3 DEF FleetTypeOK
  <2> QED
    BY <1>7, <2>4 DEF FleetTypeOK, Resync, resourceVars
<1> QED
  BY <1>1, <1>2, <1>3, <1>4, <1>5, <1>6, <1>7 DEF Environment

------------------------------------------------------------------------------
(* A handler step replaces one job and nothing else of job.                *)
LEMMA JobUpdate ==
  ASSUME JobsTypeOK, NEW l \in Listener, NEW j, DOMAIN j = DOMAIN IdleJob, JobOK(j),
         job' = [job EXCEPT ![l] = j]
  PROVE  JobsTypeOK'
BY DEF JobsTypeOK, JobOK

(* A listener between two events.                                          *)
LEMMA IdleJobOK == JobOK(IdleJob)
BY DEF JobOK, IdleJob

(* Going on to the next identity of an event.                              *)
LEMMA ContinueOK ==
  ASSUME NEW j, DOMAIN j = DOMAIN IdleJob, JobOK(j), j.pc # "idle"
  PROVE  DOMAIN Continue(j) = DOMAIN IdleJob /\ JobOK(Continue(j))
BY IdleJobOK DEF Continue, JobOK, IdleJob

(* A create adds at most a rendering.                                      *)
LEMMA CreateType ==
  ASSUME ServerTypeOK, NEW e \in Rendered, CreateEntry(e)
  PROVE  ServerTypeOK'
BY DEF ServerTypeOK, CreateEntry

(* An update replaces an entry by a rendering.                             *)
LEMMA UpdateType ==
  ASSUME ServerTypeOK, NEW e \in Rendered, UpdateEntry(e)
  PROVE  ServerTypeOK'
BY DEF ServerTypeOK, UpdateEntry

(* A delete only takes an entry away.                                      *)
LEMMA DeleteType ==
  ASSUME ServerTypeOK, NEW e, DeleteEntry(e.id)
  PROVE  ServerTypeOK'
BY DEF ServerTypeOK, DeleteEntry

(* Handler steps other than taking a notification leave queue alone.       *)
LEMMA HandlerFleet ==
  ASSUME FleetTypeOK, NEW ok \in BOOLEAN, Outcome(ok), UNCHANGED <<handlerEnv, queue>>
  PROVE  FleetTypeOK'
<1>1. faults' \in 0..MaxFaults
  BY OutcomeType
<1> QED
  BY <1>1 DEF FleetTypeOK, handlerEnv, resourceVars

(* Taking a notification: what ReconcileSinglePod decides is a job.        *)
LEMMA HandleType ==
  ASSUME TypeOK, NEW c \in Cluster, NEW ok \in BOOLEAN, HandlePodChange(c, ok)
  PROVE  FleetTypeOK' /\ ServerTypeOK' /\ JobsTypeOK'
<1> USE DEF TypeOK
<1> DEFINE l == conn[c].listener
           n == Head(queue[l])
           matching == IF ok THEN findMatchingIdentities(n.pod, n.label, conn[c].reg) ELSE {}
<1>1. l \in Listener
  BY DEF FleetTypeOK, Connection, HandlePodChange
<1>2. queue[l] \in Seq(Notification) /\ queue[l] # <<>>
  BY <1>1 DEF FleetTypeOK, HandlePodChange
<1>3. n \in Notification /\ Tail(queue[l]) \in Seq(Notification)
  BY <1>2
<1>4. matching \subseteq Identity \X IdentitySpec
  BY DEF findMatchingIdentities, FleetTypeOK
<1>5. /\ job' = [job EXCEPT ![l] = ReconcileSinglePod(n, matching)]
      /\ queue' = [queue EXCEPT ![l] = Tail(@)]
  BY DEF HandlePodChange
<1>6. FleetTypeOK'
  <2>1. faults' \in 0..MaxFaults
    BY OutcomeType DEF HandlePodChange
  <2>2. queue' \in [Listener -> Seq(Notification)]
    BY <1>1, <1>3, <1>5 DEF FleetTypeOK
  <2> QED
    BY <2>1, <2>2 DEF FleetTypeOK, HandlePodChange, handlerEnv, resourceVars
<1>7. ServerTypeOK'
  BY DEF ServerTypeOK, HandlePodChange
<1> HIDE DEF l, n, matching
<1>8. DOMAIN ReconcileSinglePod(n, matching) = DOMAIN IdleJob
        /\ JobOK(ReconcileSinglePod(n, matching))
  BY <1>3, <1>4, IdleJobOK DEF ReconcileSinglePod, Job, JobOK, IdleJob, Notification
<1> QED
  BY <1>1, <1>5, <1>6, <1>7, <1>8, JobUpdate

(* The later steps of a job, one for each remote call.                     *)
LEMMA HandlerStepType ==
  ASSUME TypeOK, NEW l \in Listener, HandlerStep(l)
  PROVE  FleetTypeOK' /\ ServerTypeOK' /\ JobsTypeOK'
<1> USE DEF TypeOK
<1> DEFINE j == job[l]
<1>0. DOMAIN j = DOMAIN IdleJob /\ JobOK(j) /\ DOMAIN job = Listener
  BY DEF JobsTypeOK
<1> HIDE DEF j
<1>1. ASSUME NEW ok \in BOOLEAN, GetNode(l, ok)
      PROVE  FleetTypeOK' /\ ServerTypeOK' /\ JobsTypeOK'
  <2> DEFINE new == IF ok /\ conn[Home[j.pod]] # Nil THEN [j EXCEPT !.pc = "ensure"]
                    ELSE IdleJob
  <2>1. j.pc = "node" /\ job' = [job EXCEPT ![l] = new]
    BY <1>1 DEF GetNode, j
  <2>2. DOMAIN new = DOMAIN IdleJob /\ JobOK(new)
    BY <1>0, <2>1, IdleJobOK DEF JobOK, IdleJob
  <2> HIDE DEF new
  <2>3. FleetTypeOK' /\ ServerTypeOK'
    BY <1>1, HandlerFleet DEF GetNode, ServerTypeOK
  <2> QED
    BY <2>1, <2>2, <2>3, JobUpdate
<1>2. ASSUME NEW ok \in BOOLEAN, NEW i \in Identity, NEW s \in IdentitySpec,
             EnsureList(l, i, s, ok)
      PROVE  FleetTypeOK' /\ ServerTypeOK' /\ JobsTypeOK'
  <2> DEFINE rest == [j EXCEPT !.ensure = @ \ {<<i, s>>}]
             e == Declaration(i, s, Home[j.pod], j.pod, j.label)
             found == IF ok THEN {x \in ListEntries : x.id = e.id} ELSE {}
             upToDate == found # {} /\ \A x \in found : getOutdatedEntryFields(e, x) = {}
             new == IF ~CanRender(s) \/ upToDate THEN Continue(rest)
                    ELSE [rest EXCEPT !.pc = "write", !.entry = e, !.found = found]
  <2>1. j.pc = "ensure" /\ job' = [job EXCEPT ![l] = new]
    BY <1>2 DEF EnsureList, j
  <2>2. j.pod \in Pod /\ j.label \in Label
    BY <1>0, <2>1 DEF JobOK
  <2>3. e \in Rendered
    BY <2>2, DeclarationRendered
  <2>4. found \subseteq ForeignEntry \cup Rendered
    BY DEF ListEntries, ServerTypeOK
  <2> HIDE DEF e, found, upToDate
  <2>5. DOMAIN rest = DOMAIN IdleJob /\ JobOK(rest) /\ rest.pc # "idle"
    BY <1>0, <2>1 DEF JobOK, IdleJob
  <2>6. DOMAIN Continue(rest) = DOMAIN IdleJob /\ JobOK(Continue(rest))
    BY <2>5, ContinueOK
  <2>7. DOMAIN [rest EXCEPT !.pc = "write", !.entry = e, !.found = found] = DOMAIN IdleJob
          /\ JobOK([rest EXCEPT !.pc = "write", !.entry = e, !.found = found])
    BY <2>3, <2>4, <2>5 DEF JobOK, IdleJob
  <2>8. DOMAIN new = DOMAIN IdleJob /\ JobOK(new)
    BY <2>6, <2>7
  <2> HIDE DEF new
  <2>9. FleetTypeOK' /\ ServerTypeOK'
    BY <1>2, HandlerFleet DEF EnsureList, ServerTypeOK
  <2> QED
    BY <2>1, <2>8, <2>9, JobUpdate
<1>3. ASSUME NEW ok \in BOOLEAN, EnsureWrite(l, ok)
      PROVE  FleetTypeOK' /\ ServerTypeOK' /\ JobsTypeOK'
  <2>1. j.pc = "write" /\ job' = [job EXCEPT ![l] = Continue(j)]
    BY <1>3 DEF EnsureWrite, j
  <2>2. j.entry \in Rendered
    BY <1>0, <2>1 DEF JobOK
  <2>3. ServerTypeOK'
    BY <1>3, <2>2, CreateType, UpdateType DEF EnsureWrite, ServerTypeOK, j
  <2>4. FleetTypeOK'
    BY <1>3, HandlerFleet DEF EnsureWrite
  <2>5. DOMAIN Continue(j) = DOMAIN IdleJob /\ JobOK(Continue(j))
    BY <1>0, <2>1, ContinueOK
  <2> QED
    BY <2>1, <2>3, <2>4, <2>5, JobUpdate
<1>4. ASSUME NEW ok \in BOOLEAN, RemoveList(l, ok)
      PROVE  FleetTypeOK' /\ ServerTypeOK' /\ JobsTypeOK'
  <2> DEFINE doomed == deleteEntriesForPod(ListEntries, j.pod)
             new == IF ~ok \/ doomed = {} THEN IdleJob
                    ELSE [j EXCEPT !.pc = "remove", !.remove = doomed]
  <2>1. j.pc = "listRemove" /\ job' = [job EXCEPT ![l] = new]
    BY <1>4 DEF RemoveList, j
  <2>2. doomed \subseteq Rendered
    BY ManagedRendered DEF deleteEntriesForPod, ListEntries, ServerTypeOK
  <2> HIDE DEF doomed
  <2>3. DOMAIN new = DOMAIN IdleJob /\ JobOK(new)
    BY <1>0, <2>1, <2>2, IdleJobOK DEF JobOK, IdleJob
  <2> HIDE DEF new
  <2>4. FleetTypeOK' /\ ServerTypeOK'
    BY <1>4, HandlerFleet DEF RemoveList, ServerTypeOK
  <2> QED
    BY <2>1, <2>3, <2>4, JobUpdate
<1>5. ASSUME NEW ok \in BOOLEAN, NEW e \in job[l].remove, RemoveOne(l, e, ok)
      PROVE  FleetTypeOK' /\ ServerTypeOK' /\ JobsTypeOK'
  <2> DEFINE new == IF j.remove \ {e} = {} THEN IdleJob
                    ELSE [j EXCEPT !.remove = j.remove \ {e}]
  <2>1. j.pc = "remove" /\ job' = [job EXCEPT ![l] = new]
    BY <1>5 DEF RemoveOne, j
  <2>2. DOMAIN new = DOMAIN IdleJob /\ JobOK(new)
    BY <1>0, <2>1, IdleJobOK DEF JobOK, IdleJob
  <2> HIDE DEF new
  <2>3. ServerTypeOK'
    BY <1>5, DeleteType DEF RemoveOne, ServerTypeOK
  <2>4. FleetTypeOK'
    BY <1>5, HandlerFleet DEF RemoveOne
  <2> QED
    BY <2>1, <2>2, <2>3, <2>4, JobUpdate
<1> QED
  BY <1>1, <1>2, <1>3, <1>4, <1>5 DEF HandlerStep

------------------------------------------------------------------------------
(* Steps of the full pass, one lemma for the connections and one for each  *)
(* phase after them.                                                       *)
LEMMA StopType ==
  ASSUME FleetTypeOK, NEW c \in Cluster
  PROVE  stopClusterConnection(c) \in [Listener -> Seq(Notification)]
BY DEF FleetTypeOK, stopClusterConnection, Connection

(* Connecting, reconnecting, or only taking over the registration.         *)
LEMMA ConnectType ==
  ASSUME FleetTypeOK, NEW c \in Cluster, NEW reg \in Registration, NEW ok \in BOOLEAN,
         NEW free \in SUBSET Listener, AddOrUpdateCluster(c, reg, ok, free)
  PROVE  /\ conn' \in [Cluster -> Connection \cup {Nil}]
         /\ queue' \in [Listener -> Seq(Notification)]
<1>1. CASE conn[c] # Nil /\ UNCHANGED queue
             /\ conn' = [conn EXCEPT ![c] = [@ EXCEPT !.reg = reg]]
  <2>1. conn[c] \in Connection
    BY <1>1 DEF FleetTypeOK
  <2>2. [conn[c] EXCEPT !.reg = reg] \in Connection
    BY <2>1 DEF Connection
  <2> QED
    BY <1>1, <2>2 DEF FleetTypeOK
<1>2. CASE conn' = [conn EXCEPT ![c] = Nil] /\ queue' = stopClusterConnection(c)
  BY <1>2, StopType DEF FleetTypeOK
<1>3. ASSUME NEW l \in free, NEW order \in SetToSeqs(Stored(c)),
             conn' = [conn EXCEPT ![c] = [reg |-> reg, listener |-> l]],
             queue' = [stopClusterConnection(c) EXCEPT ![l] =
               [k \in DOMAIN order |-> NotificationOf(order[k], pods[order[k]])]]
      PROVE  /\ conn' \in [Cluster -> Connection \cup {Nil}]
             /\ queue' \in [Listener -> Seq(Notification)]
  <2>1. [reg |-> reg, listener |-> l] \in Connection
    BY DEF Connection
  <2>2. [k \in DOMAIN order |-> NotificationOf(order[k], pods[order[k]])]
          \in Seq(Notification)
    BY StoreNotifications
  <2> QED
    BY <1>3, <2>1, <2>2, StopType DEF FleetTypeOK
<1> QED
  BY <1>1, <1>2, <1>3 DEF AddOrUpdateCluster

(* Leaving reconcileAll, in whatever way, clears its locals.               *)
LEMMA ReturnType ==
  ASSUME Return
  PROVE  PassTypeOK'
BY DEF Return, PassTypeOK, NoClusters, NoIdentities

(* What a pass declares is a rendering for a pod of the cluster at hand.   *)
LEMMA DeclaredType ==
  ASSUME FleetTypeOK, PassTypeOK, NEW c \in Cluster, NEW i \in Identity,
         <<c, i>> \in pending, NEW skipped
  PROVE  processWorkloadIdentity(c, i, skipped) \subseteq Rendered
<1>1. idents[i] \in IdentitySpec
  BY DEF PassTypeOK
<1>2. ASSUME NEW p \in Visited(c, i)
      PROVE  Declaration(i, idents[i], c, p, pods[p].label) \in Rendered
  <2>1. p \in Pod /\ Home[p] = c
    BY DEF Visited, getPodsFromInformer, Stored
  <2>2. pods[p].label \in Label
    BY <2>1 DEF FleetTypeOK, PodState
  <2> QED
    BY <1>1, <2>1, <2>2, DeclarationRendered
<1> QED
  BY <1>2 DEF processWorkloadIdentity

(* A step of the pass that changes no connection and fails within the      *)
(* bound keeps the fleet well typed.                                       *)
LEMMA PassEnvFleet ==
  ASSUME FleetTypeOK, faults' \in 0..MaxFaults, UNCHANGED <<passEnv, connVars>>
  PROVE  FleetTypeOK'
BY DEF FleetTypeOK, passEnv, connVars, resourceVars

(* Every step of the full pass.                                            *)
LEMMA FullPassType ==
  ASSUME TypeOK, FullPass
  PROVE  FleetTypeOK' /\ ServerTypeOK' /\ PassTypeOK'
<1> USE DEF TypeOK
<1> DEFINE Good == FleetTypeOK' /\ ServerTypeOK' /\ PassTypeOK'
<1>0. faults \in 0..MaxFaults
  BY DEF FleetTypeOK
<1>1. ASSUME ListClusters PROVE Good
  <2>1. FleetTypeOK'
    BY <1>0, <1>1, PassEnvFleet DEF ListClusters
  <2> QED
    BY <1>1, <2>1 DEF ListClusters, FleetTypeOK, ServerTypeOK, PassTypeOK, stateVars, diffVars
<1>2. ASSUME NEW c \in Cluster, NEW ok \in BOOLEAN, ConnectCluster(c, ok) PROVE Good
  <2>1. clusters[c] \in Registration /\ IdleListeners \subseteq Listener
    BY <1>2 DEF ConnectCluster, PassTypeOK, IdleListeners
  <2>2. /\ conn' \in [Cluster -> Connection \cup {Nil}]
        /\ queue' \in [Listener -> Seq(Notification)]
    BY <1>2, <2>1, ConnectType DEF ConnectCluster
  <2>3. faults' \in 0..MaxFaults
    BY <1>2, OutcomeType DEF ConnectCluster
  <2>4. FleetTypeOK'
    BY <1>2, <2>2, <2>3 DEF ConnectCluster, FleetTypeOK, passEnv, resourceVars
  <2> QED
    BY <1>2, <2>4 DEF ConnectCluster, ServerTypeOK, PassTypeOK, stateVars, diffVars
<1>3. ASSUME NEW c \in Cluster, PruneCluster(c) PROVE Good
  <2>1. queue' \in [Listener -> Seq(Notification)]
    BY <1>3, StopType DEF PruneCluster, RemoveCluster
  <2>2. FleetTypeOK'
    BY <1>3, <2>1 DEF PruneCluster, RemoveCluster, FleetTypeOK, passEnv, resourceVars
  <2> QED
    BY <1>3, <2>2 DEF PruneCluster, ServerTypeOK, PassTypeOK, passVars, stateVars, diffVars
<1>4. ASSUME NEW ok \in BOOLEAN, ListIdentities(ok) PROVE Good
  <2>1. FleetTypeOK'
    BY <1>4, OutcomeType, PassEnvFleet DEF ListIdentities
  <2>2. PassTypeOK'
    <3>1. CASE ok
      BY <1>4, <3>1 DEF ListIdentities, PassTypeOK, FleetTypeOK, stateVars, diffVars
    <3>2. CASE ~ok
      BY <1>4, <3>2, ReturnType DEF ListIdentities
    <3> QED
      BY <3>1, <3>2
  <2> QED
    BY <1>4, <2>1, <2>2 DEF ListIdentities, ServerTypeOK
<1>5. ASSUME NEW ok \in BOOLEAN, ListCurrent(ok) PROVE Good
  <2>1. FleetTypeOK'
    BY <1>5, OutcomeType, PassEnvFleet DEF ListCurrent
  <2>2. {e \in ListEntries : shouldProcessEntry(e)} \subseteq Rendered
    BY ManagedRendered DEF ListEntries, ServerTypeOK
  <2>3. PassTypeOK'
    <3>1. CASE ok
      <4>1. current' \subseteq Rendered
        BY <1>5, <2>2, <3>1 DEF ListCurrent, AddCurrent, Put
      <4> QED
        BY <1>5, <3>1, <4>1 DEF ListCurrent, PassTypeOK, diffVars
    <3>2. CASE ~ok
      BY <1>5, <3>2, ReturnType DEF ListCurrent
    <3> QED
      BY <3>1, <3>2
  <2> QED
    BY <1>5, <2>1, <2>3 DEF ListCurrent, ServerTypeOK
<1>6. ASSUME NEW c \in Cluster, NEW i \in Identity, NEW skipped \in SUBSET Pod,
             ProcessCluster(c, i, skipped)
      PROVE  Good
  <2>1. Cardinality(skipped) \in Nat
    BY FleetAssumption, FS_Subset, FS_CardinalityType
  <2>2. faults' \in 0..MaxFaults
    BY <1>0, <1>6, <2>1, FleetAssumption DEF ProcessCluster
  <2>3. FleetTypeOK'
    BY <1>6, <2>2, PassEnvFleet DEF ProcessCluster
  <2>4. declared' \subseteq Rendered
    BY <1>6, DeclaredType DEF ProcessCluster, AddDeclared, Put, PassTypeOK
  <2> QED
    BY <1>6, <2>3, <2>4 DEF ProcessCluster, ServerTypeOK, PassTypeOK, diffVars
<1>7. ASSUME GetChanges PROVE Good
  <2>1. FleetTypeOK'
    BY <1>0, <1>7, PassEnvFleet DEF GetChanges
  <2> QED
    BY <1>7, <2>1 DEF GetChanges, toCreateOf, toUpdateOf, toDeleteOf, ServerTypeOK,
                      PassTypeOK, stateVars
<1>8. ASSUME NEW ok \in BOOLEAN, NEW e \in toDelete, ApplyDelete(e, ok) PROVE Good
  <2>1. FleetTypeOK'
    BY <1>8, OutcomeType, PassEnvFleet DEF ApplyDelete
  <2>2. ServerTypeOK'
    BY <1>8, DeleteType DEF ApplyDelete, ServerTypeOK
  <2> QED
    BY <1>8, <2>1, <2>2 DEF ApplyDelete, PassTypeOK, stateVars
<1>9. ASSUME NEW ok \in BOOLEAN, NEW e \in toCreate, ApplyCreate(e, ok) PROVE Good
  <2>1. FleetTypeOK'
    BY <1>9, OutcomeType, PassEnvFleet DEF ApplyCreate
  <2>2. ServerTypeOK'
    BY <1>9, CreateType DEF ApplyCreate, ServerTypeOK, PassTypeOK
  <2> QED
    BY <1>9, <2>1, <2>2 DEF ApplyCreate, PassTypeOK, stateVars
<1>10. ASSUME NEW ok \in BOOLEAN, NEW e \in toUpdate, ApplyUpdate(e, ok) PROVE Good
  <2>1. FleetTypeOK'
    BY <1>10, OutcomeType, PassEnvFleet DEF ApplyUpdate
  <2>2. ServerTypeOK'
    BY <1>10, UpdateType DEF ApplyUpdate, ServerTypeOK, PassTypeOK
  <2> QED
    BY <1>10, <2>1, <2>2 DEF ApplyUpdate, PassTypeOK, stateVars
<1>11. ASSUME EndPass PROVE Good
  <2>1. FleetTypeOK'
    BY <1>0, <1>11, PassEnvFleet DEF EndPass
  <2> QED
    BY <1>11, <2>1, ReturnType DEF EndPass, ServerTypeOK
<1> QED
  BY <1>1, <1>2, <1>3, <1>4, <1>5, <1>6, <1>7, <1>8, <1>9, <1>10, <1>11 DEF FullPass

------------------------------------------------------------------------------
(* A restart forgets everything but SPIRE, the resources and the pods.     *)
LEMMA RestartType ==
  ASSUME TypeOK, Restart
  PROVE  FleetTypeOK' /\ ServerTypeOK' /\ JobsTypeOK' /\ PassTypeOK'
<1> USE DEF TypeOK
<1>1. faults' \in 0..MaxFaults
  BY OutcomeType DEF Restart
<1>2. FleetTypeOK'
  BY <1>1 DEF Restart, FleetTypeOK, resourceVars
<1>3. JobsTypeOK'
  BY IdleJobOK DEF Restart, JobsTypeOK
<1> QED
  BY <1>2, <1>3, ReturnType DEF Restart, ServerTypeOK

(* The registrar starts well typed.                                        *)
LEMMA TypeInit == Init => TypeOK
<1> SUFFICES ASSUME Init PROVE TypeOK
  OBVIOUS
<1>1. FleetTypeOK
  BY FleetAssumption DEF Init, FleetInit, FleetTypeOK, PodState, Phase
<1>2. JobsTypeOK
  BY IdleJobOK DEF Init, HandlerInit, JobsTypeOK
<1>3. PassTypeOK
  BY DEF Init, MainInit, PassCleared, PassTypeOK, NoClusters, NoIdentities
<1> QED
  BY <1>1, <1>2, <1>3 DEF Init, SpireInit, TypeOK, ServerTypeOK

(* Every step of the registrar, whatever is noted of it.                   *)
LEMMA StepType ==
  ASSUME TypeOK, Step
  PROVE  FleetTypeOK' /\ ServerTypeOK' /\ JobsTypeOK' /\ PassTypeOK'
<1>1. CASE Environment /\ UNCHANGED <<spire, job, passVars>>
  <2>1. FleetTypeOK'
    BY <1>1, EnvironmentType
  <2>2. ServerTypeOK' /\ JobsTypeOK'
    BY <1>1 DEF TypeOK, ServerTypeOK, JobsTypeOK
  <2>3. PassTypeOK'
    BY <1>1 DEF TypeOK, PassTypeOK, passVars, stateVars, diffVars
  <2> QED
    BY <2>1, <2>2, <2>3
<1>2. CASE Handler /\ UNCHANGED passVars
  <2>1. FleetTypeOK' /\ ServerTypeOK' /\ JobsTypeOK'
    BY <1>2, HandleType, HandlerStepType DEF Handler
  <2>2. PassTypeOK'
    BY <1>2 DEF TypeOK, PassTypeOK, passVars, stateVars, diffVars
  <2> QED
    BY <2>1, <2>2
<1>3. CASE FullPass
  <2>1. FleetTypeOK' /\ ServerTypeOK' /\ PassTypeOK'
    BY <1>3, FullPassType
  <2>2. job' = job
    BY <1>3 DEF FullPass, ListClusters, ConnectCluster, PruneCluster, ListIdentities,
                ListCurrent, ProcessCluster, GetChanges, ApplyDelete, ApplyCreate,
                ApplyUpdate, EndPass, passEnv
  <2>3. JobsTypeOK'
    BY <2>2 DEF TypeOK, JobsTypeOK
  <2> QED
    BY <2>1, <2>3
<1>4. CASE Restart
  BY <1>4, RestartType
<1> QED
  BY <1>1, <1>2, <1>3, <1>4 DEF Step

(* A stuttering step.                                                      *)
LEMMA StutterType ==
  ASSUME TypeOK, UNCHANGED vars
  PROVE  TypeOK'
BY DEF vars, fleetVars, passVars, stateVars, diffVars, TypeOK, FleetTypeOK, ServerTypeOK,
       JobsTypeOK, PassTypeOK

(* Type correctness is inductive as it stands.                             *)
LEMMA TypeStep == TypeOK /\ [Next]_vars => TypeOK'
<1> SUFFICES ASSUME TypeOK, [Next]_vars PROVE TypeOK'
  OBVIOUS
<1>1. ASSUME Next PROVE TypeOK'
  <2>1. noise' \in {"quiet", "steady", "noisy"}
    BY <1>1 DEF Next, NoteNoise, TypeOK
  <2> QED
    BY <1>1, <2>1, StepType DEF Next, TypeOK
<1> QED
  BY <1>1, StutterType

(* Type correctness of the registrar for any fleet: whatever the handlers  *)
(* and the pass interleave, SPIRE holds foreign entries and renderings for *)
(* pods of their own cluster only, and nothing else is created, updated or *)
(* deleted.                                                                *)
THEOREM TypeCorrect == Spec => []TypeOK
<1>1. Init => TypeOK
  BY TypeInit
<1>2. TypeOK /\ [Next]_vars => TypeOK'
  BY TypeStep
<1> QED
  BY <1>1, <1>2, PTL DEF Spec

------------------------------------------------------------------------------
(* Every step writes at most one entry, and it is one of the registrar's.  *)
LEMMA OneWrite ==
  ASSUME TypeOK, Step
  PROVE  \/ spire' = spire
         \/ \E e \in Rendered : CreateEntry(e) \/ UpdateEntry(e) \/ DeleteEntry(e.id)
<1>1. CASE Environment /\ UNCHANGED <<spire, job, passVars>>
  BY <1>1
<1>2. CASE Handler
  <2>1. ASSUME NEW l \in Listener, NEW ok \in BOOLEAN, EnsureWrite(l, ok), spire' # spire
        PROVE  \E e \in Rendered : CreateEntry(e) \/ UpdateEntry(e)
    <3>1. job[l].entry \in Rendered
      BY <2>1 DEF EnsureWrite, TypeOK, JobsTypeOK, JobOK
    <3> QED
      BY <2>1, <3>1 DEF EnsureWrite
  <2>2. ASSUME NEW l \in Listener, NEW ok \in BOOLEAN, NEW e \in job[l].remove,
               RemoveOne(l, e, ok), spire' # spire
        PROVE  e \in Rendered /\ DeleteEntry(e.id)
    BY <2>2 DEF RemoveOne, TypeOK, JobsTypeOK, JobOK
  <2>3. ASSUME NEW c \in Cluster, NEW ok \in BOOLEAN, HandlePodChange(c, ok)
        PROVE  spire' = spire
    BY <2>3 DEF HandlePodChange
  <2>4. ASSUME NEW l \in Listener, NEW ok \in BOOLEAN,
               \/ GetNode(l, ok) \/ RemoveList(l, ok)
               \/ \E i \in Identity, s \in IdentitySpec : EnsureList(l, i, s, ok)
        PROVE  spire' = spire
    BY <2>4 DEF GetNode, EnsureList, RemoveList
  <2> QED
    BY <1>2, <2>1, <2>2, <2>3, <2>4 DEF Handler, HandlerStep
<1>3. CASE FullPass
  <2>1. toDelete \subseteq Rendered /\ toCreate \subseteq Rendered /\ toUpdate \subseteq Rendered
    BY DEF TypeOK, PassTypeOK
  <2>2. ASSUME NEW ok \in BOOLEAN, NEW e, spire' # spire,
               \/ e \in toDelete /\ ApplyDelete(e, ok)
               \/ e \in toCreate /\ ApplyCreate(e, ok)
               \/ e \in toUpdate /\ ApplyUpdate(e, ok)
        PROVE  e \in Rendered /\ (CreateEntry(e) \/ UpdateEntry(e) \/ DeleteEntry(e.id))
    BY <2>1, <2>2 DEF ApplyDelete, ApplyCreate, ApplyUpdate
  <2> QED
    BY <1>3, <2>2 DEF FullPass, ListClusters, ConnectCluster, PruneCluster, ListIdentities,
                      ListCurrent, ProcessCluster, GetChanges, EndPass
<1>4. CASE Restart
  BY <1>4 DEF Restart
<1> QED
  BY <1>1, <1>2, <1>3, <1>4 DEF Step

(* A write goes to the ID of a rendering, which no foreign entry has.      *)
LEMMA ForeignStep ==
  ASSUME TypeOK, ForeignUntouched, [Next]_vars
  PROVE  ForeignUntouched'
<1>1. ASSUME NEW e \in Rendered, NEW f \in ForeignEntry
      PROVE  f.id # e.id
  BY RenderedManaged, ForeignAssumption DEF shouldProcessEntry
<1>2. ASSUME NEW e \in Rendered, CreateEntry(e) \/ UpdateEntry(e) \/ DeleteEntry(e.id)
      PROVE  ForeignUntouched'
  BY <1>1, <1>2 DEF CreateEntry, UpdateEntry, DeleteEntry, ForeignUntouched
<1>3. ASSUME spire' = spire
      PROVE  ForeignUntouched'
  BY <1>3 DEF ForeignUntouched
<1> QED
  BY <1>2, <1>3, OneWrite DEF Next, vars

(* Entries of other registrars survive every behaviour, for any fleet and  *)
(* any foreign entries whose IDs do not carry the prefix.                  *)
THEOREM ForeignSafe == Spec => []ForeignUntouched
<1>1. Init => ForeignUntouched
  BY DEF Init, SpireInit, ForeignUntouched
<1>2. TypeOK /\ ForeignUntouched /\ [Next]_vars => ForeignUntouched'
  BY ForeignStep
<1> QED
  BY <1>1, <1>2, TypeCorrect, PTL DEF Spec

==============================================================================
