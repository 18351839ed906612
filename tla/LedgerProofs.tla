---------------------------- MODULE LedgerProofs ----------------------------
(***************************************************************************)
(* No identity for a pod that never ran, and Registrar implements Ledger.  *)
(*                                                                         *)
(* The first (OnlyForStartedPods) is about SPIRE alone and not inductive:  *)
(* an entry gets there from the pass's declared entries and changes, from  *)
(* a handler's rendered entry, and before that from a queued notification. *)
(* StartedInv says of each of these that its pod has run.  It survives the *)
(* pods' steps because phases only move forward.                           *)
(*                                                                         *)
(* For the second: a step of the registrar makes at most one request to    *)
(* SPIRE, and the request, whatever stale view of the server it was        *)
(* decided on, is one line of the ledger.  That rests on StartedInv and on *)
(* UniqueIDs: an ID names at most one managed entry, so that an update or  *)
(* a deletion by ID touches a single line.  An ID is a key over SPIFFE ID, *)
(* parent and selectors: an update by ID therefore never turns an entry    *)
(* into that of another workload.                                          *)
(***************************************************************************)
EXTENDS RegistrarProofs


(* The parts of StartedInv, as predicates of a set S of pods.              *)
ServerFor(S, entries) == \A e \in entries : shouldProcessEntry(e) => OwnedBy(S, e)
PassFor(S, entries) == \A e \in entries : OwnedBy(S, e)
JobsFor(S, jobs) == \A l \in Listener : JobFor(S, jobs[l])
QueuesFor(S, queues) == \A l \in Listener : QueueFor(S, queues[l])

(* StartedInv is the conjunction of its parts, now and after a step.       *)
LEMMA StartedParts ==
  /\ StartedInv => /\ ServerFor(StartedPods, spire)
                   /\ PassFor(StartedPods, declared \cup toCreate \cup toUpdate)
                   /\ JobsFor(StartedPods, job) /\ QueuesFor(StartedPods, queue)
  /\ /\ ServerFor(StartedPods', spire')
     /\ PassFor(StartedPods', declared' \cup toCreate' \cup toUpdate')
     /\ JobsFor(StartedPods', job') /\ QueuesFor(StartedPods', queue')
     => StartedInv'
BY DEF StartedInv, OnlyForStartedPods, Managed, ServerFor, PassFor, JobsFor, QueuesFor

(* The parts are monotone in the set of pods that have run.                *)
LEMMA Monotone ==
  ASSUME NEW S, NEW T, S \subseteq T
  PROVE  /\ \A e : OwnedBy(S, e) => OwnedBy(T, e)
         /\ \A j : JobFor(S, j) => JobFor(T, j)
         /\ \A q : QueueFor(S, q) => QueueFor(T, q)
BY DEF OwnedBy, JobFor, QueueFor

------------------------------------------------------------------------------
(* A pod that has run stays one that has run.                              *)
LEMMA StartedGrows ==
  ASSUME TypeOK, Step
  PROVE  StartedPods \subseteq StartedPods'
<1>1. ASSUME NEW q \in Pod, NEW phase \in Phase, MovePod(q, phase)
      PROVE  StartedPods \subseteq StartedPods'
  <2>1. pods[q] \in PodState /\ pods' = [pods EXCEPT ![q] = [pods[q] EXCEPT !.phase = phase]]
    BY <1>1 DEF TypeOK, FleetTypeOK, MovePod, PodBecomes
  <2>2. q \in StartedPods => phase \in {"running", "ended", "gone"}
    BY <1>1 DEF MovePod, PhaseOrder, StartedPods, Phase
  <2> QED
    BY <2>1, <2>2 DEF StartedPods, TypeOK, FleetTypeOK, PodState
<1>2. ASSUME NEW q \in Pod, NEW label \in Label, RelabelPod(q, label)
      PROVE  StartedPods \subseteq StartedPods'
  <2>1. pods[q] \in PodState /\ pods' = [pods EXCEPT ![q] = [pods[q] EXCEPT !.label = label]]
    BY <1>2 DEF TypeOK, FleetTypeOK, RelabelPod, PodBecomes
  <2> QED
    BY <2>1 DEF StartedPods, TypeOK, FleetTypeOK, PodState
<1>3. ASSUME pods' = pods
      PROVE  StartedPods \subseteq StartedPods'
  BY <1>3 DEF StartedPods
<1>4. CASE Environment
  <2>1. ASSUME NEW i \in Identity, NEW v, ApplyIdentity(i, v) \/ DeleteIdentity(i)
        PROVE  pods' = pods
    BY <2>1 DEF ApplyIdentity, DeleteIdentity
  <2>2. ASSUME NEW c \in Cluster, NEW v,
               ApplyRegistration(c, v) \/ DeleteRegistration(c) \/ Resync(c)
        PROVE  pods' = pods
    BY <2>2 DEF ApplyRegistration, DeleteRegistration, Resync
  <2> QED
    BY <1>1, <1>2, <1>3, <1>4, <2>1, <2>2 DEF Environment
<1>5. CASE Handler
  <2>1. ASSUME NEW c \in Cluster, NEW ok \in BOOLEAN, HandlePodChange(c, ok)
        PROVE  pods' = pods
    BY <2>1 DEF HandlePodChange, handlerEnv
  <2>2. ASSUME NEW l \in Listener, HandlerStep(l)
        PROVE  pods' = pods
    BY <2>2 DEF HandlerStep, GetNode, EnsureList, EnsureWrite, RemoveList, RemoveOne, handlerEnv
  <2> QED
    BY <1>3, <1>5, <2>1, <2>2 DEF Handler
<1>6. CASE FullPass
  BY <1>3, <1>6 DEF FullPass, ListClusters, ConnectCluster, PruneCluster, ListIdentities,
                  ListCurrent, ProcessCluster, GetChanges, ApplyDelete, ApplyCreate,
                  ApplyUpdate, EndPass, passEnv
<1>7. CASE Restart
  BY <1>3, <1>7 DEF Restart
<1> QED
  BY <1>4, <1>5, <1>6, <1>7 DEF Step

------------------------------------------------------------------------------
(* Notifications of a store's pods are about pods that have run, if they   *)
(* are eligible at all.                                                    *)
LEMMA StoreQueue ==
  ASSUME FleetTypeOK, NEW c \in Cluster, NEW order \in SetToSeqs(Stored(c))
  PROVE  QueueFor(StartedPods,
           [k \in DOMAIN order |-> NotificationOf(order[k], pods[order[k]])])
<1>1. \A k \in DOMAIN order : order[k] \in Pod
  BY DEF SetToSeqs, Stored
<1> QED
  BY <1>1 DEF QueueFor, NotificationOf, Eligible, StartedPods

(* Queued notifications of pods of S, followed by more of them.            *)
LEMMA QueueAppend ==
  ASSUME NEW S, NEW q \in Seq(Notification), NEW r \in Seq(Notification),
         QueueFor(S, q), QueueFor(S, r)
  PROVE  QueueFor(S, q \o r)
<1>1. \A k \in DOMAIN (q \o r) : (k \in DOMAIN q /\ (q \o r)[k] = q[k])
                                 \/ (k - Len(q) \in DOMAIN r /\ (q \o r)[k] = r[k - Len(q)])
  OBVIOUS
<1> QED
  BY <1>1 DEF QueueFor

------------------------------------------------------------------------------
(* What a new entry in SPIRE can be: the one written, or an old one.       *)
LEMMA WriteFor ==
  ASSUME NEW S, ServerFor(S, spire), NEW e, OwnedBy(S, e), CreateEntry(e) \/ UpdateEntry(e)
  PROVE  ServerFor(S, spire')
BY DEF ServerFor, CreateEntry, UpdateEntry

(* Deleting entries leaves only old ones.                                  *)
LEMMA DeleteFor ==
  ASSUME NEW S, ServerFor(S, spire), NEW id, DeleteEntry(id)
  PROVE  ServerFor(S, spire')
BY DEF ServerFor, DeleteEntry

(* Replacing one job by another that is about pods of S.                   *)
LEMMA OneJobFor ==
  ASSUME NEW S, JobsTypeOK, JobsFor(S, job), NEW l \in Listener, NEW j, JobFor(S, j),
         job' = [job EXCEPT ![l] = j]
  PROVE  JobsFor(S, job')
BY DEF JobsFor, JobsTypeOK

(* The same of one queue.                                                  *)
LEMMA OneQueueFor ==
  ASSUME NEW S, FleetTypeOK, QueuesFor(S, queue), NEW l \in Listener, NEW q, QueueFor(S, q),
         queue' = [queue EXCEPT ![l] = q]
  PROVE  QueuesFor(S, queue')
BY DEF QueuesFor, FleetTypeOK

(* No job and an empty queue are about no pod at all.                      *)
LEMMA NothingFor ==
  ASSUME NEW S
  PROVE  JobFor(S, IdleJob) /\ QueueFor(S, <<>>)
BY DEF JobFor, QueueFor, IdleJob

------------------------------------------------------------------------------
(* The environment queues notifications of the pods as they are after the  *)
(* step.                                                                   *)
LEMMA PodBecomesStarted ==
  ASSUME TypeOK, NEW S, QueuesFor(S, queue), NEW p \in Pod, NEW state \in PodState,
         PodBecomes(p, state), Eligible(state) => p \in S
  PROVE  QueuesFor(S, queue')
<1>1. CASE conn[Home[p]] = Nil
  BY <1>1 DEF PodBecomes
<1>2. CASE conn[Home[p]] # Nil
  <2> DEFINE l == conn[Home[p]].listener
             n == NotificationOf(p, state)
  <2>1. l \in Listener
    BY <1>2, FleetAssumption DEF TypeOK, FleetTypeOK, Connection
  <2>2. queue' = [queue EXCEPT ![l] = Append(queue[l], n)]
    BY <1>2 DEF PodBecomes, Enqueue
  <2>3. queue[l] \in Seq(Notification) /\ QueueFor(S, queue[l])
    BY <2>1 DEF TypeOK, FleetTypeOK, QueuesFor
  <2>4. n.pod = p /\ n.phase = state.phase
    BY DEF NotificationOf
  <2> HIDE DEF l, n
  <2>5. QueueFor(S, Append(queue[l], n))
    <3>1. \A k \in DOMAIN Append(queue[l], n) :
            \/ k \in DOMAIN queue[l] /\ Append(queue[l], n)[k] = queue[l][k]
            \/ Append(queue[l], n)[k] = n
      BY <2>3
    <3> QED
      BY <2>3, <2>4, <3>1 DEF QueueFor, Eligible
  <2> QED
    BY <2>1, <2>2, <2>5, OneQueueFor DEF TypeOK
<1> QED
  BY <1>1, <1>2

(* Every step of the environment.                                          *)
LEMMA EnvironmentStarted ==
  ASSUME TypeOK, Environment, StartedPods \subseteq StartedPods',
         QueuesFor(StartedPods', queue)
  PROVE  QueuesFor(StartedPods', queue')
<1>1. ASSUME NEW q \in Pod, NEW phase \in Phase, MovePod(q, phase)
      PROVE  QueuesFor(StartedPods', queue')
  <2> DEFINE state == [pods[q] EXCEPT !.phase = phase]
  <2>1. state \in PodState /\ state.phase = phase /\ PodBecomes(q, state)
    BY <1>1 DEF TypeOK, FleetTypeOK, PodState, MovePod
  <2>2. pods'[q] = state
    BY <2>1 DEF PodBecomes, TypeOK, FleetTypeOK
  <2>3. Eligible(state) => q \in StartedPods'
    BY <2>1, <2>2 DEF Eligible, StartedPods
  <2> QED
    BY <2>1, <2>3, PodBecomesStarted
<1>2. ASSUME NEW q \in Pod, NEW label \in Label, RelabelPod(q, label)
      PROVE  QueuesFor(StartedPods', queue')
  <2> DEFINE state == [pods[q] EXCEPT !.label = label]
  <2>1. state \in PodState /\ PodBecomes(q, state)
    BY <1>2 DEF TypeOK, FleetTypeOK, PodState, RelabelPod
  <2>2. pods'[q] = state
    BY <2>1 DEF PodBecomes, TypeOK, FleetTypeOK
  <2>3. Eligible(state) => q \in StartedPods'
    BY <2>1, <2>2 DEF Eligible, StartedPods
  <2> QED
    BY <2>1, <2>3, PodBecomesStarted
<1>3. ASSUME NEW c \in Cluster, Resync(c)
      PROVE  QueuesFor(StartedPods', queue')
  <2> DEFINE l == conn[c].listener
  <2>1. l \in Listener
    BY <1>3 DEF TypeOK, FleetTypeOK, Connection, Resync
  <2>2. PICK order \in SetToSeqs(Stored(c)) :
          queue' = [queue EXCEPT ![l] = queue[l] \o
            [k \in DOMAIN order |-> NotificationOf(order[k], pods[order[k]])]]
    BY <1>3 DEF Resync
  <2> DEFINE new == [k \in DOMAIN order |-> NotificationOf(order[k], pods[order[k]])]
  <2>3. new \in Seq(Notification) /\ QueueFor(StartedPods, new)
    BY StoreNotifications, StoreQueue DEF TypeOK
  <2>4. queue[l] \in Seq(Notification) /\ QueueFor(StartedPods', queue[l])
    BY <2>1 DEF TypeOK, FleetTypeOK, QueuesFor
  <2> HIDE DEF l, new
  <2>5. QueueFor(StartedPods', new)
    BY <2>3, Monotone
  <2>6. QueueFor(StartedPods', queue[l] \o new)
    BY <2>3, <2>4, <2>5, QueueAppend
  <2>7. queue' = [queue EXCEPT ![l] = queue[l] \o new]
    BY <2>2 DEF new
  <2> QED
    BY <2>1, <2>6, <2>7, OneQueueFor DEF TypeOK
<1>4. ASSUME NEW i \in Identity, NEW v, ApplyIdentity(i, v) \/ DeleteIdentity(i)
      PROVE  queue' = queue
  BY <1>4 DEF ApplyIdentity, DeleteIdentity, connVars
<1>5. ASSUME NEW c \in Cluster, NEW v, ApplyRegistration(c, v) \/ DeleteRegistration(c)
      PROVE  queue' = queue
  BY <1>5 DEF ApplyRegistration, DeleteRegistration, connVars
<1> QED
  BY <1>1, <1>2, <1>3, <1>4, <1>5 DEF Environment

------------------------------------------------------------------------------
(* A handler takes a notification of a pod of S and works for that pod.    *)
LEMMA HandleStarted ==
  ASSUME TypeOK, NEW S, QueuesFor(S, queue), JobsFor(S, job),
         NEW c \in Cluster, NEW ok \in BOOLEAN, HandlePodChange(c, ok)
  PROVE  JobsFor(S, job') /\ QueuesFor(S, queue') /\ spire' = spire
<1> DEFINE l == conn[c].listener
           n == Head(queue[l])
           matching == IF ok THEN findMatchingIdentities(n.pod, n.label, conn[c].reg) ELSE {}
<1>1. l \in Listener
  BY DEF TypeOK, FleetTypeOK, Connection, HandlePodChange
<1>2. queue[l] \in Seq(Notification) /\ queue[l] # <<>> /\ QueueFor(S, queue[l])
  BY <1>1 DEF TypeOK, FleetTypeOK, HandlePodChange, QueuesFor
<1>3. /\ job' = [job EXCEPT ![l] = ReconcileSinglePod(n, matching)]
      /\ queue' = [queue EXCEPT ![l] = Tail(queue[l])]
      /\ spire' = spire
  BY DEF HandlePodChange
<1> HIDE DEF l, matching
<1>4. Eligible(n) => n.pod \in S
  BY <1>2 DEF QueueFor
<1>5. QueueFor(S, Tail(queue[l]))
  <2>1. \A k \in DOMAIN Tail(queue[l]) :
          k + 1 \in DOMAIN queue[l] /\ Tail(queue[l])[k] = queue[l][k + 1]
    BY <1>2
  <2> QED
    BY <1>2, <2>1 DEF QueueFor
<1> HIDE DEF n
<1>6. JobFor(S, ReconcileSinglePod(n, matching))
  BY <1>4, NothingFor DEF ReconcileSinglePod, Job, JobFor, IdleJob
<1> QED
  BY <1>1, <1>3, <1>5, <1>6, OneJobFor, OneQueueFor DEF TypeOK

(* The next identity of an event is for the same pod.                      *)
LEMMA ContinueFor ==
  ASSUME NEW S, NEW j, DOMAIN j = DOMAIN IdleJob, j.pod \in S
  PROVE  JobFor(S, Continue(j))
BY NothingFor DEF Continue, JobFor, IdleJob

(* A handler writes only the entry it rendered, which carries the UID of   *)
(* its pod.                                                                *)
LEMMA HandlerStepStarted ==
  ASSUME TypeOK, NEW S, ServerFor(S, spire), JobsFor(S, job),
         NEW l \in Listener, HandlerStep(l)
  PROVE  ServerFor(S, spire') /\ JobsFor(S, job') /\ queue' = queue
<1> DEFINE j == job[l]
           Good == ServerFor(S, spire') /\ JobsFor(S, job') /\ queue' = queue
<1>0. DOMAIN j = DOMAIN IdleJob /\ JobOK(j) /\ JobFor(S, j)
  BY DEF TypeOK, JobsTypeOK, JobsFor
<1> HIDE DEF j
<1>1. ASSUME NEW ok \in BOOLEAN, GetNode(l, ok) PROVE Good
  <2> DEFINE new == IF ok /\ conn[Home[j.pod]] # Nil THEN [j EXCEPT !.pc = "ensure"]
                    ELSE IdleJob
  <2>1. j.pc = "node" /\ job' = [job EXCEPT ![l] = new] /\ spire' = spire /\ queue' = queue
    BY <1>1 DEF GetNode, j
  <2>2. JobFor(S, new)
    BY <1>0, <2>1, NothingFor DEF JobFor, IdleJob
  <2> HIDE DEF new
  <2> QED
    BY <2>1, <2>2, OneJobFor DEF TypeOK
<1>2. ASSUME NEW ok \in BOOLEAN, NEW i \in Identity, NEW s \in IdentitySpec,
             EnsureList(l, i, s, ok)
      PROVE  Good
  <2> DEFINE rest == [j EXCEPT !.ensure = @ \ {<<i, s>>}]
             e == Declaration(i, s, Home[j.pod], j.pod, j.label)
             found == IF ok THEN {x \in ListEntries : x.id = e.id} ELSE {}
             upToDate == found # {} /\ \A x \in found : getOutdatedEntryFields(e, x) = {}
             new == IF ~CanRender(s) \/ upToDate THEN Continue(rest)
                    ELSE [rest EXCEPT !.pc = "write", !.entry = e, !.found = found]
  <2>1. j.pc = "ensure" /\ job' = [job EXCEPT ![l] = new] /\ spire' = spire /\ queue' = queue
    BY <1>2 DEF EnsureList, j
  <2>2. j.pod \in Pod /\ j.label \in Label /\ j.pod \in S
    BY <1>0, <2>1 DEF JobOK, JobFor
  <2>3. OwnedBy(S, e)
    BY <2>2, RenderedHasUID DEF OwnedBy
  <2> HIDE DEF e, found, upToDate
  <2>4. DOMAIN rest = DOMAIN IdleJob /\ rest.pod \in S
    BY <1>0, <2>2 DEF IdleJob
  <2>5. JobFor(S, Continue(rest))
    BY <2>4, ContinueFor
  <2>6. JobFor(S, [rest EXCEPT !.pc = "write", !.entry = e, !.found = found])
    BY <2>3, <2>4 DEF JobFor, IdleJob
  <2>7. JobFor(S, new)
    BY <2>5, <2>6
  <2> HIDE DEF new
  <2> QED
    BY <2>1, <2>7, OneJobFor DEF TypeOK
<1>3. ASSUME NEW ok \in BOOLEAN, EnsureWrite(l, ok) PROVE Good
  <2>1. j.pc = "write" /\ job' = [job EXCEPT ![l] = Continue(j)] /\ queue' = queue
    BY <1>3 DEF EnsureWrite, j
  <2>2. j.pod \in S /\ OwnedBy(S, j.entry)
    BY <1>0, <2>1 DEF JobFor
  <2>3. ServerFor(S, spire')
    BY <1>3, <2>2, WriteFor DEF EnsureWrite, j
  <2>4. JobFor(S, Continue(j))
    BY <1>0, <2>2, ContinueFor
  <2> QED
    BY <2>1, <2>3, <2>4, OneJobFor DEF TypeOK
<1>4. ASSUME NEW ok \in BOOLEAN, RemoveList(l, ok) PROVE Good
  <2> DEFINE doomed == deleteEntriesForPod(ListEntries, j.pod)
             new == IF ~ok \/ doomed = {} THEN IdleJob
                    ELSE [j EXCEPT !.pc = "remove", !.remove = doomed]
  <2>1. job' = [job EXCEPT ![l] = new] /\ spire' = spire /\ queue' = queue
    BY <1>4 DEF RemoveList, j
  <2> HIDE DEF doomed
  <2>2. JobFor(S, new)
    BY <1>0, NothingFor DEF JobFor, IdleJob
  <2> HIDE DEF new
  <2> QED
    BY <2>1, <2>2, OneJobFor DEF TypeOK
<1>5. ASSUME NEW ok \in BOOLEAN, NEW e \in job[l].remove, RemoveOne(l, e, ok) PROVE Good
  <2> DEFINE new == IF j.remove \ {e} = {} THEN IdleJob
                    ELSE [j EXCEPT !.remove = j.remove \ {e}]
  <2>1. j.pc = "remove" /\ job' = [job EXCEPT ![l] = new] /\ queue' = queue
    BY <1>5 DEF RemoveOne, j
  <2>2. JobFor(S, new)
    BY <1>0, <2>1, NothingFor DEF JobFor, IdleJob
  <2> HIDE DEF new
  <2>3. ServerFor(S, spire')
    BY <1>5, DeleteFor DEF RemoveOne
  <2> QED
    BY <2>1, <2>2, <2>3, OneJobFor DEF TypeOK
<1> QED
  BY <1>1, <1>2, <1>3, <1>4, <1>5 DEF HandlerStep

------------------------------------------------------------------------------
(* A pass declares entries for the eligible pods of the stores only.       *)
LEMMA DeclaredFor ==
  ASSUME TypeOK, NEW c \in Cluster, NEW i \in Identity, <<c, i>> \in pending, NEW skipped
  PROVE  PassFor(StartedPods, processWorkloadIdentity(c, i, skipped))
<1>1. idents[i] \in IdentitySpec
  BY DEF TypeOK, PassTypeOK
<1>2. ASSUME NEW p \in Visited(c, i)
      PROVE  OwnedBy(StartedPods, Declaration(i, idents[i], c, p, pods[p].label))
  <2>1. p \in Pod /\ Eligible(pods[p])
    BY DEF Visited, getPodsFromInformer, Stored
  <2>2. pods[p].label \in Label /\ p \in StartedPods
    BY <2>1 DEF TypeOK, FleetTypeOK, PodState, Eligible, StartedPods
  <2> QED
    BY <1>1, <2>1, <2>2, RenderedHasUID DEF OwnedBy
<1> QED
  BY <1>2 DEF processWorkloadIdentity, PassFor

(* Stopping a connection only drops notifications.                         *)
LEMMA StopFor ==
  ASSUME NEW S, QueuesFor(S, queue), NEW c \in Cluster, FleetTypeOK
  PROVE  /\ QueuesFor(S, stopClusterConnection(c))
         /\ stopClusterConnection(c) \in [Listener -> Seq(Notification)]
<1>1. CASE conn[c] = Nil
  BY <1>1 DEF stopClusterConnection, FleetTypeOK
<1>2. CASE conn[c] # Nil
  <2>1. conn[c].listener \in Listener
    BY <1>2 DEF FleetTypeOK, Connection
  <2> QED
    BY <1>2, <2>1, NothingFor, StopType DEF stopClusterConnection, QueuesFor, FleetTypeOK
<1> QED
  BY <1>1, <1>2

(* A new connection queues notifications of its store.                     *)
LEMMA ConnectFor ==
  ASSUME TypeOK, NEW S, StartedPods \subseteq S, QueuesFor(S, queue), NEW c \in Cluster,
         NEW reg, NEW ok, AddOrUpdateCluster(c, reg, ok, IdleListeners)
  PROVE  QueuesFor(S, queue')
<1>1. ASSUME NEW l \in IdleListeners, NEW order \in SetToSeqs(Stored(c)),
             queue' = [stopClusterConnection(c) EXCEPT ![l] =
               [k \in DOMAIN order |-> NotificationOf(order[k], pods[order[k]])]]
      PROVE  QueuesFor(S, queue')
  <2> DEFINE new == [k \in DOMAIN order |-> NotificationOf(order[k], pods[order[k]])]
  <2>1. l \in Listener
    BY DEF IdleListeners
  <2>2. QueueFor(StartedPods, new)
    BY StoreQueue DEF TypeOK
  <2>3. queue' = [stopClusterConnection(c) EXCEPT ![l] = new]
    BY <1>1
  <2> HIDE DEF new
  <2>4. QueueFor(S, new)
    BY <2>2, Monotone
  <2> QED
    BY <2>1, <2>3, <2>4, StopFor DEF TypeOK, QueuesFor
<1>2. ASSUME queue' = queue \/ queue' = stopClusterConnection(c) PROVE QueuesFor(S, queue')
  BY <1>2, StopFor DEF TypeOK
<1> QED
  BY <1>1, <1>2 DEF AddOrUpdateCluster

(* What a pass writes comes from what it declared.                         *)
LEMMA FullPassStarted ==
  ASSUME TypeOK, FullPass, NEW S, StartedPods \subseteq S,
         ServerFor(S, spire), QueuesFor(S, queue),
         PassFor(S, declared \cup toCreate \cup toUpdate)
  PROVE  /\ ServerFor(S, spire') /\ QueuesFor(S, queue') /\ job' = job
         /\ PassFor(S, declared' \cup toCreate' \cup toUpdate')
<1> DEFINE Server == ServerFor(S, spire')
           Queues == QueuesFor(S, queue')
           Pass == PassFor(S, declared' \cup toCreate' \cup toUpdate')
           Good == Server /\ Queues /\ Pass /\ job' = job
<1>0. ASSUME Return PROVE Pass
  BY <1>0 DEF Return, PassFor
<1>1. ASSUME ListClusters PROVE Good
  BY <1>1 DEF ListClusters, passEnv, connVars, stateVars, diffVars
<1>2. ASSUME NEW c \in Cluster, NEW ok \in BOOLEAN, ConnectCluster(c, ok) PROVE Good
  <2>1. AddOrUpdateCluster(c, clusters[c], ok, IdleListeners)
    BY <1>2 DEF ConnectCluster
  <2>2. Queues
    BY <2>1, ConnectFor
  <2> QED
    BY <1>2, <2>2 DEF ConnectCluster, passEnv, stateVars, diffVars
<1>3. ASSUME NEW c \in Cluster, PruneCluster(c) PROVE Good
  <2>1. Queues
    BY <1>3, StopFor DEF PruneCluster, RemoveCluster, TypeOK
  <2> QED
    BY <1>3, <2>1 DEF PruneCluster, passEnv, passVars, stateVars, diffVars
<1>4. ASSUME NEW ok \in BOOLEAN, ListIdentities(ok) PROVE Good
  BY <1>0, <1>4 DEF ListIdentities, passEnv, connVars, stateVars, diffVars
<1>5. ASSUME NEW ok \in BOOLEAN, ListCurrent(ok) PROVE Good
  BY <1>0, <1>5 DEF ListCurrent, passEnv, connVars, diffVars
<1>6. ASSUME NEW c \in Cluster, NEW i \in Identity, NEW skipped \in SUBSET Pod,
             ProcessCluster(c, i, skipped)
      PROVE  Good
  <2>1. PassFor(S, processWorkloadIdentity(c, i, skipped))
    BY <1>6, DeclaredFor, Monotone DEF ProcessCluster, PassFor
  <2>2. Pass
    BY <1>6, <2>1 DEF ProcessCluster, AddDeclared, Put, PassFor, diffVars
  <2> QED
    BY <1>6, <2>2 DEF ProcessCluster, passEnv, connVars
<1>7. ASSUME GetChanges PROVE Good
  <2>1. toCreate' \subseteq declared /\ toUpdate' \subseteq declared /\ declared' = declared
    BY <1>7 DEF GetChanges, toCreateOf, toUpdateOf, stateVars
  <2>2. Pass
    BY <2>1 DEF PassFor
  <2> QED
    BY <1>7, <2>2 DEF GetChanges, passEnv, connVars
<1>8. ASSUME NEW ok \in BOOLEAN, NEW e \in toDelete, ApplyDelete(e, ok) PROVE Good
  <2>1. Server
    BY <1>8, DeleteFor DEF ApplyDelete
  <2> QED
    BY <1>8, <2>1 DEF ApplyDelete, passEnv, connVars, stateVars
<1>9. ASSUME NEW ok \in BOOLEAN, NEW e \in toCreate, ApplyCreate(e, ok) PROVE Good
  <2>1. OwnedBy(S, e)
    BY DEF PassFor
  <2>2. Server
    BY <1>9, <2>1, WriteFor DEF ApplyCreate
  <2> QED
    BY <1>9, <2>2 DEF ApplyCreate, passEnv, connVars, stateVars, PassFor
<1>10. ASSUME NEW ok \in BOOLEAN, NEW e \in toUpdate, ApplyUpdate(e, ok) PROVE Good
  <2>1. OwnedBy(S, e)
    BY DEF PassFor
  <2>2. Server
    BY <1>10, <2>1, WriteFor DEF ApplyUpdate
  <2> QED
    BY <1>10, <2>2 DEF ApplyUpdate, passEnv, connVars, stateVars, PassFor
<1>11. ASSUME EndPass PROVE Good
  BY <1>0, <1>11 DEF EndPass, passEnv, connVars
<1> QED
  BY <1>1, <1>2, <1>3, <1>4, <1>5, <1>6, <1>7, <1>8, <1>9, <1>10, <1>11 DEF FullPass

------------------------------------------------------------------------------
(* SPIRE starts without managed entries, and nothing is on its way there.  *)
LEMMA StartedInitially == Init => StartedInv
<1> SUFFICES ASSUME Init PROVE StartedInv
  OBVIOUS
<1>1. Managed = {}
  BY ForeignAssumption DEF Init, SpireInit, Managed
<1>2. \A l \in Listener : JobFor(StartedPods, job[l]) /\ QueueFor(StartedPods, queue[l])
  BY NothingFor DEF Init, HandlerInit, FleetInit
<1> QED
  BY <1>1, <1>2 DEF StartedInv, OnlyForStartedPods, Init, MainInit, PassCleared

(* Every step of the registrar.                                            *)
LEMMA StepStarted ==
  ASSUME TypeOK, StartedInv, Step
  PROVE  StartedInv'
<1> DEFINE S == StartedPods'
           Flow == declared \cup toCreate \cup toUpdate
           Goal == /\ ServerFor(S, spire') /\ JobsFor(S, job') /\ QueuesFor(S, queue')
                   /\ PassFor(S, declared' \cup toCreate' \cup toUpdate')
<1>1. StartedPods \subseteq S
  BY StartedGrows
<1>2. ServerFor(S, spire) /\ PassFor(S, Flow) /\ JobsFor(S, job) /\ QueuesFor(S, queue)
  BY <1>1, StartedParts, Monotone DEF ServerFor, PassFor, JobsFor, QueuesFor
<1>3. CASE Environment /\ UNCHANGED <<spire, job, passVars>>
  BY <1>1, <1>2, <1>3, EnvironmentStarted, StartedParts
     DEF passVars, stateVars, diffVars
<1>4. CASE Handler /\ UNCHANGED passVars
  <2>1. declared' \cup toCreate' \cup toUpdate' = Flow
    BY <1>4 DEF passVars, stateVars, diffVars
  <2> HIDE DEF S
  <2>2. ServerFor(S, spire') /\ JobsFor(S, job') /\ QueuesFor(S, queue')
    BY <1>2, <1>4, HandleStarted, HandlerStepStarted DEF Handler
  <2> QED
    BY <1>2, <2>1, <2>2, StartedParts DEF S
<1>5. CASE FullPass
  <2> HIDE DEF S
  <2>1. Goal
    BY <1>1, <1>2, <1>5, FullPassStarted
  <2> QED
    BY <2>1, StartedParts DEF S
<1>6. CASE Restart
  <2>1. JobsFor(S, job') /\ QueuesFor(S, queue') /\ spire' = spire
    BY <1>6, NothingFor DEF Restart, JobsFor, QueuesFor
  <2>2. PassFor(S, declared' \cup toCreate' \cup toUpdate')
    BY <1>6 DEF Restart, Return, PassFor
  <2> QED
    BY <1>2, <2>1, <2>2, StartedParts
<1> QED
  BY <1>3, <1>4, <1>5, <1>6 DEF Step

(* A stuttering step.                                                      *)
LEMMA StutterStarted ==
  ASSUME StartedInv, UNCHANGED vars
  PROVE  StartedInv'
BY DEF vars, fleetVars, passVars, stateVars, diffVars, StartedInv, OnlyForStartedPods,
       Managed, StartedPods

(* StartedInv is inductive relative to type correctness.                   *)
LEMMA StartedStep == TypeOK /\ StartedInv /\ [Next]_vars => StartedInv'
BY StepStarted, StutterStarted DEF Next

(* A pod that was never running never gets an entry, for any fleet, any    *)
(* number of listeners and any interleaving of events, passes, failures    *)
(* and restarts.                                                           *)
THEOREM StartedSafe == Spec => []OnlyForStartedPods
<1>1. Init => StartedInv
  BY StartedInitially
<1>2. TypeOK /\ StartedInv /\ [Next]_vars => StartedInv'
  BY StartedStep
<1>3. StartedInv => OnlyForStartedPods
  BY DEF StartedInv
<1> QED
  BY <1>1, <1>2, <1>3, TypeCorrect, PTL DEF Spec

------------------------------------------------------------------------------
(* A key forgets the order of the selectors and nothing else.              *)
LEMMA SameBagSameSet ==
  ASSUME NEW s, NEW t, ToBag(s) = ToBag(t)
  PROVE  ToSet(s) = ToSet(t)
<1>1. DOMAIN ToBag(s) = ToSet(s) /\ DOMAIN ToBag(t) = ToSet(t)
  BY DEF ToBag, ToSet, Range
<1> QED
  BY <1>1

(* The ID of a rendering is the prefix and its key.                        *)
LEMMA RenderedID ==
  ASSUME NEW e \in Rendered
  PROVE  e.id = <<EntryIDPrefix, MakeEntryKey(e)>>
<1>1. PICK i \in Identity, s \in IdentitySpec, p \in Pod, l \in Label :
             e = Declaration(i, s, Home[p], p, l)
  BY DEF Rendered
<1> DEFINE r == RenderEntry(i, s, Home[p], p, l)
<1>2. e.id = <<EntryIDPrefix, MakeEntryKey(r)>>
  BY <1>1 DEF Declaration, WithID, RenderEntry
<1>3. e.spiffeID = r.spiffeID /\ e.parentID = r.parentID /\ e.selectors = r.selectors
  BY <1>1 DEF Declaration, WithID, RenderEntry
<1> QED
  BY <1>2, <1>3 DEF MakeEntryKey

(* Renderings with the same ID identify the same workload.                 *)
LEMMA SameIDSameWorkload ==
  ASSUME NEW x \in Rendered, NEW y \in Rendered, x.id = y.id
  PROVE  Similar(x, y)
<1>1. MakeEntryKey(x) = MakeEntryKey(y)
  BY RenderedID
<1>2. /\ x.spiffeID = y.spiffeID /\ x.parentID = y.parentID
      /\ ToBag(x.selectors) = ToBag(y.selectors)
  BY <1>1 DEF MakeEntryKey
<1> QED
  BY <1>2, SameBagSameSet DEF Similar

(* Whatever has the ID of a rendering is managed, hence a rendering.       *)
LEMMA IDOfRendered ==
  ASSUME TypeOK, NEW e \in Rendered, NEW x \in spire, x.id = e.id
  PROVE  x \in Rendered
<1>1. shouldProcessEntry(x)
  BY RenderedManaged DEF shouldProcessEntry
<1> QED
  BY <1>1, ManagedRendered DEF TypeOK, ServerTypeOK

------------------------------------------------------------------------------
(* One request to SPIRE, while the pods are as they are: what is written   *)
(* is for a pod that has run.                                              *)
Request ==
  /\ pods' = pods
  /\ \E e \in Rendered : \/ OwnedBy(StartedPods, e) /\ (CreateEntry(e) \/ UpdateEntry(e))
                         \/ DeleteEntry(e.id)

(* A step that changes SPIRE is a single request.                          *)
LEMMA OneRequest ==
  ASSUME TypeOK, StartedInv, Step, spire' # spire
  PROVE  Request
<1> USE DEF Request
<1>1. ASSUME NEW l \in Listener, NEW ok \in BOOLEAN, EnsureWrite(l, ok) PROVE Request
  <2>1. job[l].pc = "write" /\ job[l].entry \in Rendered
    BY <1>1 DEF EnsureWrite, TypeOK, JobsTypeOK, JobOK
  <2>2. OwnedBy(StartedPods, job[l].entry)
    BY <2>1 DEF StartedInv, JobFor
  <2>3. CreateEntry(job[l].entry) \/ UpdateEntry(job[l].entry)
    BY <1>1 DEF EnsureWrite
  <2> QED
    BY <1>1, <2>1, <2>2, <2>3 DEF EnsureWrite, handlerEnv
<1>2. ASSUME NEW l \in Listener, NEW ok \in BOOLEAN, NEW e \in job[l].remove,
             RemoveOne(l, e, ok)
      PROVE  Request
  <2>1. e \in Rendered
    BY DEF TypeOK, JobsTypeOK, JobOK
  <2> QED
    BY <1>2, <2>1 DEF RemoveOne, handlerEnv
<1>3. CASE Handler
  <2>1. ASSUME NEW l \in Listener, NEW ok \in BOOLEAN,
               \/ GetNode(l, ok) \/ RemoveList(l, ok)
               \/ \E i \in Identity, s \in IdentitySpec : EnsureList(l, i, s, ok)
        PROVE  FALSE
    BY <2>1 DEF GetNode, EnsureList, RemoveList
  <2>2. ASSUME NEW c \in Cluster, NEW ok \in BOOLEAN, HandlePodChange(c, ok)
        PROVE  FALSE
    BY <2>2 DEF HandlePodChange
  <2> QED
    BY <1>1, <1>2, <1>3, <2>1, <2>2 DEF Handler, HandlerStep
<1>4. CASE FullPass
  <2>1. /\ toDelete \subseteq Rendered /\ toCreate \subseteq Rendered
        /\ toUpdate \subseteq Rendered
    BY DEF TypeOK, PassTypeOK
  <2>2. ASSUME NEW ok \in BOOLEAN, NEW e \in toDelete, ApplyDelete(e, ok) PROVE Request
    BY <2>1, <2>2 DEF ApplyDelete, passEnv
  <2>3. ASSUME NEW ok \in BOOLEAN, NEW e \in toCreate, ApplyCreate(e, ok) PROVE Request
    BY <2>1, <2>3 DEF ApplyCreate, passEnv, StartedInv
  <2>4. ASSUME NEW ok \in BOOLEAN, NEW e \in toUpdate, ApplyUpdate(e, ok) PROVE Request
    BY <2>1, <2>4 DEF ApplyUpdate, passEnv, StartedInv
  <2> QED
    BY <1>4, <2>2, <2>3, <2>4
       DEF FullPass, ListClusters, ConnectCluster, PruneCluster, ListIdentities,
           ListCurrent, ProcessCluster, GetChanges, EndPass
<1> QED
  BY <1>3, <1>4 DEF Step, Restart

------------------------------------------------------------------------------
(* An ID names at most one of the registrar's entries: SPIRE refuses to    *)
(* create a second one, and an update replaces the first.                  *)
UniqueIDs == \A x, y \in spire : x \in Rendered /\ y.id = x.id => x = y

(* SPIRE starts without entries of the registrar.                          *)
LEMMA UniqueInitially == Init => UniqueIDs
BY ForeignAssumption, RenderedManaged DEF Init, SpireInit, UniqueIDs

(* It survives every request.                                              *)
LEMMA RequestUnique ==
  ASSUME UniqueIDs, spire' = spire \/ Request
  PROVE  UniqueIDs'
<1>1. CASE spire' = spire
  BY <1>1 DEF UniqueIDs, Rendered
<1>2. CASE Request /\ spire' # spire
  <2>1. PICK e \in Rendered : CreateEntry(e) \/ UpdateEntry(e) \/ DeleteEntry(e.id)
    BY <1>2 DEF Request
  <2>2. CASE CreateEntry(e)
    BY <1>2, <2>2 DEF CreateEntry, UniqueIDs
  <2>3. CASE UpdateEntry(e)
    BY <1>2, <2>3 DEF UpdateEntry, UniqueIDs
  <2>4. CASE DeleteEntry(e.id)
    BY <2>4 DEF DeleteEntry, UniqueIDs
  <2> QED
    BY <2>1, <2>2, <2>3, <2>4
<1> QED
  BY <1>1, <1>2

(* UniqueIDs is inductive relative to the invariants proved so far.        *)
LEMMA UniqueStep == TypeOK /\ StartedInv /\ UniqueIDs /\ [Next]_vars => UniqueIDs'
BY OneRequest, RequestUnique DEF Next, vars

------------------------------------------------------------------------------
(* Every request is a line of the ledger: a creation that takes effect is  *)
(* a grant, an update amends the one entry with its ID, a deletion revokes *)
(* it; requests without effect are stuttering.                             *)
LEMMA RequestLedger ==
  ASSUME TypeOK, UniqueIDs, StartedPods \subseteq StartedPods', spire' = spire \/ Request
  PROVE  [L!Next]_<<spire, StartedPods>>
<1>1. CASE spire' = spire
  BY <1>1 DEF L!Next, L!Start
<1>2. CASE Request /\ spire' # spire
  <2>1. PICK e \in Rendered : \/ CreateEntry(e) /\ OwnedBy(StartedPods, e)
                              \/ UpdateEntry(e)
                              \/ DeleteEntry(e.id)
    BY <1>2 DEF Request
  <2>2. StartedPods' = StartedPods
    BY <1>2 DEF Request, StartedPods
  <2>3. CASE CreateEntry(e) /\ OwnedBy(StartedPods, e)
    <3>1. (\A x \in spire : x.id # e.id /\ ~Similar(x, e)) /\ spire' = spire \cup {e}
      BY <1>2, <2>3 DEF CreateEntry
    <3>2. \A x \in spire : ~L!SameWorkload(x, e)
      BY <3>1 DEF Similar, L!SameWorkload, ToSet, L!ToSet
    <3>3. L!Grant(e)
      BY <2>3, <3>1, <3>2 DEF L!Grant, OwnedBy
    <3> QED
      BY <2>2, <3>3 DEF L!Next, L!Entry
  <2>4. CASE UpdateEntry(e)
    <3>1. PICK x \in spire : x.id = e.id
      BY <1>2, <2>4 DEF UpdateEntry
    <3>2. x \in Rendered
      BY <3>1, IDOfRendered
    <3>3. {y \in spire : y.id # e.id} = spire \ {x}
      BY <3>1, <3>2 DEF UniqueIDs
    <3>4. spire' = (spire \ {x}) \cup {e}
      BY <2>4, <3>1, <3>3 DEF UpdateEntry
    <3>5. L!SameWorkload(x, e)
      BY <3>1, <3>2, SameIDSameWorkload DEF Similar, L!SameWorkload, ToSet, L!ToSet
    <3>6. L!Amend(x, e)
      BY <3>1, <3>2, <3>4, <3>5 DEF L!Amend
    <3> QED
      BY <2>2, <3>2, <3>6 DEF L!Next, L!Entry
  <2>5. CASE DeleteEntry(e.id)
    <3>1. PICK x \in spire : x.id = e.id
      BY <1>2, <2>5 DEF DeleteEntry
    <3>2. x \in Rendered
      BY <3>1, IDOfRendered
    <3>3. spire' = spire \ {x}
      BY <2>5, <3>1, <3>2 DEF UniqueIDs, DeleteEntry
    <3>4. L!Revoke(x)
      BY <3>1, <3>2, <3>3 DEF L!Revoke
    <3> QED
      BY <2>2, <3>2, <3>4 DEF L!Next, L!Entry
  <2> QED
    BY <2>1, <2>3, <2>4, <2>5
<1> QED
  BY <1>1, <1>2

(* So is every step of the registrar.                                      *)
LEMMA LedgerStep ==
  ASSUME TypeOK, StartedInv, UniqueIDs, [Next]_vars
  PROVE  [L!Next]_<<spire, StartedPods>>
<1>1. CASE Next
  BY <1>1, StartedGrows, OneRequest, RequestLedger DEF Next
<1>2. CASE UNCHANGED vars
  BY <1>2, RequestLedger DEF vars, fleetVars, StartedPods
<1> QED
  BY <1>1, <1>2

(* Whatever the interleaving of passes, handlers, failures and restarts,   *)
(* and for any fleet: the registrar only opens lines for pods that have    *)
(* run, amends its own lines without changing their workload, and strikes  *)
(* out its own lines, one line at a time (ImplementsLedger).               *)
THEOREM LedgerImplemented == Spec => ImplementsLedger
<1>1. Init => L!Init
  BY ForeignAssumption, RenderedManaged DEF Init, SpireInit, L!Init
<1>2. Init => StartedInv /\ UniqueIDs
  BY StartedInitially, UniqueInitially
<1>3. TypeOK /\ StartedInv /\ UniqueIDs /\ [Next]_vars => StartedInv' /\ UniqueIDs'
  BY StartedStep, UniqueStep
<1>4. TypeOK /\ StartedInv /\ UniqueIDs /\ [Next]_vars => [L!Next]_<<spire, StartedPods>>
  BY LedgerStep
<1> QED
  BY <1>1, <1>2, <1>3, <1>4, TypeCorrect, PTL DEF Spec, ImplementsLedger, L!Spec

=============================================================================
