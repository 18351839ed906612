---------------------------- MODULE WantedProofs ----------------------------
(***************************************************************************)
(* What the registrar may do to entries that are wanted.  The full pass    *)
(* decides from a list of entries, from connections and from informer      *)
(* stores that it read one after the other while handlers wrote and pods   *)
(* started and stopped; a handler decides from a notification that can be  *)
(* far behind.  For every fleet:                                           *)
(*   PassKeepsWanted    a pass deletes no entry that is wanted at that     *)
(*                      moment, as long as no label, no configuration      *)
(*                      changes and no call fails;                         *)
(*   HandlerLossHeals   when a stale notification makes a handler delete a *)
(*                      wanted entry, the notification that brings it back *)
(*                      is in the same queue.                              *)
(* Both need a condition on the selectors that identities add, which the   *)
(* program does not impose; it is a hypothesis of the theorems.            *)
(***************************************************************************)
EXTENDS LedgerProofs

(* No identity adds the pod-uid selector of a pod.  An entry then carries  *)
(* the UID of one pod only, the one it was rendered for.                   *)
OwnUIDOnly ==
  \A s \in IdentitySpec, p \in Pod : \A k \in DOMAIN s.selectors :
    s.selectors[k] # PodUIDSelector(p)

------------------------------------------------------------------------------
(* The difference a pass applies, and the list of entries it came from.    *)
DiffInv ==
  /\ pc # "apply" => toDelete = {}
  /\ \A e \in toDelete : e \in current /\ \A d \in declared : d.id # e.id
  /\ \A e \in current : OwnedBy(StartedPods, e)

(* Clusters that have gone through AddOrUpdateCluster are connected under  *)
(* the registration the pass listed.                                       *)
ConnectedAsListed ==
  \A c \in Cluster : c \notin connecting /\ clusters[c] # Nil /\ clusters[c].enabled
                     => conn[c] # Nil /\ conn[c].reg = clusters[c]

(* An entry that the pass found, and that is wanted now, has been declared *)
(* or will be.                                                             *)
NothingMissed ==
  \A e \in current, i \in Identity, p \in Pod :
    Wanted(i, p) /\ EntryFor(i, p).id = e.id =>
      <<Home[p], i>> \in pending \/ \E d \in declared : d.id = e.id

(* What the pass has read is still true, as long as nothing but the phase  *)
(* of pods changes.                                                        *)
PassView ==
  /\ pc # "idle"
  /\ clusters = registry
  /\ ConnectedAsListed
  /\ pc # "connect" => connecting = {} /\ idents = identities
  /\ pc \in {"process", "apply"} => NothingMissed

PassInv == DiffInv /\ (noise # "noisy" => PassView)

------------------------------------------------------------------------------
(* The selectors of a rendering: the pod's UID, then those of the spec.    *)
LEMMA RenderedSelectors ==
  ASSUME NEW e \in Rendered
  PROVE  \E s \in IdentitySpec, p \in Pod :
           /\ e.selectors \in Seq(Selector \cup {PodUIDSelector(p)})
           /\ Len(e.selectors) = Len(s.selectors) + 1
           /\ e.selectors[1] = PodUIDSelector(p)
           /\ \A k \in 2..Len(e.selectors) :
                k - 1 \in DOMAIN s.selectors /\ e.selectors[k] = s.selectors[k - 1]
<1>1. PICK i \in Identity, s \in IdentitySpec, p \in Pod, l \in Label :
             e = Declaration(i, s, Home[p], p, l)
  BY DEF Rendered
<1> DEFINE u == PodUIDSelector(p)
           T == Selector \cup {u}
<1>2. e.selectors = <<u>> \o s.selectors
  BY <1>1 DEF Declaration, WithID, RenderEntry
<1>3. s.selectors \in Seq(Selector)
  BY FleetAssumption
<1> HIDE DEF u
<1>4. s.selectors \in Seq(T) /\ <<u>> \in Seq(T)
  BY <1>3
<1>5. /\ <<u>> \o s.selectors \in Seq(T)
      /\ Len(<<u>> \o s.selectors) = Len(s.selectors) + 1
      /\ (<<u>> \o s.selectors)[1] = u
      /\ \A k \in 2..(Len(s.selectors) + 1) :
           k - 1 \in DOMAIN s.selectors /\ (<<u>> \o s.selectors)[k] = s.selectors[k - 1]
  BY <1>4
<1> QED
  BY <1>2, <1>5 DEF u

(* The UID in a selector is that of one pod.                               *)
LEMMA UIDInjective ==
  ASSUME NEW p, NEW q, PodUIDSelector(p) = PodUIDSelector(q)
  PROVE  p = q
BY DEF PodUIDSelector

(* An entry carries one pod's UID only.                                    *)
LEMMA OneUID ==
  ASSUME OwnUIDOnly, NEW e \in Rendered, NEW p \in Pod, NEW q \in Pod,
         HasPodUID(e, p), HasPodUID(e, q)
  PROVE  p = q
<1>1. PICK s \in IdentitySpec, r \in Pod :
           /\ e.selectors \in Seq(Selector \cup {PodUIDSelector(r)})
           /\ Len(e.selectors) = Len(s.selectors) + 1
           /\ e.selectors[1] = PodUIDSelector(r)
           /\ \A k \in 2..Len(e.selectors) :
                k - 1 \in DOMAIN s.selectors /\ e.selectors[k] = s.selectors[k - 1]
  BY RenderedSelectors
<1>2. ASSUME NEW x \in Pod, HasPodUID(e, x) PROVE x = r
  <2>1. PICK k \in DOMAIN e.selectors : e.selectors[k] = PodUIDSelector(x)
    BY <1>2 DEF HasPodUID
  <2>2. k = 1 \/ k \in 2..Len(e.selectors)
    BY <1>1
  <2>3. k \notin 2..Len(e.selectors)
    BY <1>1, <2>1 DEF OwnUIDOnly
  <2> QED
    BY <1>1, <2>1, <2>2, <2>3, UIDInjective
<1> QED
  BY <1>2

(* Renderings with the same ID carry the same UIDs.                        *)
LEMMA SameIDSameUID ==
  ASSUME NEW x \in Rendered, NEW y \in Rendered, x.id = y.id, NEW p, HasPodUID(x, p)
  PROVE  HasPodUID(y, p)
<1>1. ToSet(x.selectors) = ToSet(y.selectors)
  BY SameIDSameWorkload DEF Similar
<1>2. PodUIDSelector(p) \in ToSet(x.selectors)
  BY DEF HasPodUID, ToSet
<1>3. PodUIDSelector(p) \in ToSet(y.selectors)
  BY <1>1, <1>2
<1> QED
  BY <1>3 DEF HasPodUID, ToSet

------------------------------------------------------------------------------
(* Before the first pass there is nothing to apply.                        *)
LEMMA PassInitially == Init => PassInv
BY DEF Init, MainInit, PassCleared, PassInv, DiffInv

(* Neither the environment nor a handler touches a connection; a handler   *)
(* sees no pod and no resource change either.                              *)
LEMMA Bystanders ==
  /\ Environment => conn' = conn
  /\ Handler => UNCHANGED <<identities, registry, pods, conn>>
<1>1. ASSUME Environment PROVE conn' = conn
  <2>1. ASSUME NEW p \in Pod, NEW v, MovePod(p, v) \/ RelabelPod(p, v) PROVE conn' = conn
    BY <2>1 DEF MovePod, RelabelPod, PodBecomes
  <2>2. ASSUME NEW i, NEW v, ApplyIdentity(i, v) \/ DeleteIdentity(i) PROVE conn' = conn
    BY <2>2 DEF ApplyIdentity, DeleteIdentity, connVars
  <2>3. ASSUME NEW c, NEW v, ApplyRegistration(c, v) \/ DeleteRegistration(c)
        PROVE  conn' = conn
    BY <2>3 DEF ApplyRegistration, DeleteRegistration, connVars
  <2>4. ASSUME NEW c \in Cluster, Resync(c) PROVE conn' = conn
    BY <2>4 DEF Resync
  <2> QED
    BY <1>1, <2>1, <2>2, <2>3, <2>4 DEF Environment
<1>2. ASSUME Handler PROVE UNCHANGED <<identities, registry, pods, conn>>
  <2>1. ASSUME NEW c, NEW ok, HandlePodChange(c, ok) PROVE UNCHANGED handlerEnv
    BY <2>1 DEF HandlePodChange
  <2>2. ASSUME NEW l, NEW ok, GetNode(l, ok) \/ EnsureWrite(l, ok) \/ RemoveList(l, ok)
        PROVE  UNCHANGED handlerEnv
    BY <2>2 DEF GetNode, EnsureWrite, RemoveList
  <2>3. ASSUME NEW l, NEW ok, NEW i, NEW s, EnsureList(l, i, s, ok)
        PROVE  UNCHANGED handlerEnv
    BY <2>3 DEF EnsureList
  <2>4. ASSUME NEW l, NEW ok, NEW e, RemoveOne(l, e, ok) PROVE UNCHANGED handlerEnv
    BY <2>4 DEF RemoveOne
  <2>5. UNCHANGED handlerEnv
    BY <1>2, <2>1, <2>2, <2>3, <2>4 DEF Handler, HandlerStep
  <2> QED
    BY <2>5 DEF handlerEnv, resourceVars
<1> QED
  BY <1>1, <1>2

(* A pod that starts to run has not run before.                            *)
LEMMA StartsOnce ==
  ASSUME TypeOK, Environment, NEW p \in Pod, Eligible(pods'[p]), ~Eligible(pods[p])
  PROVE  p \notin StartedPods
<1>1. ASSUME NEW q \in Pod, NEW phase \in Phase, MovePod(q, phase)
      PROVE  p \notin StartedPods
  <2>1. pods' = [pods EXCEPT ![q] = [pods[q] EXCEPT !.phase = phase]]
    BY <1>1 DEF MovePod, PodBecomes
  <2>2. p = q /\ phase = "running"
    BY <2>1 DEF Eligible, TypeOK, FleetTypeOK, PodState
  <2>3. PhaseOrder["running"] > PhaseOrder[pods[p].phase]
    BY <1>1, <2>2 DEF MovePod
  <2> QED
    BY <2>3 DEF PhaseOrder, StartedPods
<1>2. ASSUME NEW q \in Pod, NEW label \in Label, RelabelPod(q, label)
      PROVE  FALSE
  <2>1. pods' = [pods EXCEPT ![q] = [pods[q] EXCEPT !.label = label]]
    BY <1>2 DEF RelabelPod, PodBecomes
  <2> QED
    BY <2>1 DEF Eligible, TypeOK, FleetTypeOK, PodState
<1>3. pods' # pods
  OBVIOUS
<1> QED
  BY <1>1, <1>2, <1>3
     DEF Environment, ApplyIdentity, DeleteIdentity, ApplyRegistration,
         DeleteRegistration, Resync

(* What NoteNoise records: as long as it stays silent, the resources, the  *)
(* labels and the count of failures are those the pass started with.       *)
LEMMA Undisturbed ==
  ASSUME NoteNoise, noise' # "noisy", pc # "idle"
  PROVE  /\ noise # "noisy" /\ pc' # "idle"
         /\ identities' = identities /\ registry' = registry /\ faults' = faults
         /\ \A p \in Pod : pods'[p].label = pods[p].label
BY DEF NoteNoise, Relabelled

------------------------------------------------------------------------------
(* The list of entries and the difference.                                 *)
LEMMA DiffStep ==
  ASSUME TypeOK, StartedInv, DiffInv, Next
  PROVE  DiffInv'
<1>0. StartedPods \subseteq StartedPods'
  BY StartedGrows DEF Next
<1>1. \A e : OwnedBy(StartedPods, e) => OwnedBy(StartedPods', e)
  BY <1>0, Monotone
<1>2. ASSUME UNCHANGED passVars PROVE DiffInv'
  BY <1>1, <1>2 DEF passVars, stateVars, diffVars, DiffInv
<1>3. ASSUME Return PROVE DiffInv'
  BY <1>3 DEF Return, DiffInv
<1>4. ASSUME pc # "apply", pc' # "apply", UNCHANGED <<current, declared, diffVars>>
      PROVE  DiffInv'
  BY <1>1, <1>4 DEF diffVars, DiffInv
<1>5. ASSUME NEW ok \in BOOLEAN, ListCurrent(ok) PROVE DiffInv'
  <2>1. CASE Return
    BY <1>3, <2>1
  <2>2. CASE ok
    <3>1. /\ current' = {e \in spire : shouldProcessEntry(e)}
          /\ toDelete' = {}
      BY <1>5, <2>2 DEF ListCurrent, AddCurrent, Put, ListEntries, diffVars, DiffInv
    <3>2. \A e \in current' : OwnedBy(StartedPods', e)
      BY <1>1, <3>1 DEF StartedInv, OnlyForStartedPods, Managed
    <3> QED
      BY <3>1, <3>2 DEF DiffInv
  <2> QED
    BY <1>5, <2>1, <2>2 DEF ListCurrent
<1>6. ASSUME NEW c \in Cluster, NEW i \in Identity, NEW skipped \in SUBSET Pod,
             ProcessCluster(c, i, skipped)
      PROVE  DiffInv'
  <2>1. /\ pc = "process" /\ pc' = "process" /\ current' = current
        /\ toDelete' = toDelete
    BY <1>6 DEF ProcessCluster, diffVars
  <2> QED
    BY <1>1, <2>1 DEF DiffInv
<1>7. ASSUME GetChanges PROVE DiffInv'
  <2>1. /\ pc' = "apply" /\ current' = current /\ declared' = declared
        /\ toDelete' = {x \in current : \A d \in declared : d.id # x.id}
    BY <1>7 DEF GetChanges, stateVars, toDeleteOf
  <2> QED
    BY <1>1, <2>1 DEF DiffInv
<1>8. ASSUME pc = "apply", pc' = "apply", UNCHANGED stateVars,
             toDelete' \subseteq toDelete
      PROVE  DiffInv'
  BY <1>1, <1>8 DEF stateVars, DiffInv
<1>9. CASE FullPass
  <2>1. ASSUME NEW ok \in BOOLEAN, \/ \E e \in toDelete : ApplyDelete(e, ok)
                                   \/ \E e \in toCreate : ApplyCreate(e, ok)
                                   \/ \E e \in toUpdate : ApplyUpdate(e, ok)
        PROVE  DiffInv'
    BY <1>8, <2>1 DEF ApplyDelete, ApplyCreate, ApplyUpdate
  <2>2. ASSUME NEW ok \in BOOLEAN, ListIdentities(ok) PROVE DiffInv'
    BY <1>3, <1>4, <2>2 DEF ListIdentities, stateVars
  <2>3. ASSUME NEW c \in Cluster, NEW ok \in BOOLEAN, ConnectCluster(c, ok) PROVE DiffInv'
    BY <1>4, <2>3 DEF ConnectCluster, stateVars
  <2>4. CASE ListClusters
    BY <1>4, <2>4 DEF ListClusters, stateVars
  <2>5. ASSUME NEW c \in Cluster, PruneCluster(c) PROVE DiffInv'
    BY <1>2, <2>5 DEF PruneCluster
  <2>6. CASE EndPass
    BY <1>3, <2>6 DEF EndPass
  <2> QED
    BY <1>5, <1>6, <1>7, <1>9, <2>1, <2>2, <2>3, <2>4, <2>5, <2>6 DEF FullPass
<1> QED
  BY <1>2, <1>3, <1>9 DEF Next, Step, Restart

------------------------------------------------------------------------------
(* The environment: a pod that starts to run now was not running when the  *)
(* pass listed SPIRE, so none of the entries found can be its own.         *)
LEMMA MissedByEnvironment ==
  ASSUME OwnUIDOnly, TypeOK, DiffInv, NothingMissed, Environment, UNCHANGED passVars,
         identities' = identities, registry' = registry,
         \A p \in Pod : pods'[p].label = pods[p].label
  PROVE  NothingMissed'
<1> SUFFICES ASSUME NEW e \in current, NEW i \in Identity, NEW p \in Pod,
                    Wanted(i, p)', EntryFor(i, p)'.id = e.id
             PROVE  <<Home[p], i>> \in pending \/ \E d \in declared : d.id = e.id
  BY DEF passVars, stateVars, NothingMissed
<1>1. EntryFor(i, p)' = EntryFor(i, p)
  BY DEF EntryFor
<1>2. Wanted(i, p) \/ ~Eligible(pods[p])
  BY DEF Wanted
<1>3. identities[i] \in IdentitySpec /\ pods[p].label \in Label
  BY DEF Wanted, TypeOK, FleetTypeOK, PodState
<1>4. ASSUME ~Eligible(pods[p]) PROVE FALSE
  <2>1. Eligible(pods'[p])
    BY DEF Wanted
  <2>2. p \notin StartedPods
    BY <1>4, <2>1, StartsOnce
  <2>3. e \in Rendered /\ EntryFor(i, p) \in Rendered
    BY <1>3, DeclarationRendered DEF EntryFor, TypeOK, PassTypeOK
  <2>4. HasPodUID(EntryFor(i, p), p)
    BY <1>3, RenderedHasUID DEF EntryFor
  <2>5. HasPodUID(e, p)
    BY <1>1, <2>3, <2>4, SameIDSameUID
  <2>6. PICK q \in StartedPods : HasPodUID(e, q)
    BY DEF DiffInv, OwnedBy
  <2>7. q \in Pod
    BY DEF StartedPods
  <2> QED
    BY <2>2, <2>3, <2>5, <2>6, <2>7, OneUID
<1> QED
  BY <1>1, <1>2, <1>4 DEF NothingMissed

(* ListCurrent: every cluster with a wanted entry is connected, so that    *)
(* every entry found is still to be declared.                              *)
LEMMA MissedByListing ==
  ASSUME TypeOK, PassView, ListCurrent(TRUE)
  PROVE  NothingMissed'
<1>1. /\ pc = "entries" /\ connecting = {} /\ idents = identities /\ clusters = registry
      /\ pending' = {x \in Cluster \X Identity : conn[x[1]] # Nil /\ idents[x[2]] # Nil}
      /\ UNCHANGED <<identities, registry, pods>>
  BY DEF ListCurrent, PassView, passEnv, resourceVars
<1>2. ASSUME NEW i \in Identity, NEW p \in Pod, Wanted(i, p)'
      PROVE  <<Home[p], i>> \in pending'
  <2>1. Home[p] \in Cluster
    BY FleetAssumption
  <2>2. /\ identities[i] # Nil /\ registry[Home[p]] # Nil /\ registry[Home[p]].enabled
    BY <1>1, <1>2 DEF Wanted
  <2>3. conn[Home[p]] # Nil
    BY <1>1, <2>1, <2>2 DEF PassView, ConnectedAsListed
  <2> QED
    BY <1>1, <2>1, <2>2, <2>3
<1> QED
  BY <1>2 DEF NothingMissed

(* ProcessCluster, when no pod had to be skipped: what is wanted of the    *)
(* cluster and the identity is declared, and nothing declared is lost.     *)
LEMMA MissedByProcessing ==
  ASSUME TypeOK, PassView, NEW c \in Cluster, NEW i \in Identity, ProcessCluster(c, i, {})
  PROVE  NothingMissed'
<1>1. /\ pc = "process" /\ connecting = {} /\ idents = identities /\ clusters = registry
      /\ NothingMissed /\ current' = current /\ pending' = pending \ {<<c, i>>}
      /\ UNCHANGED <<identities, registry, pods>>
  BY DEF ProcessCluster, PassView, passEnv, resourceVars
<1> DEFINE new == processWorkloadIdentity(c, i, {})
<1>2. declared' = {x \in declared : \A y \in new : y.id # x.id} \cup new
  BY DEF ProcessCluster, AddDeclared, Put
<1>3. ASSUME NEW p \in Pod, Home[p] = c, Wanted(i, p) PROVE EntryFor(i, p) \in new
  <2>1. /\ registry[c] # Nil /\ registry[c].enabled /\ Eligible(pods[p])
        /\ shouldProcessIdentity(identities[i], registry[c])
        /\ ~isNamespaceIgnored(identities[i].namespace)
        /\ SelectedByInformerList(identities[i], p, pods[p].label)
        /\ CanRender(identities[i])
    BY <1>3 DEF Wanted
  <2>2. conn[c] # Nil /\ conn[c].reg = registry[c]
    BY <1>1, <2>1 DEF PassView, ConnectedAsListed
  <2>3. p \in Stored(c)
    BY <1>3, <2>1 DEF Stored, InStore, Eligible
  <2>4. p \in Visited(c, i)
    BY <1>1, <2>1, <2>2, <2>3 DEF Visited, getPodsFromInformer
  <2> QED
    BY <1>1, <1>3, <2>1, <2>4 DEF processWorkloadIdentity, EntryFor
<1> HIDE DEF new
<1>4. \A x \in declared : \E d \in declared' : d.id = x.id
  BY <1>2
<1>5. ASSUME NEW e \in current, NEW k \in Identity, NEW p \in Pod,
             Wanted(k, p), EntryFor(k, p).id = e.id
      PROVE  <<Home[p], k>> \in pending' \/ \E d \in declared' : d.id = e.id
  <2>1. \/ <<Home[p], k>> \in pending'
        \/ Home[p] = c /\ k = i
        \/ \E d \in declared : d.id = e.id
    BY <1>1, <1>5 DEF NothingMissed
  <2>2. CASE Home[p] = c /\ k = i
    BY <1>2, <1>3, <1>5, <2>2
  <2> QED
    BY <1>4, <2>1, <2>2
<1>6. \A k \in Identity, p \in Pod : (Wanted(k, p)' <=> Wanted(k, p))
                                    /\ EntryFor(k, p)' = EntryFor(k, p)
  BY <1>1 DEF Wanted, EntryFor
<1> QED
  BY <1>1, <1>5, <1>6 DEF NothingMissed

------------------------------------------------------------------------------
(* A pass starts with the list of clusters.                                *)
LEMMA FirstStep ==
  ASSUME Next, pc = "idle", pc' # "idle"
  PROVE  ListClusters
<1>1. ~(UNCHANGED passVars) /\ ~Restart
  BY DEF passVars, Restart, Return
<1>2. ASSUME NEW c, NEW i, NEW x, \/ ConnectCluster(c, x) \/ PruneCluster(c)
                                  \/ ListIdentities(x) \/ ListCurrent(x)
                                  \/ ProcessCluster(c, i, x) \/ GetChanges
                                  \/ ApplyDelete(i, x) \/ ApplyCreate(i, x)
                                  \/ ApplyUpdate(i, x) \/ EndPass
      PROVE  FALSE
  BY <1>2 DEF ConnectCluster, PruneCluster, ListIdentities, ListCurrent, ProcessCluster,
              GetChanges, ApplyDelete, ApplyCreate, ApplyUpdate, EndPass, Applied
<1>3. FullPass
  BY <1>1 DEF Next, Step
<1> QED
  BY <1>2, <1>3 DEF FullPass

(* The first step of a pass: every registration is still to be connected.  *)
LEMMA ViewStarts ==
  ASSUME TypeOK, Next, pc = "idle", noise' # "noisy"
  PROVE  PassView'
<1>1. pc' # "idle"
  BY DEF Next, NoteNoise
<1>2. ListClusters
  BY <1>1, FirstStep
<1>3. /\ pc' = "connect" /\ clusters' = registry /\ registry' = registry
      /\ connecting' = {c \in Cluster : registry[c] # Nil}
  BY <1>2 DEF ListClusters, passEnv, resourceVars
<1> QED
  BY <1>3 DEF PassView, ConnectedAsListed

(* ConnectCluster without a failure: the cluster is connected under the    *)
(* registration listed, or it is disabled.                                 *)
LEMMA ViewConnects ==
  ASSUME TypeOK, PassView, NEW c \in Cluster, ConnectCluster(c, TRUE), registry' = registry
  PROVE  PassView'
<1>1. /\ pc = "connect" /\ pc' = "connect" /\ clusters' = clusters
      /\ connecting' = connecting \ {c}
      /\ AddOrUpdateCluster(c, clusters[c], TRUE, IdleListeners)
  BY DEF ConnectCluster
<1>2. conn \in [Cluster -> Connection \cup {Nil}]
  BY DEF TypeOK, FleetTypeOK
<1>3. \A d \in Cluster \ {c} : conn'[d] = conn[d]
  BY <1>1, <1>2 DEF AddOrUpdateCluster
<1>4. clusters[c].enabled => conn'[c] # Nil /\ conn'[c].reg = clusters[c]
  <2>1. c \in connecting /\ clusters[c] \in Registration
    BY DEF ConnectCluster, TypeOK, PassTypeOK
  <2>2. \A l \in Listener : [reg |-> clusters[c], listener |-> l] \in Connection
    BY <2>1 DEF Connection
  <2>3. Nil \notin Connection
    BY FleetAssumption
  <2> QED
    BY <1>1, <1>2, <2>1, <2>2, <2>3 DEF AddOrUpdateCluster, Connection, IdleListeners
<1>5. ConnectedAsListed'
  <2>1. ASSUME NEW d \in Cluster, d \notin connecting', clusters'[d] # Nil, clusters'[d].enabled
        PROVE  conn'[d] # Nil /\ conn'[d].reg = clusters'[d]
    BY <1>1, <1>3, <1>4, <2>1 DEF PassView, ConnectedAsListed
  <2> QED
    BY <2>1 DEF ConnectedAsListed
<1> QED
  BY <1>1, <1>5 DEF PassView

(* The view survives whatever leaves the pass and what it has read alone.  *)
LEMMA ViewKept ==
  ASSUME PassView, UNCHANGED <<identities, registry, pods, conn>>,
         UNCHANGED <<clusters, connecting, idents, current, declared, pending>>,
         pc' = pc \/ (pc = "process" /\ pc' = "apply")
  PROVE  PassView'
<1>1. \A i \in Identity, p \in Pod : (Wanted(i, p)' <=> Wanted(i, p))
                                    /\ EntryFor(i, p)' = EntryFor(i, p)
  BY DEF Wanted, EntryFor
<1>2. NothingMissed => NothingMissed'
  BY <1>1 DEF NothingMissed
<1>3. ConnectedAsListed'
  BY DEF PassView, ConnectedAsListed
<1> QED
  BY <1>2, <1>3 DEF PassView

(* The steps of a pass that nothing has disturbed.                         *)
LEMMA ViewOfPass ==
  ASSUME TypeOK, PassView, FullPass, pc' # "idle",
         identities' = identities, registry' = registry, faults' = faults
  PROVE  PassView'
<1>0. faults \in Nat /\ pods' = pods
  <2>1. faults \in Nat
    BY FleetAssumption DEF TypeOK, FleetTypeOK
  <2>2. UNCHANGED passEnv
    BY DEF FullPass, ListClusters, ConnectCluster, PruneCluster, ListIdentities,
           ListCurrent, ProcessCluster, GetChanges, ApplyDelete, ApplyCreate,
           ApplyUpdate, EndPass
  <2> QED
    BY <2>1, <2>2 DEF passEnv
<1>1. ASSUME NEW ok \in BOOLEAN, Outcome(ok) PROVE ok = TRUE
  BY <1>0, <1>1 DEF Outcome
<1>2. ASSUME NEW c \in Cluster, NEW ok \in BOOLEAN, ConnectCluster(c, ok) PROVE PassView'
  <2>1. ok = TRUE
    BY <1>1, <1>2 DEF ConnectCluster
  <2> QED
    BY <1>2, <2>1, ViewConnects
<1>3. ASSUME NEW c \in Cluster, PruneCluster(c) PROVE PassView'
  <2>1. /\ pc = "connect" /\ Unwanted(c) /\ UNCHANGED passVars
        /\ conn' = [conn EXCEPT ![c] = Nil]
    BY <1>3 DEF PruneCluster, RemoveCluster
  <2>2. ConnectedAsListed'
    BY <2>1 DEF PassView, ConnectedAsListed, Unwanted, passVars, TypeOK, FleetTypeOK
  <2> QED
    BY <2>1, <2>2 DEF PassView, passVars
<1>4. ASSUME NEW ok \in BOOLEAN, ListIdentities(ok) PROVE PassView'
  <2>1. ok = TRUE
    BY <1>1, <1>4 DEF ListIdentities
  <2>2. /\ pc' = "entries" /\ idents' = identities /\ connecting = {}
        /\ UNCHANGED <<clusters, connecting, conn>>
    BY <1>4, <2>1 DEF ListIdentities, connVars
  <2>3. ConnectedAsListed'
    BY <2>2 DEF PassView, ConnectedAsListed
  <2> QED
    BY <2>2, <2>3 DEF PassView
<1>5. ASSUME NEW ok \in BOOLEAN, ListCurrent(ok) PROVE PassView'
  <2>1. ok = TRUE
    BY <1>1, <1>5 DEF ListCurrent
  <2>2. NothingMissed'
    BY <1>5, <2>1, MissedByListing
  <2>3. /\ pc = "entries" /\ UNCHANGED <<clusters, connecting, idents, conn>>
    BY <1>5, <2>1 DEF ListCurrent, connVars
  <2>4. ConnectedAsListed'
    BY <2>3 DEF PassView, ConnectedAsListed
  <2> QED
    BY <2>2, <2>3, <2>4 DEF PassView
<1>6. ASSUME NEW c \in Cluster, NEW i \in Identity, NEW skipped \in SUBSET Pod,
             ProcessCluster(c, i, skipped)
      PROVE  PassView'
  <2>1. IsFiniteSet(skipped) /\ faults' = faults + Cardinality(skipped)
    BY <1>6, FleetAssumption, FS_Subset DEF ProcessCluster
  <2>2. skipped = {}
    BY <1>0, <2>1, FS_EmptySet, FS_CardinalityType
  <2>3. NothingMissed'
    BY <1>6, <2>2, MissedByProcessing
  <2>4. pc = "process" /\ UNCHANGED <<pc, clusters, connecting, idents, conn>>
    BY <1>6 DEF ProcessCluster, connVars
  <2>5. ConnectedAsListed'
    BY <2>4 DEF PassView, ConnectedAsListed
  <2> QED
    BY <2>3, <2>4, <2>5 DEF PassView
<1>7. CASE GetChanges
  BY <1>0, <1>7, ViewKept DEF GetChanges, connVars, stateVars
<1>8. ASSUME NEW ok \in BOOLEAN, NEW e,
             ApplyDelete(e, ok) \/ ApplyCreate(e, ok) \/ ApplyUpdate(e, ok)
      PROVE  PassView'
  <2>1. UNCHANGED <<conn, pc, clusters, connecting, idents, stateVars>>
    BY <1>8 DEF ApplyDelete, ApplyCreate, ApplyUpdate, connVars
  <2> QED
    BY <1>0, <2>1, ViewKept DEF stateVars
<1>9. ~ListClusters /\ ~EndPass
  BY DEF ListClusters, EndPass, Return, PassView
<1> QED
  BY <1>2, <1>3, <1>4, <1>5, <1>6, <1>7, <1>8, <1>9 DEF FullPass

(* PassInv is inductive relative to the invariants proved so far.          *)
LEMMA PassStep ==
  ASSUME OwnUIDOnly, TypeOK, StartedInv, UniqueIDs, PassInv, [Next]_vars
  PROVE  PassInv'
<1>1. ASSUME Next PROVE PassInv'
  <2>1. DiffInv'
    BY <1>1, DiffStep DEF PassInv
  <2>2. ASSUME noise' # "noisy", pc # "idle" PROVE PassView'
    <3>1. /\ noise # "noisy" /\ pc' # "idle"
          /\ identities' = identities /\ registry' = registry /\ faults' = faults
          /\ \A p \in Pod : pods'[p].label = pods[p].label
      BY <1>1, <2>2, Undisturbed DEF Next
    <3>2. PassView /\ DiffInv
      BY <3>1 DEF PassInv
    <3>3. CASE Environment /\ UNCHANGED passVars
      <4>1. conn' = conn
        BY <3>3, Bystanders
      <4>2. NothingMissed => NothingMissed'
        BY <3>1, <3>2, <3>3, MissedByEnvironment
      <4>3. ConnectedAsListed'
        BY <3>2, <3>3, <4>1 DEF PassView, ConnectedAsListed, passVars
      <4> QED
        BY <3>1, <3>2, <3>3, <4>2, <4>3 DEF PassView, passVars
    <3>4. CASE Handler /\ UNCHANGED passVars
      BY <3>2, <3>4, Bystanders, ViewKept DEF passVars, stateVars
    <3>5. CASE FullPass
      BY <3>1, <3>2, <3>5, ViewOfPass
    <3>6. ~Restart
      BY <3>1 DEF Restart, Return
    <3> QED
      BY <1>1, <3>3, <3>4, <3>5, <3>6 DEF Next, Step
  <2>3. noise' # "noisy" => PassView'
    BY <1>1, <2>2, ViewStarts
  <2> QED
    BY <2>1, <2>3 DEF PassInv
<1>2. ASSUME UNCHANGED vars PROVE PassInv'
  <2>1. DiffInv' /\ noise' = noise
    BY <1>2 DEF vars, fleetVars, passVars, stateVars, diffVars, PassInv, DiffInv, StartedPods
  <2>2. PassView => PassView'
    BY <1>2, ViewKept DEF vars, fleetVars, passVars, stateVars
  <2> QED
    BY <2>1, <2>2 DEF PassInv
<1> QED
  BY <1>1, <1>2

------------------------------------------------------------------------------
(* Taking a wanted entry out by its ID contradicts PassView: the entry was *)
(* found, so it has been declared, so it is not in the difference.         *)
LEMMA KeepsStep ==
  ASSUME TypeOK, PassInv, [Next]_vars, toDelete' # toDelete, pc' # "idle",
         noise # "noisy"
  PROVE  WantedRemoved = {}
<1>1. FullPass
  BY DEF vars, Next, Step, Restart, Return, passVars, diffVars
<1>2. ASSUME NEW x \in WantedRemoved, spire' = spire PROVE FALSE
  BY <1>2 DEF WantedRemoved
<1>3. ASSUME NEW x \in WantedRemoved, NEW ok \in BOOLEAN, NEW e \in toDelete,
             ApplyDelete(e, ok)
      PROVE  FALSE
  <2>1. x \in spire /\ x \in Desired /\ \A y \in spire' : y.id # x.id
    BY DEF WantedRemoved
  <2>2. x.id = e.id
    BY <1>2, <1>3, <2>1 DEF ApplyDelete, DeleteEntry
  <2>3. PICK i \in Identity, p \in Pod : Wanted(i, p) /\ x = EntryFor(i, p)
    BY <2>1 DEF Desired
  <2>4. pc = "apply" /\ pending = {}
    BY <1>3 DEF ApplyDelete, TypeOK, PassTypeOK
  <2>5. e \in current /\ \A d \in declared : d.id # e.id
    BY DEF PassInv, DiffInv
  <2>6. NothingMissed
    BY <2>4 DEF PassInv, PassView
  <2> QED
    BY <2>2, <2>3, <2>4, <2>5, <2>6 DEF NothingMissed
<1>4. ASSUME NEW x \in WantedRemoved, GetChanges PROVE FALSE
  BY <1>2, <1>4 DEF GetChanges
<1>5. \/ GetChanges \/ \E ok \in BOOLEAN : \E e \in toDelete : ApplyDelete(e, ok)
  BY <1>1 DEF FullPass, ListClusters, ConnectCluster, PruneCluster, ListIdentities,
              ListCurrent, ProcessCluster, ApplyCreate, ApplyUpdate, EndPass, Return,
              passVars, diffVars
<1> QED
  BY <1>3, <1>4, <1>5

(* A full pass deletes no entry that is wanted at that moment, however     *)
(* pods start and stop and handlers write between its reads and its        *)
(* deletes; only a change of a label or of the configuration, or a failed  *)
(* call, can make it (PassKeepsWanted).                                    *)
THEOREM WantedKept == ASSUME OwnUIDOnly PROVE Spec => PassKeepsWanted
<1>1. Init => StartedInv /\ UniqueIDs /\ PassInv
  BY StartedInitially, UniqueInitially, PassInitially
<1>2. TypeOK /\ StartedInv /\ UniqueIDs /\ PassInv /\ [Next]_vars
        => StartedInv' /\ UniqueIDs' /\ PassInv'
  BY StartedStep, UniqueStep, PassStep
<1>3. TypeOK /\ PassInv /\ [Next]_vars =>
        [toDelete' # toDelete /\ pc' # "idle" /\ noise # "noisy" => WantedRemoved = {}]_vars
  BY KeepsStep
<1> QED
  BY <1>1, <1>2, <1>3, TypeCorrect, PTL DEF Spec, PassKeepsWanted

------------------------------------------------------------------------------
(* A notification that its pod runs comes after position k of the queue.   *)
Healed(q, k, p) == \E m \in DOMAIN q : m > k /\ q[m].pod = p /\ Eligible(q[m])

(* How far the goroutine with queue q and job j is behind pod p in state   *)
(* st: whatever it does because p was not running is followed by a         *)
(* notification that p runs, if it does.                                   *)
LagOK(q, j, p, st) ==
  Eligible(st) =>
    /\ \A k \in DOMAIN q : q[k].pod = p /\ ~Eligible(q[k]) => Healed(q, k, p)
    /\ j.pc \in {"listRemove", "remove"} /\ j.pod = p => Healed(q, 0, p)

(* Connections do not share a goroutine, and a handler deletes only        *)
(* entries of its pod.                                                     *)
LagInv ==
  /\ \A c, d \in Cluster : conn[c] # Nil /\ conn[d] # Nil /\ c # d
                           => conn[c].listener # conn[d].listener
  /\ \A l \in Listener : \A e \in job[l].remove : HasPodUID(e, job[l].pod)
  /\ \A c \in Cluster, p \in Pod : conn[c] # Nil /\ Home[p] = c =>
       LagOK(queue[conn[c].listener], job[conn[c].listener], p, pods[p])

(* More notifications, none of them older than the pod.                    *)
LEMMA LagConcat ==
  ASSUME NEW q \in Seq(Notification), NEW r \in Seq(Notification), NEW j, NEW p, NEW st,
         LagOK(q, j, p, st),
         \A k \in DOMAIN r : r[k].pod = p /\ Eligible(st) => Eligible(r[k])
  PROVE  LagOK(q \o r, j, p, st)
<1>1. \A k \in DOMAIN q : k \in DOMAIN (q \o r) /\ (q \o r)[k] = q[k]
  OBVIOUS
<1>2. \A k \in DOMAIN (q \o r) : (k \in DOMAIN q /\ (q \o r)[k] = q[k])
                              \/ (k - Len(q) \in DOMAIN r /\ (q \o r)[k] = r[k - Len(q)])
  OBVIOUS
<1>3. \A k : Healed(q, k, p) => Healed(q \o r, k, p)
  BY <1>1 DEF Healed
<1> QED
  BY <1>2, <1>3 DEF LagOK

(* The notification of the change itself.                                  *)
LEMMA LagAppend ==
  ASSUME NEW q \in Seq(Notification), NEW n \in Notification, NEW j, NEW st,
         n.phase = st.phase
  PROVE  LagOK(Append(q, n), j, n.pod, st)
<1> SUFFICES ASSUME Eligible(st) PROVE LagOK(Append(q, n), j, n.pod, st)
  BY DEF LagOK
<1>1. Eligible(n)
  BY DEF Eligible
<1>2. /\ Len(q) \in Nat /\ Len(q) + 1 \in DOMAIN Append(q, n)
      /\ Append(q, n)[Len(q) + 1] = n
      /\ \A k \in DOMAIN Append(q, n) : k = Len(q) + 1 \/ (k \in Nat /\ Len(q) + 1 > k)
  OBVIOUS
<1>3. Healed(Append(q, n), 0, n.pod)
  BY <1>1, <1>2 DEF Healed
<1>4. \A k \in DOMAIN Append(q, n) : ~Eligible(Append(q, n)[k]) => Healed(Append(q, n), k, n.pod)
  BY <1>1, <1>2 DEF Healed
<1> QED
  BY <1>3, <1>4 DEF LagOK

(* The goroutine takes the next notification.                              *)
LEMMA LagTail ==
  ASSUME NEW q \in Seq(Notification), q # <<>>, NEW j, NEW new, NEW p, NEW st,
         LagOK(q, j, p, st),
         new.pc \in {"listRemove", "remove"} =>
           new.pod = Head(q).pod /\ ~Eligible(Head(q))
  PROVE  LagOK(Tail(q), new, p, st)
<1> SUFFICES ASSUME Eligible(st) PROVE LagOK(Tail(q), new, p, st)
  BY DEF LagOK
<1>1. \A k \in DOMAIN Tail(q) : k \in Nat /\ k + 1 \in DOMAIN q /\ Tail(q)[k] = q[k + 1]
  OBVIOUS
<1>2. \A m \in DOMAIN q : m > 1 => m - 1 \in DOMAIN Tail(q) /\ Tail(q)[m - 1] = q[m]
  OBVIOUS
<1>3. ASSUME NEW k \in Nat, Healed(q, k + 1, p) PROVE Healed(Tail(q), k, p)
  <2>1. PICK m \in DOMAIN q : m > k + 1 /\ q[m].pod = p /\ Eligible(q[m])
    BY <1>3 DEF Healed
  <2>2. m \in Nat /\ m > 1 /\ m - 1 > k
    BY <2>1
  <2> QED
    BY <1>2, <2>1, <2>2 DEF Healed
<1>4. 1 \in DOMAIN q /\ Head(q) = q[1]
  OBVIOUS
<1>5. new.pc \in {"listRemove", "remove"} /\ new.pod = p => Healed(Tail(q), 0, p)
  BY <1>3, <1>4 DEF LagOK
<1>6. ASSUME NEW k \in DOMAIN Tail(q), Tail(q)[k].pod = p, ~Eligible(Tail(q)[k])
      PROVE  Healed(Tail(q), k, p)
  BY <1>1, <1>3, <1>6 DEF LagOK
<1> QED
  BY <1>5, <1>6 DEF LagOK

(* The goroutine goes on with an event, or is done with it.                *)
LEMMA LagJob ==
  ASSUME NEW q, NEW j, NEW new, NEW p, NEW st, LagOK(q, j, p, st),
         new.pc \in {"listRemove", "remove"} =>
           j.pc \in {"listRemove", "remove"} /\ new.pod = j.pod
  PROVE  LagOK(q, new, p, st)
BY DEF LagOK

(* A new connection delivers the pods as they are.                         *)
LEMMA LagNew ==
  ASSUME FleetTypeOK, NEW c \in Cluster, NEW order \in SetToSeqs(Stored(c)), NEW p \in Pod,
         NEW k \in DOMAIN order,
         NotificationOf(order[k], pods[order[k]]).pod = p
  PROVE  NotificationOf(order[k], pods[order[k]]).phase = pods[p].phase
BY DEF NotificationOf

------------------------------------------------------------------------------
(* A pod changes: the notification joins the queue of its cluster.         *)
LEMMA LagPodBecomes ==
  ASSUME TypeOK, LagInv, NEW p \in Pod, NEW state \in PodState, PodBecomes(p, state),
         job' = job
  PROVE  LagInv'
<1> DEFINE n == NotificationOf(p, state)
<1>1. /\ pods' = [pods EXCEPT ![p] = state] /\ conn' = conn
      /\ Home[p] \in Cluster /\ n \in Notification /\ n.pod = p /\ n.phase = state.phase
  BY FleetAssumption DEF PodBecomes, NotificationOf, Notification, PodState
<1>2. \A q \in Pod : pods'[q] = IF q = p THEN state ELSE pods[q]
  BY <1>1 DEF TypeOK, FleetTypeOK
<1>3. ASSUME NEW c \in Cluster, NEW q \in Pod, conn[c] # Nil, Home[q] = c
      PROVE  LagOK(queue'[conn[c].listener], job[conn[c].listener], q, pods'[q])
  <2> DEFINE l == conn[c].listener
  <2>1. l \in Listener /\ queue[l] \in Seq(Notification)
    BY <1>3 DEF TypeOK, FleetTypeOK, Connection
  <2>2. LagOK(queue[l], job[l], q, pods[q])
    BY <1>3 DEF LagInv
  <2>3. CASE Home[p] # c
    <3>1. queue'[l] = queue[l]
      <4>1. conn[Home[p]] # Nil => conn[Home[p]].listener # l
        BY <1>1, <1>3, <2>3 DEF LagInv
      <4> QED
        BY <2>1, <4>1 DEF PodBecomes, TypeOK, FleetTypeOK
    <3> QED
      BY <1>2, <1>3, <2>2, <2>3, <3>1
  <2>4. CASE Home[p] = c
    <3>1. queue'[l] = Append(queue[l], n)
      BY <1>3, <2>1, <2>4 DEF PodBecomes, Enqueue, TypeOK, FleetTypeOK
    <3> HIDE DEF l, n
    <3>2. CASE q = p
      <4>1. LagOK(Append(queue[l], n), job[l], n.pod, state)
        BY <1>1, <2>1, LagAppend
      <4>2. n.pod = q /\ pods'[q] = state
        BY <1>1, <1>2, <3>2
      <4>3. LagOK(queue'[l], job[l], q, pods'[q])
        BY <3>1, <4>1, <4>2
      <4> QED
        BY <4>3 DEF l
    <3>3. CASE q # p
      <4>1. Append(queue[l], n) = queue[l] \o <<n>> /\ <<n>> \in Seq(Notification)
        BY <1>1, <2>1
      <4>2. \A k \in DOMAIN <<n>> : <<n>>[k] = n
        OBVIOUS
      <4>3. LagOK(queue[l] \o <<n>>, job[l], q, pods[q])
        BY <1>1, <2>1, <2>2, <3>3, <4>1, <4>2, LagConcat
      <4> QED
        BY <1>2, <3>1, <3>3, <4>1, <4>3 DEF l
    <3> QED
      BY <3>2, <3>3
  <2> QED
    BY <2>3, <2>4
<1> QED
  BY <1>1, <1>3 DEF LagInv

(* Every step of the environment.                                          *)
LEMMA LagEnvironment ==
  ASSUME TypeOK, LagInv, Environment, job' = job
  PROVE  LagInv'
<1>1. ASSUME NEW p \in Pod, NEW phase \in Phase, MovePod(p, phase) PROVE LagInv'
  <2>1. [pods[p] EXCEPT !.phase = phase] \in PodState
    BY DEF TypeOK, FleetTypeOK, PodState
  <2> QED
    BY <1>1, <2>1, LagPodBecomes DEF MovePod
<1>2. ASSUME NEW p \in Pod, NEW label \in Label, RelabelPod(p, label) PROVE LagInv'
  <2>1. [pods[p] EXCEPT !.label = label] \in PodState
    BY DEF TypeOK, FleetTypeOK, PodState
  <2> QED
    BY <1>2, <2>1, LagPodBecomes DEF RelabelPod
<1>3. ASSUME NEW c \in Cluster, Resync(c) PROVE LagInv'
  <2> DEFINE l == conn[c].listener
  <2>1. l \in Listener /\ queue[l] \in Seq(Notification) /\ conn' = conn /\ pods' = pods
    BY <1>3 DEF TypeOK, FleetTypeOK, Connection, Resync
  <2>2. PICK order \in SetToSeqs(Stored(c)) :
          queue' = [queue EXCEPT ![l] = queue[l] \o
            [k \in DOMAIN order |-> NotificationOf(order[k], pods[order[k]])]]
    BY <1>3 DEF Resync
  <2> DEFINE new == [k \in DOMAIN order |-> NotificationOf(order[k], pods[order[k]])]
  <2>3. new \in Seq(Notification)
    BY StoreNotifications DEF TypeOK
  <2>4. ASSUME NEW p \in Pod, NEW k \in DOMAIN new, new[k].pod = p
        PROVE  new[k].phase = pods[p].phase
    BY <2>4, LagNew DEF TypeOK
  <2>5. queue' = [queue EXCEPT ![l] = queue[l] \o new]
    BY <2>2
  <2> HIDE DEF l, new
  <2>6. ASSUME NEW d \in Cluster, NEW p \in Pod, conn[d] # Nil, Home[p] = d
        PROVE  LagOK(queue'[conn[d].listener], job[conn[d].listener], p, pods[p])
    <3>1. /\ LagOK(queue[conn[d].listener], job[conn[d].listener], p, pods[p])
          /\ conn[d].listener \in Listener
      BY <2>6 DEF LagInv, TypeOK, FleetTypeOK, Connection
    <3>2. CASE conn[d].listener = l
      <4>1. LagOK(queue[l] \o new, job[l], p, pods[p])
        BY <2>1, <2>3, <2>4, <3>1, <3>2, LagConcat DEF Eligible
      <4> QED
        BY <2>1, <2>5, <3>2, <4>1 DEF TypeOK, FleetTypeOK
    <3>3. CASE conn[d].listener # l
      BY <2>5, <3>1, <3>3 DEF TypeOK, FleetTypeOK
    <3> QED
      BY <3>2, <3>3
  <2> QED
    BY <2>1, <2>6 DEF LagInv
<1>4. ASSUME UNCHANGED <<conn, queue, pods>> PROVE LagInv'
  BY <1>4 DEF LagInv
<1>5. ASSUME NEW i, NEW v, ApplyIdentity(i, v) \/ DeleteIdentity(i) PROVE LagInv'
  BY <1>4, <1>5 DEF ApplyIdentity, DeleteIdentity, connVars
<1>6. ASSUME NEW c, NEW v, ApplyRegistration(c, v) \/ DeleteRegistration(c) PROVE LagInv'
  BY <1>4, <1>6 DEF ApplyRegistration, DeleteRegistration, connVars
<1> QED
  BY <1>1, <1>2, <1>3, <1>5, <1>6 DEF Environment

------------------------------------------------------------------------------
(* A job of one goroutine changes: the connections of the others do not    *)
(* see it.                                                                 *)
LEMMA LagOneJob ==
  ASSUME TypeOK, LagInv, NEW l \in Listener, NEW new, job' = [job EXCEPT ![l] = new],
         UNCHANGED <<conn, pods, queue>>,
         new.pc \in {"listRemove", "remove"} =>
           job[l].pc \in {"listRemove", "remove"} /\ new.pod = job[l].pod,
         \A e \in new.remove : HasPodUID(e, new.pod)
  PROVE  LagInv'
<1>1. \A k \in Listener : job'[k] = IF k = l THEN new ELSE job[k]
  BY DEF TypeOK, JobsTypeOK
<1>2. ASSUME NEW c \in Cluster, NEW p \in Pod, conn[c] # Nil, Home[p] = c
      PROVE  LagOK(queue[conn[c].listener], job'[conn[c].listener], p, pods[p])
  <2>1. /\ conn[c].listener \in Listener
        /\ LagOK(queue[conn[c].listener], job[conn[c].listener], p, pods[p])
    BY <1>2 DEF LagInv, TypeOK, FleetTypeOK, Connection
  <2> QED
    BY <1>1, <2>1, LagJob
<1>3. \A k \in Listener : \A e \in job'[k].remove : HasPodUID(e, job'[k].pod)
  BY <1>1 DEF LagInv
<1> QED
  BY <1>2, <1>3 DEF LagInv

(* The goroutine takes its next notification.                              *)
LEMMA LagHandle ==
  ASSUME TypeOK, LagInv, NEW c \in Cluster, NEW ok \in BOOLEAN, HandlePodChange(c, ok)
  PROVE  LagInv'
<1> DEFINE l == conn[c].listener
           n == Head(queue[l])
           matching == IF ok THEN findMatchingIdentities(n.pod, n.label, conn[c].reg) ELSE {}
           new == ReconcileSinglePod(n, matching)
<1>1. /\ conn[c] # Nil /\ l \in Listener
      /\ queue[l] \in Seq(Notification) /\ queue[l] # <<>>
  BY DEF TypeOK, FleetTypeOK, Connection, HandlePodChange
<1>2. /\ job' = [job EXCEPT ![l] = new] /\ queue' = [queue EXCEPT ![l] = Tail(queue[l])]
      /\ UNCHANGED <<pods, conn>>
  BY DEF HandlePodChange, handlerEnv
<1> HIDE DEF l, matching
<1>3. new.pc \in {"listRemove", "remove"} => new.pod = n.pod /\ ~Eligible(n)
  BY DEF ReconcileSinglePod, Job, IdleJob, Eligible
<1>4. new.remove = {}
  BY DEF ReconcileSinglePod, Job, IdleJob
<1> HIDE DEF new
<1>5. \A k \in Listener : /\ job'[k] = IF k = l THEN new ELSE job[k]
                          /\ queue'[k] = IF k = l THEN Tail(queue[l]) ELSE queue[k]
  BY <1>2 DEF TypeOK, FleetTypeOK, JobsTypeOK
<1>6. ASSUME NEW d \in Cluster, NEW p \in Pod, conn[d] # Nil, Home[p] = d
      PROVE  LagOK(queue'[conn[d].listener], job'[conn[d].listener], p, pods[p])
  <2>1. /\ conn[d].listener \in Listener
        /\ LagOK(queue[conn[d].listener], job[conn[d].listener], p, pods[p])
    BY <1>6 DEF LagInv, TypeOK, FleetTypeOK, Connection
  <2>2. CASE conn[d].listener = l
    <3>1. LagOK(Tail(queue[l]), new, p, pods[p])
      BY <1>1, <1>3, <2>1, <2>2, LagTail
    <3> QED
      BY <1>5, <2>1, <2>2, <3>1
  <2>3. CASE conn[d].listener # l
    BY <1>5, <2>1, <2>3
  <2> QED
    BY <2>2, <2>3
<1>7. \A k \in Listener : \A e \in job'[k].remove : HasPodUID(e, job'[k].pod)
  BY <1>4, <1>5 DEF LagInv
<1> QED
  BY <1>2, <1>6, <1>7 DEF LagInv

(* The steps of an event.                                                  *)
LEMMA LagHandlerStep ==
  ASSUME TypeOK, LagInv, NEW l \in Listener, HandlerStep(l)
  PROVE  LagInv'
<1> DEFINE j == job[l]
           Fine(new) == /\ new.pc \in {"listRemove", "remove"} =>
                             j.pc \in {"listRemove", "remove"} /\ new.pod = j.pod
                        /\ \A e \in new.remove : HasPodUID(e, new.pod)
<1>0. DOMAIN j = DOMAIN IdleJob /\ \A e \in j.remove : HasPodUID(e, j.pod)
  BY DEF TypeOK, JobsTypeOK, LagInv
<1> HIDE DEF j
<1>1. ASSUME NEW new, Fine(new), job' = [job EXCEPT ![l] = new],
             UNCHANGED <<conn, pods, queue>>
      PROVE  LagInv'
  BY <1>1, LagOneJob DEF j
<1>2. Fine(IdleJob)
  BY DEF IdleJob
<1>3. ASSUME NEW ok \in BOOLEAN, GetNode(l, ok) PROVE LagInv'
  <2> DEFINE new == IF ok /\ conn[Home[j.pod]] # Nil THEN [j EXCEPT !.pc = "ensure"]
                    ELSE IdleJob
  <2>1. job' = [job EXCEPT ![l] = new] /\ UNCHANGED <<conn, pods, queue>>
    BY <1>3 DEF GetNode, handlerEnv, j
  <2>2. Fine(new)
    BY <1>0, <1>2 DEF IdleJob
  <2> HIDE DEF new
  <2> QED
    BY <1>1, <2>1, <2>2
<1>4. ASSUME NEW ok \in BOOLEAN, NEW i \in Identity, NEW s \in IdentitySpec,
             EnsureList(l, i, s, ok)
      PROVE  LagInv'
  <2> DEFINE rest == [j EXCEPT !.ensure = @ \ {<<i, s>>}]
             e == Declaration(i, s, Home[j.pod], j.pod, j.label)
             found == IF ok THEN {x \in ListEntries : x.id = e.id} ELSE {}
             upToDate == found # {} /\ \A x \in found : getOutdatedEntryFields(e, x) = {}
             new == IF ~CanRender(s) \/ upToDate THEN Continue(rest)
                    ELSE [rest EXCEPT !.pc = "write", !.entry = e, !.found = found]
  <2>1. job' = [job EXCEPT ![l] = new] /\ UNCHANGED <<conn, pods, queue>>
    BY <1>4 DEF EnsureList, handlerEnv, j
  <2> HIDE DEF e, found, upToDate
  <2>2. /\ DOMAIN rest = DOMAIN IdleJob /\ rest.pod = j.pod /\ rest.remove = j.remove
    BY <1>0 DEF IdleJob
  <2> HIDE DEF rest
  <2>3. Fine(Continue(rest))
    BY <1>0, <1>2, <2>2 DEF Continue, IdleJob
  <2>4. Fine([rest EXCEPT !.pc = "write", !.entry = e, !.found = found])
    BY <1>0, <2>2 DEF IdleJob
  <2>5. Fine(new)
    BY <2>3, <2>4
  <2> HIDE DEF new
  <2> QED
    BY <1>1, <2>1, <2>5
<1>5. ASSUME NEW ok \in BOOLEAN, EnsureWrite(l, ok) PROVE LagInv'
  <2>1. job' = [job EXCEPT ![l] = Continue(j)] /\ UNCHANGED <<conn, pods, queue>>
    BY <1>5 DEF EnsureWrite, handlerEnv, j
  <2>2. Fine(Continue(j))
    BY <1>0, <1>2 DEF Continue, IdleJob
  <2> QED
    BY <1>1, <2>1, <2>2
<1>6. ASSUME NEW ok \in BOOLEAN, RemoveList(l, ok) PROVE LagInv'
  <2> DEFINE doomed == deleteEntriesForPod(ListEntries, j.pod)
             new == IF ~ok \/ doomed = {} THEN IdleJob
                    ELSE [j EXCEPT !.pc = "remove", !.remove = doomed]
  <2>1. /\ job' = [job EXCEPT ![l] = new] /\ UNCHANGED <<conn, pods, queue>>
        /\ j.pc = "listRemove"
    BY <1>6 DEF RemoveList, handlerEnv, j
  <2>2. \A e \in doomed : HasPodUID(e, j.pod)
    BY DEF deleteEntriesForPod
  <2> HIDE DEF doomed
  <2>3. Fine(new)
    BY <1>0, <1>2, <2>1, <2>2 DEF IdleJob
  <2> HIDE DEF new
  <2> QED
    BY <1>1, <2>1, <2>3
<1>7. ASSUME NEW ok \in BOOLEAN, NEW e \in job[l].remove, RemoveOne(l, e, ok) PROVE LagInv'
  <2> DEFINE new == IF j.remove \ {e} = {} THEN IdleJob
                    ELSE [j EXCEPT !.remove = j.remove \ {e}]
  <2>1. /\ job' = [job EXCEPT ![l] = new] /\ UNCHANGED <<conn, pods, queue>>
        /\ j.pc = "remove"
    BY <1>7 DEF RemoveOne, handlerEnv, j
  <2>2. Fine(new)
    BY <1>0, <1>2, <2>1 DEF IdleJob
  <2> HIDE DEF new
  <2> QED
    BY <1>1, <2>1, <2>2
<1> QED
  BY <1>3, <1>4, <1>5, <1>6, <1>7 DEF HandlerStep

------------------------------------------------------------------------------
(* A connection is stopped: only its own queue is dropped.                 *)
LEMMA LagStop ==
  ASSUME TypeOK, LagInv, NEW c \in Cluster, NEW d \in Cluster \ {c}, conn[d] # Nil
  PROVE  /\ conn[d].listener \in Listener
         /\ stopClusterConnection(c)[conn[d].listener] = queue[conn[d].listener]
<1>1. conn[d].listener \in Listener
  BY DEF TypeOK, FleetTypeOK, Connection
<1>2. conn[c] # Nil => conn[c].listener \in Listener /\ conn[c].listener # conn[d].listener
  BY DEF TypeOK, FleetTypeOK, Connection, LagInv
<1> QED
  BY <1>1, <1>2 DEF stopClusterConnection, TypeOK, FleetTypeOK

(* A cluster is disconnected.                                              *)
LEMMA LagDisconnect ==
  ASSUME TypeOK, LagInv, NEW c \in Cluster, conn' = [conn EXCEPT ![c] = Nil],
         queue' = stopClusterConnection(c), UNCHANGED <<job, pods>>
  PROVE  LagInv'
<1>1. \A d \in Cluster : conn'[d] = IF d = c THEN Nil ELSE conn[d]
  BY DEF TypeOK, FleetTypeOK
<1>2. \A d \in Cluster : conn'[d] # Nil =>
        d # c /\ conn'[d] = conn[d]
        /\ queue'[conn[d].listener] = queue[conn[d].listener]
  BY <1>1, LagStop
<1> QED
  BY <1>2 DEF LagInv

(* A cluster is connected by a goroutine that has nothing else to do.      *)
LEMMA LagConnect ==
  ASSUME TypeOK, LagInv, NEW c \in Cluster, NEW reg \in Registration,
         NEW l \in IdleListeners, NEW order \in SetToSeqs(Stored(c)), ~OwnedByOther(l, c),
         conn' = [conn EXCEPT ![c] = [reg |-> reg, listener |-> l]],
         queue' = [stopClusterConnection(c) EXCEPT ![l] =
                     [k \in DOMAIN order |-> NotificationOf(order[k], pods[order[k]])]],
         UNCHANGED <<job, pods>>
  PROVE  LagInv'
<1> DEFINE new == [k \in DOMAIN order |-> NotificationOf(order[k], pods[order[k]])]
<1>1. l \in Listener /\ job[l].pc = "idle"
  BY DEF IdleListeners
<1>2. \A d \in Cluster : conn'[d] = IF d = c THEN [reg |-> reg, listener |-> l] ELSE conn[d]
  BY DEF TypeOK, FleetTypeOK
<1>3. stopClusterConnection(c) \in [Listener -> Seq(Notification)]
  BY StopType DEF TypeOK
<1>4. ASSUME NEW k \in DOMAIN new PROVE new[k].phase = pods[new[k].pod].phase
  BY DEF NotificationOf
<1>5. queue' = [stopClusterConnection(c) EXCEPT ![l] = new]
  OBVIOUS
<1> HIDE DEF new
<1>6. queue'[l] = new
  BY <1>1, <1>3, <1>5
<1>7. ASSUME NEW p \in Pod PROVE LagOK(new, job[l], p, pods[p])
  BY <1>1, <1>4 DEF LagOK, Eligible
<1>8. ASSUME NEW d \in Cluster \ {c}, conn[d] # Nil
      PROVE  conn[d].listener # l /\ queue'[conn[d].listener] = queue[conn[d].listener]
  <2>1. conn[d].listener # l
    BY <1>8 DEF OwnedByOther
  <2> QED
    BY <1>3, <1>5, <1>8, <2>1, LagStop
<1>9. conn'[c].listener = l
  BY <1>2
<1>10. ASSUME NEW d \in Cluster, NEW p \in Pod, conn'[d] # Nil, Home[p] = d
       PROVE  LagOK(queue'[conn'[d].listener], job[conn'[d].listener], p, pods[p])
  <2>1. CASE d = c
    BY <1>6, <1>7, <1>9, <2>1
  <2>2. CASE d # c
    BY <1>2, <1>8, <1>10, <2>2 DEF LagInv
  <2> QED
    BY <2>1, <2>2
<1>11. ASSUME NEW a \in Cluster, NEW b \in Cluster, conn'[a] # Nil, conn'[b] # Nil, a # b
       PROVE  conn'[a].listener # conn'[b].listener
  <2>1. \A d \in Cluster : d # c => conn'[d] = conn[d]
    BY <1>2
  <2>2. CASE a = c
    BY <1>8, <1>9, <1>11, <2>1, <2>2
  <2>3. CASE b = c
    BY <1>8, <1>9, <1>11, <2>1, <2>3
  <2>4. CASE a # c /\ b # c
    BY <1>11, <2>1, <2>4 DEF LagInv
  <2> QED
    BY <2>2, <2>3, <2>4
<1> QED
  BY <1>10, <1>11 DEF LagInv

(* Every step of a pass.                                                   *)
LEMMA LagPass ==
  ASSUME TypeOK, LagInv, FullPass
  PROVE  LagInv'
<1>0. ASSUME UNCHANGED <<conn, queue, pods, job>> PROVE LagInv'
  BY <1>0 DEF LagInv
<1>1. ASSUME NEW c \in Cluster, NEW ok \in BOOLEAN, ConnectCluster(c, ok) PROVE LagInv'
  <2>1. clusters[c] \in Registration
    BY <1>1 DEF ConnectCluster, TypeOK, PassTypeOK
  <2>2. UNCHANGED <<job, pods>> /\ AddOrUpdateCluster(c, clusters[c], ok, IdleListeners)
    BY <1>1 DEF ConnectCluster, passEnv
  <2>3. CASE /\ conn[c] # Nil
             /\ conn' = [conn EXCEPT ![c] = [@ EXCEPT !.reg = clusters[c]]]
             /\ queue' = queue
    <3>1. conn[c] \in Connection
      BY <2>3 DEF TypeOK, FleetTypeOK
    <3>2. \A d \in Cluster : conn'[d] # Nil =>
            conn[d] # Nil /\ conn'[d].listener = conn[d].listener
      BY <2>3, <3>1 DEF TypeOK, FleetTypeOK, Connection
    <3> QED
      BY <2>2, <2>3, <3>2 DEF LagInv
  <2>4. CASE conn' = [conn EXCEPT ![c] = Nil] /\ queue' = stopClusterConnection(c)
    BY <2>2, <2>4, LagDisconnect
  <2>5. ASSUME NEW l \in IdleListeners, NEW order \in SetToSeqs(Stored(c)),
               ~OwnedByOther(l, c),
               conn' = [conn EXCEPT ![c] = [reg |-> clusters[c], listener |-> l]],
               queue' = [stopClusterConnection(c) EXCEPT ![l] =
                 [k \in DOMAIN order |-> NotificationOf(order[k], pods[order[k]])]]
        PROVE  LagInv'
    BY <2>1, <2>2, <2>5, LagConnect
  <2> QED
    BY <2>2, <2>3, <2>4, <2>5 DEF AddOrUpdateCluster
<1>2. ASSUME NEW c \in Cluster, PruneCluster(c) PROVE LagInv'
  <2>1. /\ conn' = [conn EXCEPT ![c] = Nil] /\ queue' = stopClusterConnection(c)
        /\ UNCHANGED passEnv
    BY <1>2 DEF PruneCluster, RemoveCluster
  <2>2. UNCHANGED <<job, pods>>
    BY <2>1 DEF passEnv
  <2> QED
    BY <2>1, <2>2, LagDisconnect
<1>3. ASSUME NEW ok \in BOOLEAN, ListIdentities(ok) \/ ListCurrent(ok) PROVE LagInv'
  BY <1>0, <1>3 DEF ListIdentities, ListCurrent, passEnv, connVars
<1>4. ASSUME ListClusters \/ GetChanges \/ EndPass PROVE LagInv'
  BY <1>0, <1>4 DEF ListClusters, GetChanges, EndPass, passEnv, connVars
<1>5. ASSUME NEW c, NEW i, NEW skipped, ProcessCluster(c, i, skipped) PROVE LagInv'
  BY <1>0, <1>5 DEF ProcessCluster, passEnv, connVars
<1>6. ASSUME NEW e, NEW ok, ApplyDelete(e, ok) \/ ApplyCreate(e, ok) \/ ApplyUpdate(e, ok)
      PROVE  LagInv'
  BY <1>0, <1>6 DEF ApplyDelete, ApplyCreate, ApplyUpdate, passEnv, connVars
<1> QED
  BY <1>1, <1>2, <1>3, <1>4, <1>5, <1>6 DEF FullPass

(* There is no connection and no event at the start.                       *)
LEMMA LagInitially == Init => LagInv
BY DEF Init, FleetInit, HandlerInit, IdleJob, LagInv

(* LagInv is inductive relative to type correctness.                       *)
LEMMA LagStep == TypeOK /\ LagInv /\ [Next]_vars => LagInv'
<1> SUFFICES ASSUME TypeOK, LagInv, [Next]_vars PROVE LagInv'
  OBVIOUS
<1>1. CASE Environment /\ UNCHANGED job
  BY <1>1, LagEnvironment
<1>2. CASE Handler
  BY <1>2, LagHandle, LagHandlerStep DEF Handler
<1>3. CASE FullPass
  BY <1>3, LagPass
<1>4. CASE Restart
  BY <1>4 DEF Restart, IdleJob, LagInv
<1>5. CASE UNCHANGED vars
  BY <1>5 DEF vars, fleetVars, LagInv
<1> QED
  BY <1>1, <1>2, <1>3, <1>4, <1>5 DEF Next, Step

------------------------------------------------------------------------------
(* A wanted entry that a goroutine takes out carries the UID of the pod it *)
(* is working for, and only that one.                                      *)
LEMMA HealsStep ==
  ASSUME OwnUIDOnly, TypeOK, LagInv, Next,
         NEW c \in Cluster, conn[c] # Nil, job'[conn[c].listener] # job[conn[c].listener],
         NEW p \in Pod, Home[p] = c, Eligible(pods[p]),
         NEW x \in WantedRemoved, HasPodUID(x, p)
  PROVE  \E k \in DOMAIN queue[conn[c].listener] :
           LET n == queue[conn[c].listener][k] IN n.pod = p /\ Eligible(n)
<1> DEFINE l == conn[c].listener
<1>0. l \in Listener /\ x \in spire /\ \A y \in spire' : y.id # x.id
  BY DEF TypeOK, FleetTypeOK, Connection, WantedRemoved
<1>1. spire' # spire
  BY <1>0
<1>2. Handler
  <2>1. ASSUME FullPass PROVE job' = job
    BY <2>1 DEF FullPass, ListClusters, ConnectCluster, PruneCluster, ListIdentities,
                ListCurrent, ProcessCluster, GetChanges, ApplyDelete, ApplyCreate,
                ApplyUpdate, EndPass, passEnv
  <2>2. ~Restart
    BY <1>1 DEF Restart
  <2> QED
    BY <2>1, <2>2 DEF Next, Step
<1>3. PICK k \in Listener : HandlerStep(k)
  <2>1. ASSUME NEW d, NEW ok, HandlePodChange(d, ok) PROVE FALSE
    BY <1>1, <2>1 DEF HandlePodChange
  <2> QED
    BY <1>2, <2>1 DEF Handler
<1>4. PICK ok \in BOOLEAN, e \in job[k].remove : RemoveOne(k, e, ok)
  <2>1. ASSUME NEW ok, \/ GetNode(k, ok) \/ RemoveList(k, ok)
                       \/ \E i \in Identity, s \in IdentitySpec : EnsureList(k, i, s, ok)
        PROVE  FALSE
    BY <1>1, <2>1 DEF GetNode, RemoveList, EnsureList
  <2>2. ASSUME NEW ok, EnsureWrite(k, ok) PROVE FALSE
    <3>1. CreateEntry(job[k].entry) \/ UpdateEntry(job[k].entry)
      BY <1>1, <2>2 DEF EnsureWrite
    <3>2. \E y \in spire' : y.id = x.id
      BY <1>0, <3>1 DEF CreateEntry, UpdateEntry
    <3> QED
      BY <1>0, <3>2
  <2> QED
    BY <1>3, <2>1, <2>2 DEF HandlerStep
<1>5. k = l /\ job[k].pc = "remove"
  <2>1. \A m \in Listener : m # k => job'[m] = job[m]
    BY <1>4 DEF RemoveOne, TypeOK, JobsTypeOK
  <2> QED
    BY <1>0, <1>4, <2>1 DEF RemoveOne
<1>6. x.id = e.id
  BY <1>0, <1>1, <1>4 DEF RemoveOne, DeleteEntry
<1>7. e \in Rendered /\ job[k].pod \in Pod /\ HasPodUID(e, job[k].pod)
  BY <1>5 DEF TypeOK, JobsTypeOK, JobOK, LagInv
<1>8. x \in Rendered
  BY <1>0, <1>6, <1>7, IDOfRendered
<1>9. job[k].pod = p
  BY <1>6, <1>7, <1>8, SameIDSameUID, OneUID
<1>10. Healed(queue[l], 0, p)
  BY <1>5, <1>9 DEF LagInv, LagOK
<1> QED
  BY <1>10 DEF Healed

(* A stale notification may make a handler delete a wanted entry; then the *)
(* notification that brings the entry back is still in its queue, for any  *)
(* number of pods, connections, reconnects and restarts (HandlerLossHeals).*)
THEOREM LossHeals == ASSUME OwnUIDOnly PROVE Spec => HandlerLossHeals
<1> DEFINE A == \A c \in Cluster :
       conn[c] # Nil /\ job'[conn[c].listener] # job[conn[c].listener] =>
       \A p \in {x \in Pod : Home[x] = c /\ Eligible(pods[x])} :
         (\E e \in WantedRemoved : HasPodUID(e, p))
         => \E k \in DOMAIN queue[conn[c].listener] :
              LET n == queue[conn[c].listener][k] IN n.pod = p /\ Eligible(n)
<1>1. Init => LagInv
  BY LagInitially
<1>2. TypeOK /\ LagInv /\ [Next]_vars => LagInv'
  BY LagStep
<1>3. TypeOK /\ LagInv /\ [Next]_vars => [A]_vars
  BY HealsStep
<1> QED
  BY <1>1, <1>2, <1>3, TypeCorrect, PTL DEF Spec, HandlerLossHeals

=============================================================================
