--------------------------- MODULE ConvergeProofs ---------------------------
(***************************************************************************)
(* A full pass that starts with all notifications handled, and during      *)
(* which nothing changes and nothing fails, leaves SPIRE with exactly the  *)
(* entries asked for (PassConverges of Registrar), although handlers write *)
(* beside it: a resync or a new connection gives them work at any moment.  *)
(* The argument has two halves.  HandlersQuiet says that handlers have     *)
(* nothing but up-to-date notifications, so that what they write is asked  *)
(* for and what they delete is not.  Listed and Applying say that the      *)
(* difference the pass computed from its earlier list still contains       *)
(* everything that is wrong with SPIRE.                                    *)
(***************************************************************************)
EXTENDS WantedProofs

(* Every identity has a podSelector.  Events take an absent one to select  *)
(* every pod, and passes to select none, so that with one they undo each   *)
(* other's work.                                                           *)
SelectorsGiven == \A s \in IdentitySpec : s.podSelector # Nil

------------------------------------------------------------------------------
(* The pods that pass and events agree to be under identity i, whether or  *)
(* not its templates can be rendered.                                      *)
Asked(i, p) ==
  LET s == identities[i]
      reg == registry[Home[p]]
  IN /\ s # Nil /\ reg # Nil
     /\ reg.enabled
     /\ Eligible(pods[p])
     /\ shouldProcessIdentity(s, reg)
     /\ ~isNamespaceIgnored(s.namespace)
     /\ SelectedByInformerList(s, p, pods[p].label)

(* A handler that has caught up: it ensures what is asked for and removes  *)
(* the entries of a pod that does not run.                                 *)
JobQuiet(j) ==
  /\ j.pc \in {"node", "ensure", "write"} =>
       /\ j.label = pods[j.pod].label
       /\ \A x \in j.ensure : x[2] = identities[x[1]] /\ Asked(x[1], j.pod)
  /\ j.pc = "write" => j.entry \in Desired
  /\ j.pc \in {"listRemove", "remove"} => ~Eligible(pods[j.pod])

(* Notifications of cluster c that say of its pods what is still true.     *)
QueueQuiet(c, q) ==
  \A k \in DOMAIN q : /\ Home[q[k].pod] = c
                      /\ q[k].phase = pods[q[k].pod].phase
                      /\ q[k].label = pods[q[k].pod].label

(* The connections are those of the enabled registrations, and whatever    *)
(* their listeners still have to do is up to date.                         *)
HandlersQuiet ==
  /\ \A l \in Listener : JobQuiet(job[l])
  /\ \A c \in Cluster : conn[c] # Nil =>
       /\ registry[c] # Nil /\ conn[c].reg = registry[c] /\ registry[c].enabled
       /\ QueueQuiet(c, queue[conn[c].listener])

------------------------------------------------------------------------------
(* Relative to a set D of entries asked for: their IDs, an entry that is   *)
(* as it should be, and one that nobody will remove.                       *)
IDs(D) == {d.id : d \in D}
Good(D, x) == \E d \in D : UpToDate(x, d)
Lasting(D, x) == shouldProcessEntry(x) => x.id \in IDs(D)

(* SPIRE holds an entry for d that stays.                                  *)
Present(D, S, d) == \E x \in S : Lasting(D, x) /\ Similar(x, d)

(* From S to T, only good entries come and only unwanted entries go.       *)
Improves(D, S, T) ==
  /\ \A x \in T : x \in S \/ Good(D, x)
  /\ \A y \in S : Lasting(D, y) => \E x \in T : x.id = y.id /\ Similar(x, y)

(* What the pass has declared, and what is wanted and still to be visited. *)
Declaring ==
  /\ declared \subseteq Desired
  /\ \A i \in Identity, p \in Pod : Wanted(i, p) =>
       <<Home[p], i>> \in pending \/ \E d \in declared : d.id = EntryFor(i, p).id

(* After the list: what is wrong in SPIRE was found, and what was found    *)
(* and is wanted is still there.                                           *)
Listed ==
  /\ \A x \in Managed : Good(Desired, x) \/ x \in current
  /\ \A x \in current : x.id \in IDs(Desired) => \E y \in spire : y.id = x.id

(* What is wrong in SPIRE is in the difference, and so is what is missing. *)
Applying ==
  /\ toCreate \subseteq Desired /\ toUpdate \subseteq Desired
  /\ \A e \in toDelete : e.id \notin IDs(Desired)
  /\ \A x \in Managed : Good(Desired, x) \/ x.id \in IDs(toDelete) \cup IDs(toUpdate)
  /\ \A d \in Desired : Present(Desired, spire, d) \/ d.id \in IDs(toCreate)

(* What holds of the handlers and of the pass while nothing disturbs it.   *)
Knowing ==
  /\ HandlersQuiet
  /\ pc \in {"process", "apply"} => Declaring
  /\ pc = "process" => Listed
  /\ pc = "apply" => Applying

QuietInv ==
  /\ pc \notin {"process", "apply"} => declared = {}
  /\ noise = "quiet" => Knowing

------------------------------------------------------------------------------
(* What is asked for depends on resources and pods only.                   *)
LEMMA AskedUnchanged ==
  ASSUME UNCHANGED <<identities, registry, pods>>
  PROVE  /\ \A i, p : /\ Wanted(i, p)' <=> Wanted(i, p)
                      /\ EntryFor(i, p)' = EntryFor(i, p)
                      /\ Asked(i, p)' <=> Asked(i, p)
         /\ Desired' = Desired
<1>1. \A i, p : /\ Wanted(i, p)' <=> Wanted(i, p)
                /\ EntryFor(i, p)' = EntryFor(i, p)
                /\ Asked(i, p)' <=> Asked(i, p)
  BY DEF Wanted, EntryFor, Asked
<1>2. {y \in Identity \X Pod : Wanted(y[1], y[2])}' = {y \in Identity \X Pod : Wanted(y[1], y[2])}
  BY <1>1
<1>3. Desired' = Desired
  BY <1>1, <1>2 DEF Desired
<1> QED
  BY <1>1, <1>3

(* Everything asked for is a rendering.                                    *)
LEMMA DesiredRendered ==
  ASSUME TypeOK
  PROVE  Desired \subseteq Rendered
<1> SUFFICES ASSUME NEW i \in Identity, NEW p \in Pod, Wanted(i, p)
             PROVE  EntryFor(i, p) \in Rendered
  BY DEF Desired
<1>1. identities[i] \in IdentitySpec /\ pods[p].label \in Label
  BY DEF Wanted, TypeOK, FleetTypeOK, PodState
<1> QED
  BY <1>1, DeclarationRendered DEF EntryFor

(* The entry of a pod that is asked for is one of them.                    *)
LEMMA WantedDesired ==
  ASSUME NEW i \in Identity, NEW p \in Pod, Wanted(i, p)
  PROVE  EntryFor(i, p) \in Desired
<1>1. <<i, p>> \in {y \in Identity \X Pod : Wanted(y[1], y[2])}
  OBVIOUS
<1> QED
  BY <1>1 DEF Desired

(* Nothing is asked for under the UID of a pod that does not run, nor      *)
(* under the ID of an entry with that UID.                                 *)
LEMMA NotForStopped ==
  ASSUME OwnUIDOnly, TypeOK, NEW p \in Pod, ~Eligible(pods[p]),
         NEW e \in Rendered, HasPodUID(e, p)
  PROVE  e.id \notin IDs(Desired)
<1> SUFFICES ASSUME NEW i \in Identity, NEW q \in Pod, Wanted(i, q), EntryFor(i, q).id = e.id
             PROVE  FALSE
  BY DEF IDs, Desired
<1>1. identities[i] \in IdentitySpec /\ pods[q].label \in Label /\ Eligible(pods[q])
  BY DEF Wanted, TypeOK, FleetTypeOK, PodState
<1>2. EntryFor(i, q) \in Rendered /\ HasPodUID(EntryFor(i, q), q)
  BY <1>1, DeclarationRendered, RenderedHasUID DEF EntryFor
<1>3. HasPodUID(e, q)
  BY <1>2, SameIDSameUID
<1> QED
  BY <1>1, <1>3, OneUID

------------------------------------------------------------------------------
(* Writing what is asked for is an improvement.                            *)
LEMMA WriteImproves ==
  ASSUME TypeOK, NEW D, D \subseteq Rendered, NEW e \in D, CreateEntry(e) \/ UpdateEntry(e)
  PROVE  Improves(D, spire, spire')
<1>1. Good(D, e)
  BY DEF Good, UpToDate, getOutdatedEntryFields
<1>2. \A x : Similar(x, x)
  BY DEF Similar
<1>3. CASE CreateEntry(e)
  BY <1>1, <1>2, <1>3 DEF CreateEntry, Improves
<1>4. CASE UpdateEntry(e)
  <2>1. ASSUME NEW y \in spire, y.id = e.id PROVE Similar(e, y)
    BY <2>1, IDOfRendered, SameIDSameWorkload
  <2> QED
    BY <1>1, <1>2, <1>4, <2>1 DEF UpdateEntry, Improves
<1> QED
  BY <1>3, <1>4

(* So is deleting what is not asked for.                                   *)
LEMMA DeleteImproves ==
  ASSUME NEW D, NEW e \in Rendered, e.id \notin IDs(D), DeleteEntry(e.id)
  PROVE  Improves(D, spire, spire')
<1>1. \A x : Similar(x, x)
  BY DEF Similar
<1>2. \A y : y.id = e.id => ~Lasting(D, y)
  BY RenderedManaged DEF Lasting, shouldProcessEntry
<1> QED
  BY <1>1, <1>2 DEF DeleteEntry, Improves

(* And leaving everything as it is.                                        *)
LEMMA NothingImproves ==
  ASSUME NEW D, spire' = spire
  PROVE  Improves(D, spire, spire')
BY DEF Improves, Similar

(* What has an entry that stays keeps one.                                 *)
LEMMA StaysPresent ==
  ASSUME NEW D, NEW S, NEW T, Improves(D, S, T), NEW d, Present(D, S, d)
  PROVE  Present(D, T, d)
<1>1. PICK y \in S : Lasting(D, y) /\ Similar(y, d)
  BY DEF Present
<1>2. PICK x \in T : x.id = y.id /\ Similar(x, y)
  BY <1>1 DEF Improves
<1>3. Lasting(D, x)
  BY <1>1, <1>2 DEF Lasting, shouldProcessEntry
<1>4. Similar(x, d)
  BY <1>1, <1>2 DEF Similar
<1> QED
  BY <1>3, <1>4 DEF Present

------------------------------------------------------------------------------
(* A pass that is still quiet after a step was quiet before, and the step  *)
(* changed neither resources nor pods and failed in nothing.               *)
LEMMA StillQuiet ==
  ASSUME NoteNoise, noise' = "quiet", pc # "idle"
  PROVE  /\ noise = "quiet" /\ pc' # "idle"
         /\ UNCHANGED <<identities, registry, faults, pods>>
BY DEF NoteNoise

(* Calls that did not count as a failure succeeded.                        *)
LEMMA Succeeded ==
  ASSUME TypeOK, faults' = faults, NEW ok \in BOOLEAN, Outcome(ok)
  PROVE  ok = TRUE
<1>1. faults \in Nat
  BY FleetAssumption DEF TypeOK, FleetTypeOK
<1> QED
  BY <1>1 DEF Outcome

(* All that the environment does without changing resources or pods is a   *)
(* resync.                                                                 *)
LEMMA OnlyResync ==
  ASSUME TypeOK, Environment, UNCHANGED <<identities, registry, pods>>
  PROVE  \E c \in Cluster : Resync(c)
<1>1. ASSUME NEW i \in Identity, NEW s, ApplyIdentity(i, s) \/ DeleteIdentity(i) PROVE FALSE
  BY <1>1 DEF ApplyIdentity, DeleteIdentity, TypeOK, FleetTypeOK
<1>2. ASSUME NEW c \in Cluster, NEW reg, ApplyRegistration(c, reg) \/ DeleteRegistration(c)
      PROVE  FALSE
  BY <1>2 DEF ApplyRegistration, DeleteRegistration, TypeOK, FleetTypeOK
<1>3. ASSUME NEW p \in Pod, NEW phase \in Phase, MovePod(p, phase) PROVE FALSE
  <2>1. pods[p] \in PodState /\ pods'[p] = [pods[p] EXCEPT !.phase = phase]
    BY <1>3 DEF MovePod, PodBecomes, TypeOK, FleetTypeOK
  <2>2. pods[p].phase = phase
    BY <2>1 DEF PodState
  <2>3. PhaseOrder[phase] \in Nat
    BY DEF Phase, PhaseOrder
  <2> QED
    BY <1>3, <2>2, <2>3 DEF MovePod
<1>4. ASSUME NEW p \in Pod, NEW label \in Label, RelabelPod(p, label) PROVE FALSE
  <2>1. pods[p] \in PodState /\ pods'[p] = [pods[p] EXCEPT !.label = label]
    BY <1>4 DEF RelabelPod, PodBecomes, TypeOK, FleetTypeOK
  <2> QED
    BY <1>4, <2>1 DEF RelabelPod, PodState
<1> QED
  BY <1>1, <1>2, <1>3, <1>4 DEF Environment

(* HandlersQuiet after a step that changed neither resources nor pods.     *)
LEMMA QuietAfter ==
  ASSUME UNCHANGED <<identities, registry, pods>>,
         \A l \in Listener : JobQuiet(job'[l]),
         \A c \in Cluster : conn'[c] # Nil =>
           /\ registry[c] # Nil /\ conn'[c].reg = registry[c] /\ registry[c].enabled
           /\ QueueQuiet(c, queue'[conn'[c].listener])
  PROVE  HandlersQuiet'
<1>1. \A l \in Listener : JobQuiet(job[l])'
  BY AskedUnchanged DEF JobQuiet
<1>2. \A c \in Cluster : QueueQuiet(c, queue'[conn'[c].listener])
                         => QueueQuiet(c, queue[conn[c].listener])'
  BY DEF QueueQuiet
<1> QED
  BY <1>1, <1>2 DEF HandlersQuiet

(* Nothing to do is up to date.                                            *)
LEMMA IdleQuiet == JobQuiet(IdleJob)
BY DEF JobQuiet, IdleJob

(* The notifications of a store are up to date.                            *)
LEMMA StoreQuiet ==
  ASSUME FleetTypeOK, NEW c \in Cluster, NEW order \in SetToSeqs(Stored(c))
  PROVE  QueueQuiet(c, [k \in DOMAIN order |-> NotificationOf(order[k], pods[order[k]])])
<1>1. \A k \in DOMAIN order : order[k] \in Pod /\ Home[order[k]] = c
  BY DEF SetToSeqs, Stored
<1> QED
  BY <1>1 DEF QueueQuiet, NotificationOf

(* The next identity of an event, and of a job whose event is over.        *)
LEMMA ContinueQuiet ==
  ASSUME NEW j, DOMAIN j = DOMAIN IdleJob, JobQuiet(j), j.pc \in {"node", "ensure", "write"}
  PROVE  JobQuiet(Continue(j))
BY IdleQuiet DEF Continue, JobQuiet, IdleJob

(* A step of one goroutine, with its queue as it was or shorter.           *)
LEMMA OneJobQuiet ==
  ASSUME TypeOK, HandlersQuiet, UNCHANGED <<identities, registry, pods, conn, queue>>,
         NEW l \in Listener, NEW j, JobQuiet(j), job' = [job EXCEPT ![l] = j]
  PROVE  HandlersQuiet'
<1>1. \A k \in Listener : JobQuiet(job'[k])
  BY DEF HandlersQuiet, TypeOK, JobsTypeOK
<1> QED
  BY <1>1, QuietAfter DEF HandlersQuiet

------------------------------------------------------------------------------
(* A resync adds notifications of one store to the queue of its listener,  *)
(* which no other connection uses.                                         *)
LEMMA ResyncQuiet ==
  ASSUME TypeOK, LagInv, HandlersQuiet, NEW c \in Cluster, Resync(c), job' = job
  PROVE  HandlersQuiet'
<1> DEFINE l == conn[c].listener
<1>1. l \in Listener /\ conn[c] # Nil /\ UNCHANGED <<identities, registry, pods, conn>>
  BY DEF TypeOK, FleetTypeOK, Connection, Resync, resourceVars
<1>2. PICK order \in SetToSeqs(Stored(c)) :
        queue' = [queue EXCEPT ![l] = queue[l] \o
          [k \in DOMAIN order |-> NotificationOf(order[k], pods[order[k]])]]
  BY DEF Resync
<1> DEFINE new == [k \in DOMAIN order |-> NotificationOf(order[k], pods[order[k]])]
<1>3. new \in Seq(Notification) /\ QueueQuiet(c, new)
  BY StoreNotifications, StoreQuiet DEF TypeOK
<1>4. queue[l] \in Seq(Notification) /\ QueueQuiet(c, queue[l])
  BY <1>1 DEF TypeOK, FleetTypeOK, HandlersQuiet
<1>5. queue' = [queue EXCEPT ![l] = queue[l] \o new]
  BY <1>2
<1> HIDE DEF new
<1>6. QueueQuiet(c, queue[l] \o new)
  <2>1. \A k \in DOMAIN (queue[l] \o new) :
          \/ k \in DOMAIN queue[l] /\ (queue[l] \o new)[k] = queue[l][k]
          \/ k - Len(queue[l]) \in DOMAIN new /\ (queue[l] \o new)[k] = new[k - Len(queue[l])]
    BY <1>3, <1>4
  <2> QED
    BY <1>3, <1>4, <2>1 DEF QueueQuiet
<1>7. ASSUME NEW d \in Cluster, conn'[d] # Nil
      PROVE  /\ registry[d] # Nil /\ conn'[d].reg = registry[d] /\ registry[d].enabled
             /\ QueueQuiet(d, queue'[conn'[d].listener])
  <2>1. conn[d].listener \in Listener /\ (d # c => conn[d].listener # l)
    BY <1>1, <1>7 DEF LagInv, TypeOK, FleetTypeOK, Connection
  <2>2. queue'[conn[d].listener] = IF d = c THEN queue[l] \o new ELSE queue[conn[d].listener]
    BY <1>1, <1>5, <2>1 DEF TypeOK, FleetTypeOK
  <2> QED
    BY <1>1, <1>6, <1>7, <2>2 DEF HandlersQuiet
<1>8. \A k \in Listener : JobQuiet(job'[k])
  BY DEF HandlersQuiet
<1> QED
  BY <1>1, <1>7, <1>8, QuietAfter

(* What ReconcileSinglePod makes of a notification that is up to date.     *)
LEMMA TakenQuiet ==
  ASSUME SelectorsGiven, TypeOK, NEW c \in Cluster, NEW n \in Notification, Home[n.pod] = c,
         n.phase = pods[n.pod].phase, n.label = pods[n.pod].label,
         registry[c] # Nil, registry[c].enabled
  PROVE  JobQuiet(ReconcileSinglePod(n, findMatchingIdentities(n.pod, n.label, registry[c])))
<1> DEFINE M == findMatchingIdentities(n.pod, n.label, registry[c])
           p == n.pod
<1>1. p \in Pod
  BY DEF Notification
<1>2. Eligible(n) <=> Eligible(pods[p])
  BY DEF Eligible
<1>3. n.phase = "gone" => ~Eligible(pods[p])
  BY DEF Eligible
<1>4. ASSUME NEW x \in M, Eligible(pods[p]), ~isNamespaceIgnored(NamespaceOf[p])
      PROVE  x[2] = identities[x[1]] /\ Asked(x[1], p)
  <2>1. PICK i \in Identity : /\ x = <<i, identities[i]>> /\ identities[i] # Nil
                              /\ shouldProcessIdentity(identities[i], registry[c])
                              /\ SelectedByPodEvent(identities[i], p, n.label)
    BY DEF findMatchingIdentities
  <2>2. identities[i] \in IdentitySpec
    BY <2>1 DEF TypeOK, FleetTypeOK
  <2>3. identities[i].podSelector # Nil
    BY <2>2 DEF SelectorsGiven
  <2>4. SelectedByInformerList(identities[i], p, pods[p].label)
    BY <2>1, <2>3 DEF SelectedByInformerList, SelectedByPodEvent
  <2>5. ~isNamespaceIgnored(identities[i].namespace)
    BY <1>4, <2>4 DEF SelectedByInformerList
  <2>6. Asked(i, p)
    BY <1>4, <2>1, <2>4, <2>5 DEF Asked
  <2> QED
    BY <2>1, <2>6
<1> HIDE DEF M
<1>5. JobQuiet(ReconcileSinglePod(n, M))
  BY <1>2, <1>3, <1>4, IdleQuiet DEF ReconcileSinglePod, Job, JobQuiet, IdleJob
<1> QED
  BY <1>5 DEF M

(* A handler takes its next notification.                                  *)
LEMMA HandleQuiet ==
  ASSUME SelectorsGiven, TypeOK, LagInv, HandlersQuiet, faults' = faults,
         NEW c \in Cluster, NEW ok \in BOOLEAN, HandlePodChange(c, ok)
  PROVE  HandlersQuiet' /\ spire' = spire
<1> DEFINE l == conn[c].listener
           n == Head(queue[l])
           j == ReconcileSinglePod(n, findMatchingIdentities(n.pod, n.label, conn[c].reg))
<1>1. ok = TRUE
  BY Succeeded DEF HandlePodChange
<1>2. /\ l \in Listener /\ conn[c] # Nil /\ queue[l] # <<>> /\ spire' = spire
      /\ UNCHANGED <<identities, registry, pods, conn>>
      /\ queue[l] \in Seq(Notification)
  BY DEF TypeOK, FleetTypeOK, Connection, HandlePodChange, handlerEnv, resourceVars
<1>3. job' = [job EXCEPT ![l] = j] /\ queue' = [queue EXCEPT ![l] = Tail(queue[l])]
  BY <1>1 DEF HandlePodChange
<1>4. /\ registry[c] # Nil /\ conn[c].reg = registry[c] /\ registry[c].enabled
      /\ QueueQuiet(c, queue[l])
  BY <1>2 DEF HandlersQuiet
<1>5. n \in Notification /\ n = queue[l][1] /\ 1 \in DOMAIN queue[l]
  BY <1>2
<1>6. Home[n.pod] = c /\ n.phase = pods[n.pod].phase /\ n.label = pods[n.pod].label
  BY <1>4, <1>5 DEF QueueQuiet
<1>7. JobQuiet(j)
  BY <1>4, <1>5, <1>6, TakenQuiet
<1> HIDE DEF n, j
<1>8. QueueQuiet(c, Tail(queue[l]))
  <2>1. \A k \in DOMAIN Tail(queue[l]) :
          k + 1 \in DOMAIN queue[l] /\ Tail(queue[l])[k] = queue[l][k + 1]
    BY <1>2
  <2> QED
    BY <1>4, <2>1 DEF QueueQuiet
<1>9. ASSUME NEW d \in Cluster, conn'[d] # Nil
      PROVE  /\ registry[d] # Nil /\ conn'[d].reg = registry[d] /\ registry[d].enabled
             /\ QueueQuiet(d, queue'[conn'[d].listener])
  <2>1. conn[d].listener \in Listener /\ (d # c => conn[d].listener # l)
    BY <1>2, <1>9 DEF LagInv, TypeOK, FleetTypeOK, Connection
  <2>2. queue'[conn[d].listener] = IF d = c THEN Tail(queue[l]) ELSE queue[conn[d].listener]
    BY <1>2, <1>3, <2>1 DEF TypeOK, FleetTypeOK
  <2> QED
    BY <1>2, <1>8, <1>9, <2>2 DEF HandlersQuiet
<1>10. \A k \in Listener : JobQuiet(job'[k])
  BY <1>2, <1>3, <1>7 DEF HandlersQuiet, TypeOK, JobsTypeOK
<1> QED
  BY <1>2, <1>9, <1>10, QuietAfter

(* The later steps of a job: what is written is asked for, what is deleted *)
(* is not.                                                                 *)
LEMMA HandlerStepQuiet ==
  ASSUME OwnUIDOnly, TypeOK, LagInv, HandlersQuiet, NEW l \in Listener, HandlerStep(l)
  PROVE  HandlersQuiet' /\ Improves(Desired, spire, spire')
<1> DEFINE j == job[l]
           Quiet == HandlersQuiet' /\ Improves(Desired, spire, spire')
<1>0. /\ DOMAIN j = DOMAIN IdleJob /\ JobOK(j) /\ JobQuiet(j)
      /\ \A e \in j.remove : HasPodUID(e, j.pod)
  BY DEF TypeOK, JobsTypeOK, HandlersQuiet, LagInv
<1>u. UNCHANGED <<identities, registry, pods, conn, queue>>
  BY DEF HandlerStep, GetNode, EnsureList, EnsureWrite, RemoveList, RemoveOne, handlerEnv,
         resourceVars
<1> HIDE DEF j
<1>1. ASSUME NEW ok \in BOOLEAN, GetNode(l, ok) PROVE Quiet
  <2> DEFINE new == IF ok /\ conn[Home[j.pod]] # Nil THEN [j EXCEPT !.pc = "ensure"]
                    ELSE IdleJob
  <2>1. j.pc = "node" /\ job' = [job EXCEPT ![l] = new] /\ spire' = spire
    BY <1>1 DEF GetNode, j
  <2>2. JobQuiet(new)
    BY <1>0, <2>1, IdleQuiet DEF JobQuiet, IdleJob
  <2> HIDE DEF new
  <2> QED
    BY <1>u, <2>1, <2>2, OneJobQuiet, NothingImproves
<1>2. ASSUME NEW ok \in BOOLEAN, NEW i \in Identity, NEW s \in IdentitySpec,
             EnsureList(l, i, s, ok)
      PROVE  Quiet
  <2> DEFINE rest == [j EXCEPT !.ensure = @ \ {<<i, s>>}]
             e == Declaration(i, s, Home[j.pod], j.pod, j.label)
             found == IF ok THEN {x \in ListEntries : x.id = e.id} ELSE {}
             upToDate == found # {} /\ \A x \in found : getOutdatedEntryFields(e, x) = {}
             new == IF ~CanRender(s) \/ upToDate THEN Continue(rest)
                    ELSE [rest EXCEPT !.pc = "write", !.entry = e, !.found = found]
  <2>1. /\ j.pc = "ensure" /\ <<i, s>> \in j.ensure /\ job' = [job EXCEPT ![l] = new]
        /\ spire' = spire
    BY <1>2 DEF EnsureList, j
  <2>2. j.pod \in Pod /\ j.label = pods[j.pod].label /\ s = identities[i] /\ Asked(i, j.pod)
    BY <1>0, <2>1 DEF JobOK, JobQuiet
  <2>3. CanRender(s) => e \in Desired
    <3>1. CanRender(s) => Wanted(i, j.pod)
      BY <2>2 DEF Asked, Wanted
    <3>2. e = EntryFor(i, j.pod)
      BY <2>2 DEF EntryFor
    <3> QED
      BY <2>2, <3>1, <3>2, WantedDesired
  <2> HIDE DEF e, found, upToDate
  <2>4. DOMAIN rest = DOMAIN IdleJob /\ JobQuiet(rest) /\ rest.pc = "ensure"
    BY <1>0, <2>1 DEF JobQuiet, IdleJob
  <2>5. JobQuiet(Continue(rest))
    BY <2>4, ContinueQuiet
  <2>6. CanRender(s) => JobQuiet([rest EXCEPT !.pc = "write", !.entry = e, !.found = found])
    BY <2>3, <2>4 DEF JobQuiet, IdleJob
  <2>7. JobQuiet(new)
    BY <2>5, <2>6
  <2> HIDE DEF new
  <2> QED
    BY <1>u, <2>1, <2>7, OneJobQuiet, NothingImproves
<1>3. ASSUME NEW ok \in BOOLEAN, EnsureWrite(l, ok) PROVE Quiet
  <2>1. j.pc = "write" /\ job' = [job EXCEPT ![l] = Continue(j)]
    BY <1>3 DEF EnsureWrite, j
  <2>2. j.entry \in Desired
    BY <1>0, <2>1 DEF JobQuiet
  <2>3. spire' = spire \/ CreateEntry(j.entry) \/ UpdateEntry(j.entry)
    BY <1>3 DEF EnsureWrite, j
  <2>4. Improves(Desired, spire, spire')
    BY <2>2, <2>3, DesiredRendered, WriteImproves, NothingImproves
  <2>5. JobQuiet(Continue(j))
    BY <1>0, <2>1, ContinueQuiet
  <2> QED
    BY <1>u, <2>1, <2>4, <2>5, OneJobQuiet
<1>4. ASSUME NEW ok \in BOOLEAN, RemoveList(l, ok) PROVE Quiet
  <2> DEFINE doomed == deleteEntriesForPod(ListEntries, j.pod)
             new == IF ~ok \/ doomed = {} THEN IdleJob
                    ELSE [j EXCEPT !.pc = "remove", !.remove = doomed]
  <2>1. j.pc = "listRemove" /\ job' = [job EXCEPT ![l] = new] /\ spire' = spire
    BY <1>4 DEF RemoveList, j
  <2> HIDE DEF doomed
  <2>2. JobQuiet(new)
    BY <1>0, <2>1, IdleQuiet DEF JobQuiet, IdleJob
  <2> HIDE DEF new
  <2> QED
    BY <1>u, <2>1, <2>2, OneJobQuiet, NothingImproves
<1>5. ASSUME NEW ok \in BOOLEAN, NEW e \in job[l].remove, RemoveOne(l, e, ok) PROVE Quiet
  <2> DEFINE new == IF j.remove \ {e} = {} THEN IdleJob
                    ELSE [j EXCEPT !.remove = j.remove \ {e}]
  <2>1. j.pc = "remove" /\ e \in j.remove /\ job' = [job EXCEPT ![l] = new]
    BY <1>5 DEF RemoveOne, j
  <2>2. JobQuiet(new)
    BY <1>0, <2>1, IdleQuiet DEF JobQuiet, IdleJob
  <2> HIDE DEF new
  <2>3. e \in Rendered /\ HasPodUID(e, j.pod) /\ j.pod \in Pod /\ ~Eligible(pods[j.pod])
    BY <1>0, <2>1 DEF JobOK, JobQuiet
  <2>4. e.id \notin IDs(Desired)
    BY <2>3, NotForStopped
  <2>5. Improves(Desired, spire, spire')
    BY <1>5, <2>3, <2>4, DeleteImproves, NothingImproves DEF RemoveOne
  <2> QED
    BY <1>u, <2>1, <2>2, <2>5, OneJobQuiet
<1> QED
  BY <1>1, <1>2, <1>3, <1>4, <1>5 DEF HandlerStep

------------------------------------------------------------------------------
(* What the pass knows survives every improvement made beside it.          *)
LEMMA KnowledgeKept ==
  ASSUME TypeOK, UNCHANGED <<identities, registry, pods, passVars>>,
         Improves(Desired, spire, spire')
  PROVE  /\ Declaring => Declaring'
         /\ Listed => Listed'
         /\ Applying => Applying'
<1>1. /\ Desired' = Desired
      /\ \A i \in Identity, p \in Pod : /\ Wanted(i, p)' <=> Wanted(i, p)
                                        /\ EntryFor(i, p)' = EntryFor(i, p)
  BY AskedUnchanged
<1>2. UNCHANGED <<current, declared, pending, toCreate, toUpdate, toDelete>>
  BY DEF passVars, stateVars, diffVars
<1>3. Declaring => Declaring'
  BY <1>1, <1>2 DEF Declaring
<1>4. \A x \in Managed' : x \in Managed \/ Good(Desired, x)
  BY DEF Managed, Improves
<1>5. ASSUME Listed PROVE Listed'
  <2>1. \A x \in Managed' : Good(Desired, x) \/ x \in current
    BY <1>4, <1>5 DEF Listed
  <2>2. ASSUME NEW x \in current, x.id \in IDs(Desired) PROVE \E y \in spire' : y.id = x.id
    <3>1. PICK y \in spire : y.id = x.id
      BY <1>5, <2>2 DEF Listed
    <3>2. Lasting(Desired, y)
      BY <2>2, <3>1 DEF Lasting
    <3> QED
      BY <3>1, <3>2 DEF Improves
  <2> QED
    BY <1>1, <1>2, <2>1, <2>2 DEF Listed, Managed
<1>6. ASSUME Applying PROVE Applying'
  <2>1. \A x \in Managed' : Good(Desired, x) \/ x.id \in IDs(toDelete) \cup IDs(toUpdate)
    BY <1>4, <1>6 DEF Applying
  <2>2. \A d \in Desired : Present(Desired, spire', d) \/ d.id \in IDs(toCreate)
    BY <1>6, StaysPresent DEF Applying
  <2> QED
    BY <1>1, <1>2, <1>6, <2>1, <2>2 DEF Applying
<1> QED
  BY <1>3, <1>5, <1>6

(* A step that has nothing to do with the handlers leaves them up to date. *)
LEMMA HandlersUntouched ==
  ASSUME HandlersQuiet, UNCHANGED <<identities, registry, pods, conn, queue, job>>
  PROVE  HandlersQuiet'
BY QuietAfter DEF HandlersQuiet

(* A pass that starts with everything settled finds the handlers up to     *)
(* date.                                                                   *)
LEMMA SettledQuiet ==
  ASSUME TypeOK, Settled
  PROVE  HandlersQuiet
<1>1. \A l \in Listener : JobQuiet(job[l])
  BY IdleQuiet DEF Settled
<1>2. ASSUME NEW c \in Cluster, conn[c] # Nil
      PROVE  /\ registry[c] # Nil /\ conn[c].reg = registry[c] /\ registry[c].enabled
             /\ QueueQuiet(c, queue[conn[c].listener])
  <2>1. conn[c].reg \in Registration /\ conn[c].listener \in Listener
    BY <1>2 DEF TypeOK, FleetTypeOK, Connection
  <2>2. queue[conn[c].listener] = <<>>
    BY <2>1 DEF Settled
  <2>3. QueueQuiet(c, <<>>)
    BY DEF QueueQuiet
  <2> QED
    BY <1>2, <2>1, <2>2, <2>3, FleetAssumption DEF Settled
<1> QED
  BY <1>1, <1>2 DEF HandlersQuiet

(* AddOrUpdateCluster makes a connection whose listener has the store to   *)
(* go through, keeps the one there is, or leaves a disabled cluster alone. *)
LEMMA ConnectQuiet ==
  ASSUME TypeOK, LagInv, HandlersQuiet, PassView, NEW c \in Cluster, ConnectCluster(c, TRUE)
  PROVE  HandlersQuiet'
<1> DEFINE reg == registry[c]
<1>1. /\ UNCHANGED <<identities, registry, pods, job>> /\ reg \in Registration /\ reg # Nil
      /\ AddOrUpdateCluster(c, reg, TRUE, IdleListeners)
  BY FleetAssumption
     DEF ConnectCluster, passEnv, resourceVars, PassView, TypeOK, PassTypeOK
<1>2. conn[c] # Nil => conn[c].reg = reg /\ reg.enabled
  BY DEF HandlersQuiet
<1>3. \A l \in Listener : JobQuiet(job'[l])
  BY <1>1 DEF HandlersQuiet
<1>4. ASSUME NEW d \in Cluster \ {c}, conn'[d] # Nil, conn'[d] = conn[d],
             queue'[conn[d].listener] = queue[conn[d].listener]
      PROVE  /\ registry[d] # Nil /\ conn'[d].reg = registry[d] /\ registry[d].enabled
             /\ QueueQuiet(d, queue'[conn'[d].listener])
  BY <1>4 DEF HandlersQuiet
<1>5. CASE /\ conn[c] # Nil /\ queue' = queue
           /\ conn' = [conn EXCEPT ![c] = [conn[c] EXCEPT !.reg = reg]]
  <2>1. conn' = conn
    BY <1>2, <1>5 DEF TypeOK, FleetTypeOK, Connection
  <2> QED
    BY <1>1, <1>5, <2>1, HandlersUntouched
<1>6. CASE conn' = [conn EXCEPT ![c] = Nil] /\ queue' = stopClusterConnection(c)
  <2>1. \A d \in Cluster : conn'[d] = IF d = c THEN Nil ELSE conn[d]
    BY <1>6 DEF TypeOK, FleetTypeOK
  <2>2. ASSUME NEW d \in Cluster, conn'[d] # Nil
        PROVE  /\ registry[d] # Nil /\ conn'[d].reg = registry[d] /\ registry[d].enabled
               /\ QueueQuiet(d, queue'[conn'[d].listener])
    BY <1>4, <1>6, <2>1, <2>2, LagStop
  <2> QED
    BY <1>1, <1>3, <2>2, QuietAfter
<1>7. ASSUME reg.enabled, NEW l \in IdleListeners, NEW order \in SetToSeqs(Stored(c)),
             ~OwnedByOther(l, c),
             conn' = [conn EXCEPT ![c] = [reg |-> reg, listener |-> l]],
             queue' = [stopClusterConnection(c) EXCEPT ![l] =
               [k \in DOMAIN order |-> NotificationOf(order[k], pods[order[k]])]]
      PROVE  HandlersQuiet'
  <2> DEFINE new == [k \in DOMAIN order |-> NotificationOf(order[k], pods[order[k]])]
  <2>1. l \in Listener
    BY DEF IdleListeners
  <2>2. \A d \in Cluster : conn'[d] = IF d = c THEN [reg |-> reg, listener |-> l] ELSE conn[d]
    BY <1>7 DEF TypeOK, FleetTypeOK
  <2>3. stopClusterConnection(c) \in [Listener -> Seq(Notification)]
    BY StopType DEF TypeOK
  <2>4. QueueQuiet(c, new)
    BY StoreQuiet DEF TypeOK
  <2>5. queue' = [stopClusterConnection(c) EXCEPT ![l] = new]
    BY <1>7
  <2> HIDE DEF new
  <2>6. queue'[l] = new
    BY <2>1, <2>3, <2>5
  <2>7. ASSUME NEW d \in Cluster \ {c}, conn[d] # Nil
        PROVE  queue'[conn[d].listener] = queue[conn[d].listener]
    <3>1. conn[d].listener # l
      BY <1>7, <2>7 DEF OwnedByOther
    <3> QED
      BY <2>3, <2>5, <2>7, <3>1, LagStop
  <2>8. ASSUME NEW d \in Cluster, conn'[d] # Nil
        PROVE  /\ registry[d] # Nil /\ conn'[d].reg = registry[d] /\ registry[d].enabled
               /\ QueueQuiet(d, queue'[conn'[d].listener])
    <3>1. CASE d = c
      BY <1>1, <1>7, <2>2, <2>4, <2>6, <3>1
    <3>2. CASE d # c
      BY <1>4, <2>2, <2>7, <2>8, <3>2
    <3> QED
      BY <3>1, <3>2
  <2> QED
    BY <1>1, <1>3, <2>8, QuietAfter
<1> QED
  BY <1>1, <1>5, <1>6, <1>7 DEF AddOrUpdateCluster

------------------------------------------------------------------------------
(* ListEntries: everything that is wrong is in the list, and every wanted  *)
(* pod is in a store still to be read.                                     *)
LEMMA ListingQuiet ==
  ASSUME TypeOK, PassView, declared = {}, ListCurrent(TRUE)
  PROVE  Declaring' /\ Listed'
<1>1. /\ pc = "entries" /\ connecting = {} /\ idents = identities /\ clusters = registry
      /\ pending' = {x \in Cluster \X Identity : conn[x[1]] # Nil /\ idents[x[2]] # Nil}
      /\ current' = Managed /\ declared' = {}
      /\ UNCHANGED <<identities, registry, pods, spire>>
  BY DEF ListCurrent, PassView, passEnv, resourceVars, AddCurrent, Put, ListEntries, Managed
<1>2. ASSUME NEW i \in Identity, NEW p \in Pod, Wanted(i, p)'
      PROVE  <<Home[p], i>> \in pending'
  <2>1. Home[p] \in Cluster
    BY FleetAssumption
  <2>2. /\ identities[i] # Nil /\ registry[Home[p]] # Nil /\ registry[Home[p]].enabled
    BY <1>1, <1>2 DEF Wanted
  <2>3. conn[Home[p]] # Nil
    BY <1>1, <2>1, <2>2 DEF PassView, ConnectedAsListed
  <2> QED
    BY <1>1, <2>1, <2>2, <2>3
<1>3. Declaring'
  BY <1>1, <1>2 DEF Declaring
<1>4. Listed'
  BY <1>1 DEF Listed, Managed
<1> QED
  BY <1>3, <1>4

(* What processWorkloadIdentity declares is what is wanted of the cluster  *)
(* and the identity.                                                       *)
LEMMA ProcessedWanted ==
  ASSUME TypeOK, PassView, HandlersQuiet, pc = "process", NEW c \in Cluster, NEW i \in Identity,
         idents[i] # Nil
  PROVE  /\ processWorkloadIdentity(c, i, {}) \subseteq Desired
         /\ \A p \in Pod : Home[p] = c /\ Wanted(i, p) =>
              EntryFor(i, p) \in processWorkloadIdentity(c, i, {})
<1>1. idents = identities /\ clusters = registry /\ connecting = {}
  BY DEF PassView
<1>2. ASSUME NEW p \in Visited(c, i), CanRender(identities[i])
      PROVE  Declaration(i, identities[i], c, p, pods[p].label) \in Desired
  <2>1. /\ conn[c] # Nil /\ shouldProcessIdentity(identities[i], conn[c].reg)
        /\ ~isNamespaceIgnored(identities[i].namespace)
        /\ p \in Pod /\ Home[p] = c
        /\ SelectedByInformerList(identities[i], p, pods[p].label) /\ Eligible(pods[p])
    BY <1>1 DEF Visited, getPodsFromInformer, Stored
  <2>2. registry[c] # Nil /\ conn[c].reg = registry[c] /\ registry[c].enabled
    BY <2>1 DEF HandlersQuiet
  <2>3. Wanted(i, p)
    BY <1>1, <1>2, <2>1, <2>2 DEF Wanted
  <2> QED
    BY <2>1, <2>3, WantedDesired DEF EntryFor
<1>3. ASSUME NEW p \in Pod, Home[p] = c, Wanted(i, p)
      PROVE  EntryFor(i, p) \in processWorkloadIdentity(c, i, {})
  <2>1. /\ registry[c] # Nil /\ registry[c].enabled /\ Eligible(pods[p])
        /\ shouldProcessIdentity(identities[i], registry[c])
        /\ ~isNamespaceIgnored(identities[i].namespace)
        /\ SelectedByInformerList(identities[i], p, pods[p].label)
        /\ CanRender(identities[i])
    BY <1>3 DEF Wanted
  <2>2. conn[c] # Nil /\ conn[c].reg = registry[c]
    BY <1>1, <2>1 DEF PassView, ConnectedAsListed
  <2>3. p \in Stored(c)
    BY <1>3, <2>1 DEF Stored, InStore, Eligible
  <2>4. p \in Visited(c, i)
    BY <1>1, <2>1, <2>2, <2>3 DEF Visited, getPodsFromInformer
  <2> QED
    BY <1>1, <1>3, <2>1, <2>4 DEF processWorkloadIdentity, EntryFor
<1> QED
  BY <1>1, <1>2, <1>3 DEF processWorkloadIdentity

(* ProcessCluster, when no pod had to be skipped.                          *)
LEMMA ProcessingQuiet ==
  ASSUME TypeOK, PassView, HandlersQuiet, Declaring, Listed,
         NEW c \in Cluster, NEW i \in Identity, ProcessCluster(c, i, {})
  PROVE  Declaring' /\ Listed'
<1> DEFINE new == processWorkloadIdentity(c, i, {})
<1>1. /\ pc = "process" /\ <<c, i>> \in pending /\ current' = current
      /\ pending' = pending \ {<<c, i>>}
      /\ declared' = {x \in declared : \A y \in new : y.id # x.id} \cup new
      /\ UNCHANGED <<identities, registry, pods, spire>>
  BY DEF ProcessCluster, passEnv, resourceVars, AddDeclared, Put
<1>2. /\ Desired' = Desired
      /\ \A k \in Identity, p \in Pod : /\ Wanted(k, p)' <=> Wanted(k, p)
                                        /\ EntryFor(k, p)' = EntryFor(k, p)
  BY <1>1, AskedUnchanged
<1>3. idents[i] # Nil
  BY <1>1 DEF TypeOK, PassTypeOK
<1>4. /\ new \subseteq Desired
      /\ \A p \in Pod : Home[p] = c /\ Wanted(i, p) => EntryFor(i, p) \in new
  BY <1>1, <1>3, ProcessedWanted
<1> HIDE DEF new
<1>5. \A x \in declared : \E d \in declared' : d.id = x.id
  BY <1>1
<1>6. ASSUME NEW k \in Identity, NEW p \in Pod, Wanted(k, p)
      PROVE  <<Home[p], k>> \in pending' \/ \E d \in declared' : d.id = EntryFor(k, p).id
  <2>1. \/ <<Home[p], k>> \in pending'
        \/ Home[p] = c /\ k = i
        \/ \E d \in declared : d.id = EntryFor(k, p).id
    BY <1>1, <1>6 DEF Declaring
  <2>2. CASE Home[p] = c /\ k = i
    BY <1>1, <1>4, <1>6, <2>2
  <2> QED
    BY <1>5, <2>1, <2>2
<1>7. Declaring'
  BY <1>1, <1>2, <1>4, <1>6 DEF Declaring
<1>8. Listed'
  BY <1>1, <1>2 DEF Listed, Managed
<1> QED
  BY <1>7, <1>8

(* GetChanges: what is wrong in SPIRE was found, so it is in the           *)
(* difference.                                                             *)
LEMMA ChangesQuiet ==
  ASSUME TypeOK, Declaring, Listed, GetChanges
  PROVE  Declaring' /\ Applying'
<1>1. /\ pending = {} /\ UNCHANGED <<identities, registry, pods, spire, declared, pending>>
      /\ toCreate' = {d \in declared : \A x \in current : x.id # d.id}
      /\ toUpdate' = {d \in declared : \E x \in current : x.id = d.id /\ ~entriesEqual(x, d)}
      /\ toDelete' = {x \in current : \A d \in declared : d.id # x.id}
  BY DEF GetChanges, passEnv, resourceVars, stateVars, toCreateOf, toUpdateOf, toDeleteOf
<1>2. /\ Desired' = Desired
      /\ \A k \in Identity, p \in Pod : /\ Wanted(k, p)' <=> Wanted(k, p)
                                        /\ EntryFor(k, p)' = EntryFor(k, p)
  BY <1>1, AskedUnchanged
<1>3. declared \subseteq Desired /\ Desired \subseteq Rendered
  BY DesiredRendered DEF Declaring
<1>4. \A d \in Desired : \E x \in declared : x.id = d.id
  BY <1>1 DEF Declaring, Desired
<1>5. ASSUME NEW x \in Managed
      PROVE  Good(Desired, x) \/ x.id \in IDs(toDelete') \cup IDs(toUpdate')
  <2>1. CASE x \in current /\ \E d \in declared : d.id = x.id
    <3>1. PICK d \in declared : d.id = x.id
      BY <2>1
    <3>2. CASE entriesEqual(x, d)
      BY <1>3, <3>1, <3>2 DEF entriesEqual, Good, UpToDate
    <3>3. CASE ~entriesEqual(x, d)
      BY <1>1, <2>1, <3>1, <3>3 DEF IDs
    <3> QED
      BY <3>2, <3>3
  <2>2. CASE x \in current /\ ~\E d \in declared : d.id = x.id
    BY <1>1, <2>2 DEF IDs
  <2> QED
    BY <2>1, <2>2 DEF Listed
<1>6. ASSUME NEW d \in Desired PROVE Present(Desired, spire, d) \/ d.id \in IDs(toCreate')
  <2>1. PICK w \in declared : w.id = d.id
    BY <1>4
  <2>2. CASE \A x \in current : x.id # w.id
    BY <1>1, <2>1, <2>2 DEF IDs
  <2>3. ASSUME NEW x \in current, x.id = w.id PROVE Present(Desired, spire, d)
    <3>1. x.id \in IDs(Desired)
      BY <2>1, <2>3 DEF IDs
    <3>2. PICK y \in spire : y.id = x.id
      BY <3>1 DEF Listed
    <3>3. Similar(y, d)
      BY <1>3, <2>1, <2>3, <3>2, IDOfRendered, SameIDSameWorkload
    <3>4. Lasting(Desired, y)
      BY <3>1, <3>2 DEF Lasting
    <3> QED
      BY <3>3, <3>4 DEF Present
  <2> QED
    BY <2>2, <2>3
<1>7. \A e \in toDelete' : e.id \notin IDs(Desired)
  BY <1>1, <1>4 DEF IDs
<1>8. Applying'
  BY <1>1, <1>2, <1>3, <1>5, <1>6, <1>7 DEF Applying, Managed
<1>9. Declaring'
  BY <1>1, <1>2 DEF Declaring
<1> QED
  BY <1>8, <1>9

------------------------------------------------------------------------------
(* applyEntryChanges.  A delete takes out what is not asked for.           *)
LEMMA DeletingQuiet ==
  ASSUME TypeOK, Applying, NEW e \in toDelete, ApplyDelete(e, TRUE)
  PROVE  Applying'
<1>1. /\ spire' = {x \in spire : x.id # e.id} /\ DeleteEntry(e.id)
      /\ toDelete' = toDelete \ {e} /\ toCreate' = toCreate /\ toUpdate' = toUpdate
      /\ UNCHANGED <<identities, registry, pods>>
  BY DEF ApplyDelete, DeleteEntry, passEnv, resourceVars
<1>2. Desired' = Desired
  BY <1>1, AskedUnchanged
<1>3. e \in Rendered /\ e.id \notin IDs(Desired)
  BY DEF TypeOK, PassTypeOK, Applying
<1>4. Improves(Desired, spire, spire')
  BY <1>1, <1>3, DeleteImproves
<1>5. ASSUME NEW x \in Managed'
      PROVE  Good(Desired, x) \/ x.id \in IDs(toDelete') \cup IDs(toUpdate')
  <2>1. x \in Managed /\ x.id # e.id
    BY <1>1, <1>5 DEF Managed
  <2> QED
    BY <1>1, <2>1 DEF Applying, IDs
<1>6. \A d \in Desired : Present(Desired, spire', d) \/ d.id \in IDs(toCreate)
  BY <1>4, StaysPresent DEF Applying
<1> QED
  BY <1>1, <1>2, <1>5, <1>6 DEF Applying

(* A create is refused only because of an entry that stays: whatever was   *)
(* to go is gone by now.                                                   *)
LEMMA CreatingQuiet ==
  ASSUME TypeOK, Applying, NEW e \in toCreate, ApplyCreate(e, TRUE)
  PROVE  Applying'
<1>1. /\ toDelete = {} /\ CreateEntry(e)
      /\ toCreate' = toCreate \ {e} /\ toDelete' = toDelete /\ toUpdate' = toUpdate
      /\ UNCHANGED <<identities, registry, pods>>
  BY DEF ApplyCreate, passEnv, resourceVars
<1>2. Desired' = Desired
  BY <1>1, AskedUnchanged
<1>3. e \in Desired /\ Desired \subseteq Rendered
  BY DesiredRendered DEF Applying
<1>4. Improves(Desired, spire, spire')
  BY <1>1, <1>3, WriteImproves
<1>5. ASSUME NEW x \in Managed'
      PROVE  Good(Desired, x) \/ x.id \in IDs(toDelete) \cup IDs(toUpdate)
  BY <1>4, <1>5 DEF Applying, Improves, Managed
<1>6. \A x \in spire : Lasting(Desired, x)
  <2> SUFFICES ASSUME NEW x \in Managed PROVE x.id \in IDs(Desired)
    BY DEF Lasting, Managed
  <2>1. Good(Desired, x) \/ x.id \in IDs(toUpdate)
    BY <1>1 DEF Applying, IDs
  <2>2. IDs(toUpdate) \subseteq IDs(Desired)
    BY DEF Applying, IDs
  <2> QED
    BY <2>1, <2>2 DEF Good, UpToDate, IDs
<1>7. ASSUME NEW d \in Desired, d.id = e.id PROVE Present(Desired, spire', d)
  <2>1. Similar(e, d) /\ Lasting(Desired, e)
    BY <1>3, <1>7, SameIDSameWorkload DEF Lasting, IDs
  <2>2. ASSUME NEW x \in spire, Similar(x, e) \/ x.id = e.id PROVE Present(Desired, spire, d)
    <3>1. Similar(x, e)
      BY <1>3, <2>2, IDOfRendered, SameIDSameWorkload
    <3>2. Similar(x, d)
      BY <2>1, <3>1 DEF Similar
    <3> QED
      BY <1>6, <3>2 DEF Present
  <2>3. CASE \E x \in spire : Similar(x, e) \/ x.id = e.id
    BY <1>4, <2>2, <2>3, StaysPresent
  <2>4. CASE spire' = spire \cup {e}
    BY <2>1, <2>4 DEF Present
  <2> QED
    BY <1>1, <2>3, <2>4 DEF CreateEntry
<1>8. ASSUME NEW d \in Desired PROVE Present(Desired, spire', d) \/ d.id \in IDs(toCreate')
  <2>1. Present(Desired, spire, d) \/ d.id = e.id \/ d.id \in IDs(toCreate')
    BY <1>1 DEF Applying, IDs
  <2> QED
    BY <1>4, <1>7, <2>1, StaysPresent
<1> QED
  BY <1>1, <1>2, <1>5, <1>8 DEF Applying

(* An update leaves one entry with its ID, as asked for.                   *)
LEMMA UpdatingQuiet ==
  ASSUME TypeOK, Applying, NEW e \in toUpdate, ApplyUpdate(e, TRUE)
  PROVE  Applying'
<1>1. /\ UpdateEntry(e)
      /\ toUpdate' = toUpdate \ {e} /\ toDelete' = toDelete /\ toCreate' = toCreate
      /\ UNCHANGED <<identities, registry, pods>>
  BY DEF ApplyUpdate, passEnv, resourceVars
<1>2. Desired' = Desired
  BY <1>1, AskedUnchanged
<1>3. e \in Desired /\ Desired \subseteq Rendered
  BY DesiredRendered DEF Applying
<1>4. Improves(Desired, spire, spire')
  BY <1>1, <1>3, WriteImproves
<1>5. ASSUME NEW x \in Managed'
      PROVE  Good(Desired, x) \/ x.id \in IDs(toDelete') \cup IDs(toUpdate')
  <2>1. Good(Desired, e)
    BY <1>3 DEF Good, UpToDate, getOutdatedEntryFields
  <2>2. x = e \/ (x \in Managed /\ x.id # e.id)
    BY <1>1, <1>5 DEF UpdateEntry, Managed
  <2> QED
    BY <1>1, <2>1, <2>2 DEF Applying, IDs
<1>6. \A d \in Desired : Present(Desired, spire', d) \/ d.id \in IDs(toCreate)
  BY <1>4, StaysPresent DEF Applying
<1> QED
  BY <1>1, <1>2, <1>5, <1>6 DEF Applying

------------------------------------------------------------------------------
(* Every step of a pass in which nothing fails.                            *)
LEMMA PassQuiet ==
  ASSUME TypeOK, LagInv, PassView, Knowing, FullPass, pc' # "idle",
         pc \notin {"process", "apply"} => declared = {},
         identities' = identities, registry' = registry, faults' = faults, pods' = pods
  PROVE  Knowing'
<1>1. ASSUME NEW c \in Cluster, NEW ok \in BOOLEAN, ConnectCluster(c, ok) PROVE Knowing'
  <2>1. ok = TRUE /\ pc' = "connect"
    BY <1>1, Succeeded DEF ConnectCluster
  <2> QED
    BY <1>1, <2>1, ConnectQuiet DEF Knowing
<1>2. ASSUME NEW c \in Cluster, PruneCluster(c) PROVE FALSE
  BY <1>2 DEF PruneCluster, Unwanted, PassView, Knowing, HandlersQuiet
<1>3. ASSUME job' = job, UNCHANGED connVars PROVE HandlersQuiet'
  BY <1>3, HandlersUntouched DEF Knowing, connVars
<1>4. ASSUME NEW ok \in BOOLEAN, ListIdentities(ok) PROVE Knowing'
  <2>1. ok = TRUE
    BY <1>4, Succeeded DEF ListIdentities
  <2>2. pc' = "entries" /\ job' = job /\ UNCHANGED connVars
    BY <1>4, <2>1 DEF ListIdentities, passEnv
  <2> QED
    BY <1>3, <2>2 DEF Knowing
<1>5. ASSUME NEW ok \in BOOLEAN, ListCurrent(ok) PROVE Knowing'
  <2>1. ok = TRUE
    BY <1>5, Succeeded DEF ListCurrent
  <2>2. pc = "entries" /\ pc' = "process" /\ job' = job /\ UNCHANGED connVars
    BY <1>5, <2>1 DEF ListCurrent, passEnv
  <2>3. Declaring' /\ Listed'
    BY <1>5, <2>1, <2>2, ListingQuiet
  <2> QED
    BY <1>3, <2>2, <2>3 DEF Knowing
<1>6. ASSUME NEW c \in Cluster, NEW i \in Identity, NEW skipped \in SUBSET Pod,
             ProcessCluster(c, i, skipped)
      PROVE  Knowing'
  <2>1. IsFiniteSet(skipped) /\ faults' = faults + Cardinality(skipped)
    BY <1>6, FleetAssumption, FS_Subset DEF ProcessCluster
  <2>2. faults \in Nat
    BY FleetAssumption DEF TypeOK, FleetTypeOK
  <2>3. skipped = {}
    BY <2>1, <2>2, FS_EmptySet, FS_CardinalityType
  <2>4. pc = "process" /\ pc' = "process" /\ job' = job /\ UNCHANGED connVars
    BY <1>6 DEF ProcessCluster, passEnv
  <2>5. Declaring' /\ Listed'
    BY <1>6, <2>3, <2>4, ProcessingQuiet DEF Knowing
  <2> QED
    BY <1>3, <2>4, <2>5 DEF Knowing
<1>7. CASE GetChanges
  <2>1. pc = "process" /\ pc' = "apply" /\ job' = job /\ UNCHANGED connVars
    BY <1>7 DEF GetChanges, passEnv
  <2>2. Declaring' /\ Applying'
    BY <1>7, <2>1, ChangesQuiet DEF Knowing
  <2> QED
    BY <1>3, <2>1, <2>2 DEF Knowing
<1>8. ASSUME NEW ok \in BOOLEAN, \/ \E e \in toDelete : ApplyDelete(e, ok)
                                 \/ \E e \in toCreate : ApplyCreate(e, ok)
                                 \/ \E e \in toUpdate : ApplyUpdate(e, ok)
      PROVE  Knowing'
  <2>1. /\ pc = "apply" /\ pc' = "apply" /\ job' = job /\ UNCHANGED connVars
        /\ Outcome(ok) /\ UNCHANGED <<declared, pending>>
    BY <1>8 DEF ApplyDelete, ApplyCreate, ApplyUpdate, passEnv, stateVars
  <2>2. ok = TRUE
    BY <2>1, Succeeded
  <2>3. Applying'
    BY <1>8, <2>1, <2>2, DeletingQuiet, CreatingQuiet, UpdatingQuiet DEF Knowing
  <2>4. Declaring'
    BY <2>1, AskedUnchanged DEF Declaring, Knowing
  <2> QED
    BY <1>3, <2>1, <2>3, <2>4 DEF Knowing
<1>9. ~ListClusters /\ ~EndPass
  BY DEF ListClusters, EndPass, Return, PassView
<1> QED
  BY <1>1, <1>2, <1>4, <1>5, <1>6, <1>7, <1>8, <1>9 DEF FullPass

(* Every step made beside the pass.                                        *)
LEMMA BesideQuiet ==
  ASSUME OwnUIDOnly, SelectorsGiven, TypeOK, LagInv, Knowing,
         (Environment /\ UNCHANGED <<spire, job>>) \/ Handler,
         UNCHANGED <<identities, registry, pods, faults, passVars>>
  PROVE  Knowing'
<1>1. HandlersQuiet' /\ Improves(Desired, spire, spire')
  <2>1. CASE Environment /\ UNCHANGED <<spire, job>>
    BY <2>1, OnlyResync, ResyncQuiet, NothingImproves DEF Knowing
  <2>2. ASSUME NEW c \in Cluster, NEW ok \in BOOLEAN, HandlePodChange(c, ok)
        PROVE  HandlersQuiet' /\ Improves(Desired, spire, spire')
    BY <2>2, HandleQuiet, NothingImproves DEF Knowing
  <2>3. ASSUME NEW l \in Listener, HandlerStep(l)
        PROVE  HandlersQuiet' /\ Improves(Desired, spire, spire')
    BY <2>3, HandlerStepQuiet DEF Knowing
  <2> QED
    BY <2>1, <2>2, <2>3 DEF Handler
<1>2. pc' = pc
  BY DEF passVars
<1> QED
  BY <1>1, <1>2, KnowledgeKept DEF Knowing

------------------------------------------------------------------------------
(* There is no pass at the start.                                          *)
LEMMA QuietInitially == Init => QuietInv
BY DEF Init, MainInit, PassCleared, QuietInv

(* Entries are declared by ProcessCluster only.                            *)
LEMMA NothingDeclared ==
  ASSUME Next, pc \notin {"process", "apply"} => declared = {}
  PROVE  pc' \notin {"process", "apply"} => declared' = {}
<1>1. ASSUME Return PROVE declared' = {}
  BY <1>1 DEF Return
<1>2. ASSUME NEW ok, ListIdentities(ok) \/ ListCurrent(ok)
      PROVE  declared' = {}
  BY <1>1, <1>2 DEF ListIdentities, ListCurrent, stateVars
<1>3. ASSUME NEW c, NEW ok, ConnectCluster(c, ok) \/ PruneCluster(c) \/ ListClusters
      PROVE  declared' = {}
  BY <1>3 DEF ConnectCluster, PruneCluster, ListClusters, passVars, stateVars
<1>4. ASSUME NEW c, NEW i, NEW x, \/ ProcessCluster(c, i, x) \/ GetChanges
                                  \/ ApplyDelete(i, x) \/ ApplyCreate(i, x)
                                  \/ ApplyUpdate(i, x)
      PROVE  pc' \in {"process", "apply"}
  BY <1>4 DEF ProcessCluster, GetChanges, ApplyDelete, ApplyCreate, ApplyUpdate
<1>5. CASE UNCHANGED passVars
  BY <1>5 DEF passVars, stateVars
<1> QED
  BY <1>1, <1>2, <1>3, <1>4, <1>5 DEF Next, Step, FullPass, EndPass, Restart

(* QuietInv is inductive relative to the invariants proved so far.         *)
LEMMA QuietStep ==
  ASSUME OwnUIDOnly, SelectorsGiven, TypeOK, PassInv, LagInv, QuietInv, [Next]_vars
  PROVE  QuietInv'
<1>1. ASSUME Next PROVE QuietInv'
  <2>1. pc' \notin {"process", "apply"} => declared' = {}
    BY <1>1, NothingDeclared DEF QuietInv
  <2>2. ASSUME noise' = "quiet", pc = "idle" PROVE Knowing'
    <3>1. pc' # "idle" /\ Settled
      BY <1>1, <2>2 DEF Next, NoteNoise
    <3>2. ListClusters
      BY <1>1, <2>2, <3>1, FirstStep
    <3>3. /\ pc' = "connect"
          /\ UNCHANGED <<identities, registry, pods, conn, queue, job>>
      BY <3>2 DEF ListClusters, passEnv, resourceVars, connVars
    <3>4. HandlersQuiet'
      BY <3>1, <3>3, SettledQuiet, HandlersUntouched
    <3> QED
      BY <3>3, <3>4 DEF Knowing
  <2>3. ASSUME noise' = "quiet", pc # "idle" PROVE Knowing'
    <3>1. /\ noise = "quiet" /\ pc' # "idle"
          /\ UNCHANGED <<identities, registry, faults, pods>>
      BY <1>1, <2>3, StillQuiet DEF Next
    <3>2. Knowing /\ PassView
      BY <3>1 DEF QuietInv, PassInv
    <3>3. CASE FullPass
      BY <3>1, <3>2, <3>3, PassQuiet DEF QuietInv
    <3>4. CASE \/ Environment /\ UNCHANGED <<spire, job, passVars>>
               \/ Handler /\ UNCHANGED passVars
      BY <3>1, <3>2, <3>4, BesideQuiet
    <3>5. ~Restart
      BY <3>1 DEF Restart, Return
    <3> QED
      BY <1>1, <3>3, <3>4, <3>5 DEF Next, Step
  <2> QED
    BY <2>1, <2>2, <2>3 DEF QuietInv
<1>2. ASSUME UNCHANGED vars PROVE QuietInv'
  <2>1. UNCHANGED <<identities, registry, pods, conn, queue, job, spire, passVars, noise>>
    BY <1>2 DEF vars, fleetVars
  <2>2. pc' = pc /\ declared' = declared
    BY <2>1 DEF passVars, stateVars
  <2>3. Knowing => Knowing'
    BY <2>1, <2>2, HandlersUntouched, KnowledgeKept, NothingImproves DEF Knowing
  <2> QED
    BY <2>1, <2>2, <2>3 DEF QuietInv
<1> QED
  BY <1>1, <1>2

(* When the difference is empty, nothing is wrong and nothing is missing.  *)
LEMMA NothingLeft ==
  ASSUME Applying, Applied
  PROVE  Converged
<1>1. \A x \in Managed : \E d \in Desired : UpToDate(x, d)
  BY DEF Applying, Applied, IDs, Good
<1>2. \A d \in Desired : \E x \in spire : Similar(x, d)
  BY DEF Applying, Applied, IDs, Present
<1> QED
  BY <1>1, <1>2 DEF Converged

(* A full pass that starts with every notification handled, and that no    *)
(* change and no failure disturbs, leaves SPIRE with an entry for          *)
(* everything asked for and without any entry of the registrar that is not *)
(* asked for or not up to date, for any number of clusters, identities and *)
(* pods and although resyncs and new connections keep the handlers writing *)
(* all the while (PassConverges).                                          *)
THEOREM PassLeavesConverged ==
  ASSUME OwnUIDOnly, SelectorsGiven PROVE Spec => []PassConverges
<1>1. Init => StartedInv /\ UniqueIDs /\ PassInv /\ LagInv /\ QuietInv
  BY StartedInitially, UniqueInitially, PassInitially, LagInitially, QuietInitially
<1>2. TypeOK /\ StartedInv /\ UniqueIDs /\ PassInv /\ LagInv /\ QuietInv /\ [Next]_vars
        => StartedInv' /\ UniqueIDs' /\ PassInv' /\ LagInv' /\ QuietInv'
  BY StartedStep, UniqueStep, PassStep, LagStep, QuietStep
<1>3. QuietInv => PassConverges
  BY NothingLeft DEF QuietInv, Knowing, PassConverges, Applied
<1> QED
  BY <1>1, <1>2, <1>3, TypeCorrect, PTL DEF Spec

=============================================================================
