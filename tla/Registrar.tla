------------------------------ MODULE Registrar ------------------------------
(***************************************************************************)
(* The registrar process: the full pass and the pod event handlers running *)
(* concurrently against one SPIRE server, restarts included.               *)
(***************************************************************************)
EXTENDS MainReconciler

(* What happened since the running pass started, for the properties:       *)
(*   "quiet"   it started Settled, and neither a pod nor the configuration *)
(*             changed, and no call failed;                                *)
(*   "steady"  no label, no configuration changed, and no call failed;     *)
(*   "noisy"   otherwise, and between passes.                              *)
VARIABLE noise

vars == <<fleetVars, spire, job, passVars, noise>>

(* Every notification is handled, and no handler works with a registration *)
(* that has been changed or withdrawn.                                     *)
Settled ==
  /\ \A l \in Listener : queue[l] = <<>> /\ job[l] = IdleJob
  /\ \A c \in Cluster : conn[c] # Nil => conn[c].reg = registry[c] /\ registry[c].enabled

Relabelled == \E p \in Pod : pods'[p].label # pods[p].label

NoteNoise ==
  noise' = IF pc' = "idle" THEN "noisy"
           ELSE IF pc = "idle" THEN (IF Settled THEN "quiet" ELSE "steady")
           ELSE IF <<identities, registry, faults>>' # <<identities, registry, faults>>
                   \/ Relabelled THEN "noisy"
           ELSE IF pods' # pods /\ noise = "quiet" THEN "steady"
           ELSE noise

(* The process dies and starts again: everything but SPIRE, the resources  *)
(* and the pods is lost.                                                   *)
Restart ==
  /\ Outcome(FALSE)
  /\ conn' = [c \in Cluster |-> Nil]
  /\ queue' = [l \in Listener |-> <<>>]
  /\ job' = [l \in Listener |-> IdleJob]
  /\ Return
  /\ UNCHANGED <<resourceVars, pods, changes, spire>>

Init == FleetInit /\ SpireInit /\ HandlerInit /\ MainInit /\ noise = "noisy"

Step ==
  \/ Environment /\ UNCHANGED <<spire, job, passVars>>
  \/ Handler /\ UNCHANGED passVars
  \/ FullPass
  \/ Restart

Next == Step /\ NoteNoise

Spec == Init /\ [][Next]_vars

(* What the goroutine of listener l does: its event, or the next one.      *)
Goroutine(l) ==
  \/ HandlerStep(l)
  \/ \E c \in Cluster, ok \in BOOLEAN :
       conn[c] # Nil /\ conn[c].listener = l /\ HandlePodChange(c, ok)

(* The ticker keeps starting passes and every goroutine keeps running; a   *)
(* user or a kubelet owes nothing.                                         *)
Fairness ==
  /\ WF_<<passVars, conn>>(FullPass)
  /\ \A l \in Listener : WF_<<job, queue>>(Goroutine(l))

FairSpec == Spec /\ Fairness

------------------------------------------------------------------------------
(* The entries the resources and the pods ask for.                         *)
Wanted(i, p) ==
  LET c == Home[p]
      s == identities[i]
  IN /\ s # Nil /\ registry[c] # Nil
     /\ registry[c].enabled
     /\ Eligible(pods[p])
     /\ shouldProcessIdentity(s, registry[c])
     /\ ~isNamespaceIgnored(s.namespace)
     /\ SelectedByInformerList(s, p, pods[p].label)
     /\ CanRender(s)

EntryFor(i, p) == Declaration(i, identities[i], Home[p], p, pods[p].label)

Desired == {EntryFor(x[1], x[2]) : x \in {y \in Identity \X Pod : Wanted(y[1], y[2])}}

Managed == {e \in spire : shouldProcessEntry(e)}

(* SPIRE holds x as d asks for it: an ID covers SPIFFE ID, parent and      *)
(* selectors, whose order means nothing.                                   *)
UpToDate(x, d) == x.id = d.id /\ getOutdatedEntryFields(d, x) = {}

Converged ==
  /\ \A d \in Desired : \E x \in spire : Similar(x, d)
  /\ \A x \in Managed : \E d \in Desired : UpToDate(x, d)

(* Every entry the registrar can render.                                   *)
Rendered == {Declaration(i, s, Home[p], p, l) :
               i \in Identity, s \in IdentitySpec, p \in Pod, l \in Label}

(* Wanted entries that the step takes out of SPIRE, rather than rewrites.  *)
WantedRemoved == {e \in spire \cap Desired : \A x \in spire' : x.id # e.id}

StartedPods == {p \in Pod : pods[p].phase \in {"running", "ended", "gone"}}

------------------------------------------------------------------------------
JobOK(j) ==
  /\ j.pc \in {"idle", "node", "ensure", "write", "listRemove", "remove"}
  /\ j.pod \in Pod \cup {Nil} /\ (j.pc # "idle" => j.pod \in Pod)
  /\ j.label \in Label \cup {Nil} /\ (j.pc # "idle" => j.label \in Label)
  /\ j.ensure \subseteq Identity \X IdentitySpec
  /\ j.entry \in Rendered \cup {Nil} /\ (j.pc = "write" => j.entry \in Rendered)
  /\ j.found \subseteq ForeignEntry \cup Rendered
  /\ j.remove \subseteq Rendered

ServerTypeOK == spire \subseteq ForeignEntry \cup Rendered

JobsTypeOK ==
  /\ DOMAIN job = Listener
  /\ \A l \in Listener : DOMAIN job[l] = DOMAIN IdleJob /\ JobOK(job[l])

PassTypeOK ==
  /\ pc \in {"idle", "connect", "entries", "process", "apply"}
  /\ clusters \in [Cluster -> Registration \cup {Nil}]
  /\ connecting \subseteq {c \in Cluster : clusters[c] # Nil}
  /\ idents \in [Identity -> IdentitySpec \cup {Nil}]
  /\ pending \subseteq {x \in Cluster \X Identity : idents[x[2]] # Nil}
  /\ pc # "process" => pending = {}
  /\ \A S \in {current, declared, toCreate, toUpdate, toDelete} : S \subseteq Rendered

(* The shape of the state: in particular SPIRE never holds an entry that   *)
(* is neither somebody else's nor the rendering of some identity for a pod *)
(* of its own cluster, and only renderings are ever created or deleted.    *)
TypeOK ==
  /\ FleetTypeOK
  /\ ServerTypeOK
  /\ JobsTypeOK
  /\ PassTypeOK
  /\ noise \in {"quiet", "steady", "noisy"}

(* Entries of other registrars survive everything this one does, although  *)
(* they may carry the UID of a pod it handles or be similar to an entry it *)
(* wants (the prefix filter of shouldProcessEntry, and ALREADY_EXISTS).    *)
ForeignUntouched == ForeignEntry \subseteq spire

(* The entry carries the UID of one of the pods S.                         *)
OwnedBy(S, e) == \E p \in S : HasPodUID(e, p)

(* A managed entry belongs to a pod that has run: a pod that was only ever *)
(* pending never gets an identity, whatever stale event or snapshot the    *)
(* handlers and the pass act on.                                           *)
OnlyForStartedPods == \A e \in Managed : OwnedBy(StartedPods, e)

(* What makes it inductive: the same of everything on its way to SPIRE.    *)
JobFor(S, j) ==
  /\ j.pc \in {"node", "ensure", "write"} => j.pod \in S
  /\ j.pc = "write" => OwnedBy(S, j.entry)

QueueFor(S, q) == \A k \in DOMAIN q : Eligible(q[k]) => q[k].pod \in S

StartedInv ==
  /\ OnlyForStartedPods
  /\ \A e \in declared \cup toCreate \cup toUpdate : OwnedBy(StartedPods, e)
  /\ \A l \in Listener : JobFor(StartedPods, job[l]) /\ QueueFor(StartedPods, queue[l])

(* A full pass that starts Settled and is not disturbed leaves SPIRE with  *)
(* exactly the entries asked for, even while the notifications of a resync *)
(* or of a new connection are handled beside it.                           *)
PassConverges == Applied /\ noise = "quiet" => Converged

(* A pass never deletes an entry that is wanted at that moment, even when  *)
(* pods start and stop and their events create and delete entries while it *)
(* runs: ListEntries comes before the informer stores are read.  Passes    *)
(* during which a label or the configuration changes or a call fails are   *)
(* excepted.                                                               *)
PassKeepsWanted ==
  [][toDelete' # toDelete /\ pc' # "idle" /\ noise # "noisy" =>
       WantedRemoved = {}]_vars

(* A stale notification may make the handler delete an entry the full pass *)
(* created for a pod that has started since; then the notification that    *)
(* brings the entry back is still in the same queue.                       *)
HandlerLossHeals ==
  [][\A c \in Cluster : conn[c] # Nil /\ job'[conn[c].listener] # job[conn[c].listener] =>
       \A p \in {x \in Pod : Home[x] = c /\ Eligible(pods[x])} :
         (\E e \in WantedRemoved : HasPodUID(e, p))
         => \E k \in DOMAIN queue[conn[c].listener] :
              LET n == queue[conn[c].listener][k] IN n.pod = p /\ Eligible(n)]_vars

(* A pass updates only entries that differ from what it found in SPIRE:    *)
(* what is as declared is left alone ("minimal operations").               *)
MinimalOperations == toUpdate \cap current = {}

(* The entries a pass deletes are orphans: no running pod is entitled to   *)
(* them, whatever calls failed on the way ("cleanup orphaned entries").    *)
DeletesOnlyOrphans ==
  [][toDelete' # toDelete /\ pc' # "idle" => WantedRemoved = {}]_vars

(* When users, kubelets and networks come to rest, SPIRE settles on the    *)
(* entries asked for and stays there ("eventual consistency").             *)
EventuallyConverged == <>[]Converged

(* When users, kubelets and networks come to rest, the registrar stops     *)
(* rewriting SPIRE, whatever it takes the desired entries to be.           *)
Settles == <>[][UNCHANGED spire]_vars

(* The detailed system implements the abstract one: whatever interleaving  *)
(* of the pass, the handlers and restarts, entries are granted to pods     *)
(* that have started, amended without changing their workload, revoked     *)
(* only if they are the registrar's own, one at a time.                    *)
L == INSTANCE Ledger WITH Own <- Rendered, For <- HasPodUID,
                          book <- spire, started <- StartedPods

ImplementsLedger == L!Spec

==============================================================================
