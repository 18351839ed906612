------------------------------ MODULE Deletion ------------------------------
(***************************************************************************)
(* Deletion of the custom resources: the finalizer their webhooks add, the *)
(* two controllers that remove it after deleting the entries of the object *)
(* (internal/controller/deletion_controller.go), one for WorkloadIdentity  *)
(* and one for EKSClusterRegistry, and beside them the full pass, reduced  *)
(* to what it does to these entries and to the status of the objects.  An  *)
(* entry is declared while both its identity and its cluster exist; the    *)
(* pod it is for keeps running.                                            *)
(***************************************************************************)
EXTENDS FiniteSetsExt

CONSTANTS
  Identity,     \* names of WorkloadIdentity objects
  Cluster,      \* names of EKSClusterRegistry objects
  AtStart,      \* the objects when the registrar starts
  Entry,        \* SPIRE entries: [identity, cluster, custom]
  TagContains,  \* <<m, n>>: the owner tag of identity m contains that of n
  BatchSize,    \* entryDeleteBatchSize
  MaxChanges,   \* bound on changes made by users
  MaxFaults     \* bound on failed calls, refused deletes, restarts, and status
                \* writes that overtake a Reconcile call

ASSUME DeletionAssumption ==
  /\ IsFiniteSet(Entry) /\ Identity \cap Cluster = {}
  /\ AtStart \in [Identity \cup Cluster -> {"absent", "live", "terminating"}]
  /\ Entry \subseteq [identity : Identity, cluster : Cluster, custom : BOOLEAN]
  /\ \A n \in Identity : <<n, n>> \in TagContains
  /\ BatchSize \in Nat \ {0} /\ MaxChanges \in Nat /\ MaxFaults \in Nat

VARIABLES
  object,     \* Name -> "absent", "live", or "terminating"
  finalizer,  \* Name -> does the object carry SPIRECleanupFinalizer?
  entries,    \* the entries in SPIRE
  queue,      \* the objects in the controllers' work queues
  worker,     \* Kind -> the Reconcile call in progress
  pass,       \* the full pass in progress
  owed,       \* history: Name -> the entries that matched the object when its
              \* deletion was asked for and that nobody has deleted since
  changes, faults

userVars == <<object, finalizer>>
countVars == <<changes, faults>>
vars == <<object, finalizer, entries, queue, worker, pass, owed, changes, faults>>

Name == Identity \cup Cluster
Kind == {Identity, Cluster}
KindOf(n) == IF n \in Identity THEN Identity ELSE Cluster

(* stale: the object has changed since the worker read it, so that its     *)
(* Update will be refused with a conflict.                                 *)
NoWork == [pc |-> "idle", name |-> "", doomed |-> {}, stale |-> FALSE]

(* listed: the objects the pass has listed, until it has computed the      *)
(* difference; unwritten: those whose status it has yet to write and of    *)
(* which it still has the current version.                                 *)
NoPass == [pc |-> "idle", listed |-> {}, toDelete |-> {}, toCreate |-> {},
           unwritten |-> {}]

Present(names) == {n \in names : object[n] # "absent"}

Init ==
  /\ object = AtStart
  /\ finalizer = [n \in Name |-> object[n] # "absent"]
  /\ entries = {}
  /\ queue = Present(Name)
  /\ worker = [k \in Kind |-> NoWork]
  /\ pass = NoPass
  /\ owed = [n \in Name |-> {}]
  /\ changes = 0 /\ faults = 0

Outcome(ok) ==
  \/ ok /\ UNCHANGED faults
  \/ ~ok /\ faults < MaxFaults /\ faults' = faults + 1

(* Which hints belong to the object?  Those that contain the owner tag of  *)
(* the identity; those whose generated part ends in the cluster, which a   *)
(* custom hint does not have.                                              *)
HintMatches(e, n) ==
  IF n \in Identity THEN <<e.identity, n>> \in TagContains
                    ELSE e.cluster = n /\ ~e.custom

Matching(n) == {e \in entries : HintMatches(e, n)}

(* These entries have gone, or the server has refused to delete them.      *)
Settle(es) == owed' = [n \in Name |-> owed[n] \ es]

-----------------------------------------------------------------------------
(* Mutant: the finalizers stay as the user sent them.                      *)
AsSent(state, fin) == fin

(* Mutant: the finalizer is added whether or not the object is going.      *)
Always(state, fin) == TRUE

(* The mutating webhook: an object that is not being deleted always gets   *)
(* the finalizer.                                                          *)
Default(state, fin) == fin \/ state # "terminating"

(* The API server stores an update of n that does or does not list the     *)
(* finalizer.  A terminating object without finalizers is gone.            *)
Store(n, fin) ==
  /\ finalizer' = [finalizer EXCEPT ![n] = Default(object[n], fin)]
  /\ object' = [object EXCEPT ![n] =
       IF object[n] = "terminating" /\ ~finalizer'[n] THEN "absent" ELSE object[n]]

(* Object n has a new version: the watch puts it into the queue, and a     *)
(* worker that has read it works with an old one.                          *)
NewVersion(n) ==
  /\ queue' = queue \cup {n}
  /\ worker' = [worker EXCEPT ![KindOf(n)].stale = @ \/ worker[KindOf(n)].name = n]

(* A user writes object n.                                                 *)
Written(n) ==
  /\ changes < MaxChanges /\ changes' = changes + 1
  /\ NewVersion(n)
  /\ pass' = [pass EXCEPT !.unwritten = @ \ {n}]
  /\ UNCHANGED <<entries, faults>>

Create(n) ==
  /\ object[n] = "absent"
  /\ object' = [object EXCEPT ![n] = "live"]
  /\ finalizer' = [finalizer EXCEPT ![n] = Default("live", FALSE)]
  /\ Written(n)
  /\ UNCHANGED owed

Update(n, fin) ==
  /\ object[n] # "absent" /\ (fin => finalizer[n])
  /\ Store(n, fin)
  /\ Written(n)
  /\ UNCHANGED owed

Delete(n) ==
  /\ object[n] = "live"
  /\ object' = [object EXCEPT ![n] = IF finalizer[n] THEN "terminating" ELSE "absent"]
  /\ owed' = [owed EXCEPT ![n] = Matching(n)]
  /\ UNCHANGED finalizer
  /\ Written(n)

-----------------------------------------------------------------------------
(* Reconcile returns an error: controller-runtime queues the object again. *)
Retry(n) == queue \cup {n}

(* ReconcileWorkloadIdentity and ReconcileEKSClusterRegistry up to the     *)
(* finalizer test.                                                         *)
Reconcile(n, ok) ==
  LET k == KindOf(n) IN
  /\ worker[k].pc = "idle" /\ n \in queue
  /\ Outcome(ok)
  /\ queue' = IF ok THEN queue \ {n} ELSE Retry(n)
  /\ worker' = [worker EXCEPT ![k] =
       IF ok /\ object[n] = "terminating" /\ finalizer[n]
         THEN [NoWork EXCEPT !.pc = "list", !.name = n]
         ELSE NoWork]
  /\ UNCHANGED <<userVars, entries, pass, owed, changes>>

Fail(k) ==
  /\ worker' = [worker EXCEPT ![k] = NoWork]
  /\ queue' = Retry(worker[k].name)

(* Mutant: the error of the list is logged, and the finalizer removed.     *)
IgnoreError(k, ok) ==
  /\ worker[k].pc = "list"
  /\ Outcome(ok)
  /\ worker' = [worker EXCEPT ![k].pc = "delete",
       ![k].doomed = IF ok THEN Matching(worker[k].name) ELSE {}]
  /\ UNCHANGED <<userVars, entries, queue, pass, owed, changes>>

(* deleteEntriesForOwner: list, select by hint ...                         *)
ListOwned(k, ok) ==
  /\ worker[k].pc = "list"
  /\ Outcome(ok)
  /\ IF ok
       THEN /\ worker' = [worker EXCEPT ![k].pc = "delete",
                 ![k].doomed = Matching(worker[k].name)]
            /\ UNCHANGED queue
       ELSE Fail(k)
  /\ UNCHANGED <<userVars, entries, pass, owed, changes>>

(* ... and BatchDeleteEntries.  A call that fails ends it, whether or not  *)
(* the server has carried it out; an entry that the server refuses to      *)
(* delete is logged.                                                       *)
DeleteBatch(k, ids, refused, ok) ==
  /\ worker[k].pc = "delete" /\ ids # {}
  /\ \/ /\ ok
        /\ faults + Cardinality(refused) =< MaxFaults
        /\ faults' = faults + Cardinality(refused)
        /\ entries' = entries \ (ids \ refused) /\ Settle(ids)
        /\ worker' = [worker EXCEPT ![k].doomed = @ \ ids]
        /\ UNCHANGED queue
     \/ /\ ~ok /\ Outcome(FALSE) /\ Fail(k)
        /\ \E done \in {{}, ids} : entries' = entries \ done /\ Settle(done)
  /\ UNCHANGED <<userVars, pass, changes>>

(* The Update that removes the finalizer; a conflict is an error.          *)
RemoveFinalizer(k, ok) ==
  LET n == worker[k].name IN
  /\ worker[k].pc = "delete" /\ worker[k].doomed = {}
  /\ ok => ~worker[k].stale
  /\ IF ok \/ worker[k].stale THEN UNCHANGED faults ELSE Outcome(FALSE)
  /\ IF ok
       THEN /\ Store(n, FALSE)
            /\ queue' = queue \cup {n}
            /\ worker' = [worker EXCEPT ![k] = NoWork]
            /\ pass' = [pass EXCEPT !.unwritten = @ \ {n}]
       ELSE Fail(k) /\ UNCHANGED <<userVars, pass>>
  /\ UNCHANGED <<entries, owed, changes>>

Batches(k) ==
  kSubset(Min({BatchSize, Cardinality(worker[k].doomed)}), worker[k].doomed)

Controller(k) ==
  \E ok \in BOOLEAN :
    \/ \E n \in queue \cap k : Reconcile(n, ok)
    \/ ListOwned(k, ok)
    \/ \E ids \in Batches(k) : \E refused \in SUBSET ids :
         DeleteBatch(k, ids, refused, ok)
    \/ RemoveFinalizer(k, ok)

-----------------------------------------------------------------------------
(* The full pass lists the clusters and then the identities, those that   *)
(* are being deleted included;                                             *)
ListClusters ==
  /\ pass.pc = "idle"
  /\ pass' = [NoPass EXCEPT !.pc = "identities", !.listed = Present(Cluster),
                            !.unwritten = Present(Cluster)]
  /\ UNCHANGED <<userVars, entries, queue, worker, owed, countVars>>

ListIdentities ==
  /\ pass.pc = "identities"
  /\ pass' = [pass EXCEPT !.pc = "entries", !.listed = @ \cup Present(Identity),
                          !.unwritten = @ \cup Present(Identity)]
  /\ UNCHANGED <<userVars, entries, queue, worker, owed, countVars>>

(* the entries these declare, one for each pod of such a pair;             *)
Declared(listed) == {e \in Entry : {e.identity, e.cluster} \subseteq listed}

(* Mutant: the pass takes no entry for an orphan.                          *)
NoOrphans(listed) == {}

Orphans(listed) == entries \ Declared(listed)

(* it reads SPIRE and computes the difference;                             *)
GetChanges ==
  /\ pass.pc = "entries"
  /\ pass' = [pass EXCEPT !.pc = "apply", !.listed = {},
       !.toDelete = Orphans(pass.listed),
       !.toCreate = Declared(pass.listed) \ entries]
  /\ UNCHANGED <<userVars, entries, queue, worker, owed, countVars>>

(* it applies it, deletes first.  Errors are logged.                       *)
Apply(e, ok) ==
  /\ pass.pc = "apply"
  /\ Outcome(ok)
  /\ \/ /\ e \in pass.toDelete
        /\ pass' = [pass EXCEPT !.toDelete = @ \ {e}]
        /\ IF ok THEN entries' = entries \ {e} /\ Settle({e})
                 ELSE UNCHANGED <<entries, owed>>
     \/ /\ pass.toDelete = {} /\ e \in pass.toCreate
        /\ pass' = [pass EXCEPT !.toCreate = @ \ {e}]
        /\ entries' = IF ok THEN entries \cup {e} ELSE entries
        /\ UNCHANGED owed
  /\ UNCHANGED <<userVars, queue, worker, changes>>

(* A Reconcile call is working with the current version of the object.     *)
InProgress(n) ==
  LET w == worker[KindOf(n)] IN w.pc # "idle" /\ w.name = n /\ ~w.stale

(* At last updateStatuses writes the status of each listed object, with    *)
(* the version it listed: the identities, then the clusters.  The time in  *)
(* the status makes a new version of the object each time.  Where somebody *)
(* else has written the object since, the conflict is only logged, like    *)
(* any error: those objects are in unwritten no longer.  The writes that   *)
(* overtake a Reconcile call are counted, since nothing else would keep a  *)
(* pass from doing so every time.                                          *)
UpdateStatus(n, ok) ==
  /\ pass.pc = "apply" /\ pass.toDelete = {} /\ pass.toCreate = {}
  /\ n \in pass.unwritten /\ (n \in Cluster => pass.unwritten \subseteq Cluster)
  /\ Outcome(ok /\ ~InProgress(n))
  /\ pass' = [pass EXCEPT !.unwritten = @ \ {n}]
  /\ IF ok THEN NewVersion(n) ELSE UNCHANGED <<queue, worker>>
  /\ UNCHANGED <<userVars, entries, owed, changes>>

EndPass ==
  /\ pass.pc = "apply" /\ pass.toDelete = {} /\ pass.toCreate = {} /\ pass.unwritten = {}
  /\ pass' = NoPass
  /\ UNCHANGED <<userVars, entries, queue, worker, owed, countVars>>

FullPass ==
  \/ ListClusters \/ ListIdentities \/ GetChanges \/ EndPass
  \/ \E e \in Entry, ok \in BOOLEAN : Apply(e, ok)
  \/ \E n \in Name, ok \in BOOLEAN : UpdateStatus(n, ok)

(* A restarted process finds every object in its queues.                   *)
Restart ==
  /\ Outcome(FALSE)
  /\ worker' = [k \in Kind |-> NoWork] /\ pass' = NoPass
  /\ queue' = Present(Name)
  /\ UNCHANGED <<userVars, entries, owed, changes>>

Users == \E n \in Name : Create(n) \/ Delete(n) \/ \E fin \in BOOLEAN : Update(n, fin)

Next == Users \/ FullPass \/ Restart \/ \E k \in Kind : Controller(k)

Spec == Init /\ [][Next]_vars

(* The controllers' workers and the loop of the full pass keep running,    *)
(* and a work queue is first in, first out: no object waits in it for      *)
(* ever, although the passes put all of them back each time.               *)
FairSpec ==
  /\ Spec
  /\ WF_vars(FullPass)
  /\ \A k \in Kind : WF_vars(Controller(k))
  /\ \A n \in Name : SF_vars(\E ok \in BOOLEAN : Reconcile(n, ok))

-----------------------------------------------------------------------------
Work == [pc : {"idle", "list", "delete"}, name : Name \cup {""},
         doomed : SUBSET Entry, stale : BOOLEAN]

Pass == [pc : {"idle", "identities", "entries", "apply"}, listed : SUBSET Name,
         toDelete : SUBSET Entry, toCreate : SUBSET Entry, unwritten : SUBSET Name]

TypeOK ==
  /\ object \in [Name -> {"absent", "live", "terminating"}]
  /\ finalizer \in [Name -> BOOLEAN]
  /\ entries \subseteq Entry
  /\ queue \subseteq Name
  /\ worker \in [Kind -> Work]
  /\ \A k \in Kind : worker[k].pc # "idle" => worker[k].name \in k
  /\ pass \in Pass
  /\ owed \in [Name -> SUBSET Entry]
  /\ changes \in 0..MaxChanges /\ faults \in 0..MaxFaults

(* An owed entry is in SPIRE, and its hint is the object's.                *)
OwedMatch == \A n \in Name : owed[n] \subseteq Matching(n)

(* What a worker has read still holds, unless its Update will be refused,  *)
(* and what it has yet to delete includes what is owed.                    *)
WorkersUpToDate ==
  \A k \in Kind : worker[k].pc # "idle" /\ ~worker[k].stale =>
    /\ object[worker[k].name] = "terminating" /\ finalizer[worker[k].name]
    /\ worker[k].pc = "delete" => owed[worker[k].name] \subseteq worker[k].doomed

(* No user can take the finalizer off an object that is not being deleted, *)
(* so that every deletion goes through the controller (Default).           *)
LiveHasFinalizer == \A n \in Name : object[n] = "live" => finalizer[n]

(* An object goes only after every entry that matched it when its deletion *)
(* was asked for has been deleted or refused, unless a user takes the      *)
(* finalizer off: not after a list or a batch that failed, and not by the  *)
(* Update of a worker that cleaned up for an earlier object of that name.  *)
GoneOnlyCleanedUp ==
  [][\A n \in Name : object[n] # "absent" /\ object'[n] = "absent" =>
       owed[n] = {} \/ Update(n, FALSE)]_vars

(* A deletion completes: every error of the controller is followed by      *)
(* another attempt, a conflict with a user's update or with the status     *)
(* write of a pass included.                                               *)
DeletionCompletes ==
  \A n \in Name : object[n] = "terminating" ~> object[n] = "absent"

(* In the end SPIRE holds the entries of the objects that exist: orphans   *)
(* go away, even those a pass that listed an object before its deletion    *)
(* creates afterwards, and so do those a controller does not recognise by  *)
(* their hints; what it takes from an identity whose name merely begins    *)
(* with that of the deleted one is restored.                               *)
EntriesConverge == <>[](entries = Declared(Present(Name)))

=============================================================================
