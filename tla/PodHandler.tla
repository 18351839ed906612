----------------------------- MODULE PodHandler -----------------------------
(***************************************************************************)
(* The pod path of internal/controller/targeted_reconciler.go: what the    *)
(* goroutine of a pod informer does with one notification                  *)
(* (Manager.handlePodChange -> ReconcileSinglePod).  One step per remote   *)
(* call, since the full pass and the other listeners run in between.       *)
(***************************************************************************)
EXTENDS Fleet, SpireServer

VARIABLE job     \* Listener -> the event being handled

(* ensure: identities whose entry is still to be reconciled; entry, found: *)
(* the rendered entry and what ListEntries returned under its ID; remove:  *)
(* the entries still to be deleted.                                        *)
IdleJob == [pc |-> "idle", pod |-> Nil, label |-> Nil, ensure |-> {},
            entry |-> Nil, found |-> {}, remove |-> {}]

HandlerInit == job = [l \in Listener |-> IdleJob]

handlerEnv == <<resourceVars, pods, conn, changes>>

IdleListeners == {l \in Listener : job[l].pc = "idle"}

Job(p, n) == [IdleJob EXCEPT !.pod = p, !.label = n.label]

(* findMatchingIdentities, reading the registration of the connection and  *)
(* the WorkloadIdentities as they are now.                                 *)
findMatchingIdentities(p, label, reg) ==
  {<<i, identities[i]>> : i \in {x \in Identity :
      /\ identities[x] # Nil
      /\ shouldProcessIdentity(identities[x], reg)
      /\ SelectedByPodEvent(identities[x], p, label)}}

(* What ReconcileSinglePod decides before its first call to SPIRE or to    *)
(* the workload cluster.  A pod that nothing selects is left alone before  *)
(* its phase is looked at.                                                 *)
ReconcileSinglePod(n, matching) ==
  LET new == Job(n.pod, n) IN
  IF isNamespaceIgnored(NamespaceOf[n.pod]) THEN IdleJob
  ELSE IF n.phase = "gone" THEN [new EXCEPT !.pc = "listRemove"]
  ELSE IF matching = {} THEN IdleJob
  ELSE IF ~Eligible(n) THEN [new EXCEPT !.pc = "listRemove"]
  ELSE [new EXCEPT !.pc = "node", !.ensure = matching]

(* The listener of c's connection takes its next notification.  A failed   *)
(* List of the identities reads as no identity.                            *)
HandlePodChange(c, ok) ==
  /\ conn[c] # Nil
  /\ LET l == conn[c].listener IN
     /\ job[l].pc = "idle" /\ queue[l] # <<>>
     /\ LET n == Head(queue[l])
            matching == IF ok THEN findMatchingIdentities(n.pod, n.label, conn[c].reg)
                              ELSE {}
        IN job' = [job EXCEPT ![l] = ReconcileSinglePod(n, matching)]
     /\ queue' = [queue EXCEPT ![l] = Tail(@)]
  /\ Outcome(ok)
  /\ UNCHANGED <<handlerEnv, spire>>

(* The cluster may have been removed meanwhile, and the node lookup may    *)
(* fail; both end the handling of the event.                               *)
GetNode(l, ok) ==
  /\ job[l].pc = "node"
  /\ Outcome(ok)
  /\ job' = [job EXCEPT ![l] =
       IF ok /\ conn[Home[@.pod]] # Nil THEN [@ EXCEPT !.pc = "ensure"] ELSE IdleJob]
  /\ UNCHANGED <<handlerEnv, queue, spire>>

(* The next identity, or the end of the event.                             *)
Continue(j) == IF j.ensure = {} THEN IdleJob
               ELSE [j EXCEPT !.pc = "ensure", !.entry = Nil, !.found = {}]

(* reconcilePodEntry up to the decision: render, list, look for the ID.    *)
(* The error of ListEntries is dropped, so a failed list is an empty one.  *)
EnsureList(l, i, s, ok) ==
  /\ job[l].pc = "ensure" /\ <<i, s>> \in job[l].ensure
  /\ Outcome(ok)
  /\ LET j == job[l]
         rest == [j EXCEPT !.ensure = @ \ {<<i, s>>}]
         e == Declaration(i, s, Home[j.pod], j.pod, j.label)
         found == IF ok THEN {x \in ListEntries : x.id = e.id} ELSE {}
         upToDate == found # {} /\ \A x \in found : getOutdatedEntryFields(e, x) = {}
     IN job' = [job EXCEPT ![l] =
          IF ~CanRender(s) \/ upToDate
            THEN Continue(rest)
            ELSE [rest EXCEPT !.pc = "write", !.entry = e, !.found = found]]
  /\ UNCHANGED <<handlerEnv, queue, spire>>

(* ... and the write.  Its error is dropped.                               *)
EnsureWrite(l, ok) ==
  /\ job[l].pc = "write"
  /\ Outcome(ok)
  /\ \/ ~ok /\ UNCHANGED spire
     \/ ok /\ job[l].found = {} /\ CreateEntry(job[l].entry)
     \/ ok /\ job[l].found # {} /\ UpdateEntry(job[l].entry)
  /\ job' = [job EXCEPT ![l] = Continue(@)]
  /\ UNCHANGED <<handlerEnv, queue>>

(* Mutant: every entry with the pod's UID, whoever manages it.             *)
allEntriesForPod(entries, p) == {e \in entries : HasPodUID(e, p)}

(* deleteEntriesForPod: only managed entries with the pod's UID selector.  *)
deleteEntriesForPod(entries, p) ==
  {e \in entries : shouldProcessEntry(e) /\ HasPodUID(e, p)}

RemoveList(l, ok) ==
  /\ job[l].pc = "listRemove"
  /\ Outcome(ok)
  /\ LET doomed == deleteEntriesForPod(ListEntries, job[l].pod) IN
     job' = [job EXCEPT ![l] =
       IF ~ok \/ doomed = {} THEN IdleJob
       ELSE [@ EXCEPT !.pc = "remove", !.remove = doomed]]
  /\ UNCHANGED <<handlerEnv, queue, spire>>

RemoveOne(l, e, ok) ==
  /\ job[l].pc = "remove" /\ e \in job[l].remove
  /\ Outcome(ok)
  /\ IF ok THEN DeleteEntry(e.id) ELSE UNCHANGED spire
  /\ LET left == job[l].remove \ {e} IN
     job' = [job EXCEPT ![l] = IF left = {} THEN IdleJob ELSE [@ EXCEPT !.remove = left]]
  /\ UNCHANGED <<handlerEnv, queue>>

HandlerStep(l) ==
  \E ok \in BOOLEAN :
    \/ GetNode(l, ok)
    \/ \E i \in Identity, s \in IdentitySpec : EnsureList(l, i, s, ok)
    \/ EnsureWrite(l, ok)
    \/ RemoveList(l, ok)
    \/ \E e \in job[l].remove : RemoveOne(l, e, ok)

Handler ==
  \/ \E c \in Cluster, ok \in BOOLEAN : HandlePodChange(c, ok)
  \/ \E l \in Listener : HandlerStep(l)

=============================================================================
