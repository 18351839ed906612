--------------------------- MODULE DeletionProofs ---------------------------
(***************************************************************************)
(* An object that is not being deleted has the finalizer, and an object    *)
(* goes only after what is owed for it has been cleaned up                 *)
(* (LiveHasFinalizer and GoneOnlyCleanedUp of Deletion).  The first is     *)
(* inductive together with the types.  The second rests on the first,      *)
(* since a live object without the finalizer would go at once, and on      *)
(* WorkersUpToDate: what a worker has yet to delete includes what is owed, *)
(* as long as its Update will not be refused.  Writes of users and of the  *)
(* pass keep it by making the worker stale, and the other worker cannot    *)
(* touch the object, since the two kinds of objects have different names.  *)
(***************************************************************************)
EXTENDS Deletion, TLAPS, FiniteSetTheorems

DeletionInv == TypeOK /\ LiveHasFinalizer /\ OwedMatch /\ WorkersUpToDate

(* What GoneOnlyCleanedUp says of a step.                                  *)
GoesCleanedUp ==
  \A n \in Name : object[n] # "absent" /\ object'[n] = "absent" =>
    owed[n] = {} \/ Update(n, FALSE)

(* The worker that serves an object serves no other kind.                  *)
LEMMA KindOfName ==
  ASSUME NEW n \in Name
  PROVE  /\ KindOf(n) \in Kind /\ n \in KindOf(n)
         /\ \A k \in Kind : n \in k => KindOf(n) = k
BY DeletionAssumption DEF Name, Kind, KindOf

(* A call that fails, or not.                                              *)
LEMMA OutcomeType ==
  ASSUME TypeOK, NEW ok \in BOOLEAN, Outcome(ok)
  PROVE  faults' \in 0..MaxFaults
BY DeletionAssumption DEF TypeOK, Outcome

(* Nothing to do is a piece of work, too.                                  *)
LEMMA NoWorkType == NoWork \in Work /\ NoWork.pc = "idle"
BY DEF NoWork, Work

(* A new version of object n, whatever the write makes of the object and   *)
(* of what is owed for it.                                                 *)
LEMMA VersionStep ==
  ASSUME DeletionInv, NEW n \in Name, NewVersion(n),
         NEW state \in {"absent", "live", "terminating"}, NEW fin \in BOOLEAN,
         NEW es, es \subseteq Matching(n),
         object' = [object EXCEPT ![n] = state],
         finalizer' = [finalizer EXCEPT ![n] = fin],
         owed' = [owed EXCEPT ![n] = es],
         state = "live" => fin,
         entries' = entries, pass' \in Pass,
         changes' \in 0..MaxChanges, faults' \in 0..MaxFaults
  PROVE  DeletionInv'
<1> USE DEF DeletionInv
<1> DEFINE k == KindOf(n)
           new == [worker[k] EXCEPT !.stale = worker[k].stale \/ worker[k].name = n]
<1>1. k \in Kind /\ worker \in [Kind -> Work]
  BY KindOfName DEF TypeOK
<1>2. worker' = [worker EXCEPT ![k] = new]
  BY <1>1 DEF NewVersion
<1>3. /\ new \in Work /\ new.pc = worker[k].pc /\ new.name = worker[k].name
      /\ new.doomed = worker[k].doomed
      /\ new.stale = (worker[k].stale \/ worker[k].name = n)
  <2>1. (worker[k].stale \/ worker[k].name = n) \in BOOLEAN
    BY <1>1 DEF Work
  <2> QED
    BY <1>1, <2>1 DEF Work
<1> HIDE DEF new
<1>4. TypeOK'
  <2>1. es \subseteq Entry
    BY DEF Matching, TypeOK
  <2> QED
    BY <1>1, <1>2, <1>3, <2>1, DeletionAssumption DEF TypeOK, NewVersion
<1>5. LiveHasFinalizer'
  BY DEF LiveHasFinalizer, TypeOK
<1>6. OwedMatch'
  BY DEF OwedMatch, Matching, TypeOK
<1>7. WorkersUpToDate'
  <2> SUFFICES ASSUME NEW j \in Kind, worker'[j].pc # "idle", ~worker'[j].stale
               PROVE  /\ object'[worker'[j].name] = "terminating"
                      /\ finalizer'[worker'[j].name]
                      /\ worker'[j].pc = "delete" =>
                           owed'[worker'[j].name] \subseteq worker'[j].doomed
    BY DEF WorkersUpToDate
  <2>1. /\ worker[j].pc # "idle" /\ ~worker[j].stale /\ worker'[j].name = worker[j].name
        /\ worker'[j].pc = worker[j].pc /\ worker'[j].doomed = worker[j].doomed
    BY <1>1, <1>2, <1>3
  <2>2. worker[j].name \in j /\ worker[j].name \in Name
    BY <2>1 DEF TypeOK, Kind, Name
  <2>3. worker[j].name # n
    BY <1>1, <1>2, <1>3, <2>2, KindOfName
  <2> QED
    BY <2>1, <2>2, <2>3 DEF WorkersUpToDate, TypeOK
<1> QED
  BY <1>4, <1>5, <1>6, <1>7

(* What a user's write does besides changing the object.                   *)
LEMMA WrittenType ==
  ASSUME TypeOK, NEW n \in Name, Written(n)
  PROVE  /\ NewVersion(n) /\ entries' = entries /\ pass' \in Pass
         /\ changes' \in 0..MaxChanges /\ faults' \in 0..MaxFaults
<1>1. [pass EXCEPT !.unwritten = pass.unwritten \ {n}] \in Pass
  BY DEF TypeOK, Pass
<1> QED
  BY <1>1, DeletionAssumption DEF TypeOK, Written

(* What users do.                                                          *)
LEMMA UserStep ==
  ASSUME DeletionInv, NEW n \in Name,
         Create(n) \/ Delete(n) \/ \E fin \in BOOLEAN : Update(n, fin)
  PROVE  DeletionInv' /\ GoesCleanedUp
<1>0. /\ object \in [Name -> {"absent", "live", "terminating"}]
      /\ object[n] \in {"absent", "live", "terminating"} /\ finalizer[n] \in BOOLEAN
      /\ owed \in [Name -> SUBSET Entry] /\ owed[n] \subseteq Matching(n) /\ TypeOK
  BY DEF DeletionInv, TypeOK, OwedMatch
<1>1. CASE Create(n)
  <2>1. /\ object' = [object EXCEPT ![n] = "live"] /\ Written(n)
        /\ finalizer' = [finalizer EXCEPT ![n] = TRUE]
        /\ owed' = [owed EXCEPT ![n] = owed[n]]
    BY <1>0, <1>1 DEF Create, Default
  <2>2. DeletionInv'
    BY <1>0, <2>1, WrittenType, VersionStep
  <2> QED
    BY <1>0, <2>1, <2>2 DEF GoesCleanedUp
<1>2. CASE Delete(n)
  <2>1. finalizer[n] = TRUE
    BY <1>0, <1>2 DEF Delete, DeletionInv, LiveHasFinalizer
  <2>2. /\ object' = [object EXCEPT ![n] = "terminating"] /\ Written(n)
        /\ finalizer' = [finalizer EXCEPT ![n] = TRUE]
        /\ owed' = [owed EXCEPT ![n] = Matching(n)]
    BY <1>2, <2>1 DEF Delete, DeletionInv, TypeOK
  <2>3. DeletionInv'
    BY <1>0, <2>2, WrittenType, VersionStep
  <2> QED
    BY <1>0, <2>2, <2>3 DEF GoesCleanedUp
<1>3. ASSUME NEW fin \in BOOLEAN, Update(n, fin)
      PROVE  DeletionInv' /\ GoesCleanedUp
  <2> DEFINE new == Default(object[n], fin)
             state == IF object[n] = "terminating" /\ ~new THEN "absent" ELSE object[n]
  <2>1. /\ new \in BOOLEAN /\ (object[n] = "live" => new)
        /\ (object[n] = "terminating" => new = fin)
    BY DEF Default
  <2>2. /\ finalizer' = [finalizer EXCEPT ![n] = new] /\ Written(n)
        /\ owed' = [owed EXCEPT ![n] = owed[n]]
    BY <1>0, <1>3 DEF Update, Store
  <2>3. finalizer'[n] = new
    BY <2>2 DEF DeletionInv, TypeOK
  <2>4. object' = [object EXCEPT ![n] = state]
    BY <1>3, <2>3 DEF Update, Store
  <2> HIDE DEF new
  <2>5. /\ state \in {"absent", "live", "terminating"} /\ (state = "live" => new)
        /\ (object[n] # "absent" /\ state = "absent" => fin = FALSE)
    BY <1>0, <2>1
  <2> HIDE DEF state
  <2>6. DeletionInv'
    BY <1>0, <2>1, <2>2, <2>4, <2>5, WrittenType, VersionStep
  <2>7. ASSUME NEW m \in Name, object[m] # "absent", object'[m] = "absent"
        PROVE  Update(m, FALSE)
    <3>1. m = n /\ fin = FALSE
      BY <1>0, <2>4, <2>5, <2>7
    <3> QED
      BY <1>3, <3>1
  <2> QED
    BY <2>6, <2>7 DEF GoesCleanedUp
<1> QED
  BY <1>1, <1>2, <1>3

------------------------------------------------------------------------------
(* Taking entries away settles what is owed of them.                       *)
LEMMA Settled ==
  ASSUME DeletionInv, NEW es, NEW gone \in SUBSET es,
         Settle(es), entries' = entries \ gone
  PROVE  /\ owed' \in [Name -> SUBSET Entry]
         /\ \A n \in Name : /\ owed'[n] = owed[n] \ es
                            /\ owed'[n] \subseteq Matching(n)'
BY DEF DeletionInv, TypeOK, OwedMatch, Matching, Settle

(* A worker's call that leaves the objects alone.                          *)
LEMMA WorkStep ==
  ASSUME DeletionInv, NEW k \in Kind, NEW work \in Work,
         worker' = [worker EXCEPT ![k] = work], UNCHANGED <<object, finalizer, pass, changes>>,
         entries' \subseteq Entry, queue' \subseteq Name, faults' \in 0..MaxFaults,
         owed' \in [Name -> SUBSET Entry],
         \A n \in Name : owed'[n] \subseteq owed[n] /\ owed'[n] \subseteq Matching(n)',
         work.pc # "idle" => work.name \in k,
         work.pc # "idle" /\ ~work.stale =>
           /\ object[work.name] = "terminating" /\ finalizer[work.name]
           /\ work.pc = "delete" => owed'[work.name] \subseteq work.doomed
  PROVE  DeletionInv' /\ GoesCleanedUp
<1> USE DEF DeletionInv
<1>1. TypeOK'
  BY DEF TypeOK
<1>2. LiveHasFinalizer' /\ OwedMatch' /\ GoesCleanedUp
  BY DEF LiveHasFinalizer, OwedMatch, GoesCleanedUp
<1>3. WorkersUpToDate'
  <2> SUFFICES ASSUME NEW j \in Kind, worker'[j].pc # "idle", ~worker'[j].stale
               PROVE  /\ object'[worker'[j].name] = "terminating"
                      /\ finalizer'[worker'[j].name]
                      /\ worker'[j].pc = "delete" =>
                           owed'[worker'[j].name] \subseteq worker'[j].doomed
    BY DEF WorkersUpToDate
  <2>1. CASE j = k
    BY <2>1 DEF TypeOK
  <2>2. CASE j # k
    <3>1. worker'[j] = worker[j]
      BY <2>2 DEF TypeOK
    <3>2. worker[j].name \in Name
      BY <3>1 DEF TypeOK, Kind, Name
    <3> QED
      BY <3>1, <3>2 DEF WorkersUpToDate
  <2> QED
    BY <2>1, <2>2
<1> QED
  BY <1>1, <1>2, <1>3

(* The controllers.                                                        *)
LEMMA ControllerStep ==
  ASSUME DeletionInv, NEW k \in Kind, Controller(k)
  PROVE  DeletionInv' /\ GoesCleanedUp
<1> DEFINE Good == DeletionInv' /\ GoesCleanedUp
           w == worker[k]
<1>0. /\ w \in Work /\ (w.pc # "idle" => w.name \in k /\ w.name \in Name)
      /\ (w.pc # "idle" /\ ~w.stale =>
            /\ object[w.name] = "terminating" /\ finalizer[w.name]
            /\ w.pc = "delete" => owed[w.name] \subseteq w.doomed)
      /\ entries \subseteq Entry /\ queue \subseteq Name /\ faults \in 0..MaxFaults
      /\ object \in [Name -> {"absent", "live", "terminating"}]
      /\ finalizer \in [Name -> BOOLEAN]
      /\ owed \in [Name -> SUBSET Entry] /\ \A n \in Name : owed[n] \subseteq Matching(n)
  BY DEF DeletionInv, TypeOK, WorkersUpToDate, OwedMatch, Kind, Name
<1>a. ASSUME UNCHANGED <<entries, owed>>
      PROVE  /\ entries' \subseteq Entry /\ owed' \in [Name -> SUBSET Entry]
             /\ \A n \in Name : owed'[n] \subseteq owed[n] /\ owed'[n] \subseteq Matching(n)'
  BY <1>0, <1>a DEF Matching
<1>1. ASSUME NEW ok \in BOOLEAN, NEW n \in queue \cap k, Reconcile(n, ok) PROVE Good
  <2> DEFINE new == IF ok /\ object[n] = "terminating" /\ finalizer[n]
                      THEN [NoWork EXCEPT !.pc = "list", !.name = n] ELSE NoWork
  <2>1. n \in Name /\ KindOf(n) = k
    BY <1>0, KindOfName
  <2>2. /\ worker' = [worker EXCEPT ![k] = new]
        /\ UNCHANGED <<object, finalizer, pass, changes>> /\ UNCHANGED <<entries, owed>>
        /\ queue' \subseteq Name /\ faults' \in 0..MaxFaults
    BY <1>0, <1>1, <2>1, OutcomeType DEF Reconcile, Retry, userVars, DeletionInv
  <2>3. /\ new \in Work /\ (new.pc # "idle" => new.name = n) /\ new.pc # "delete"
        /\ (new.pc # "idle" => object[n] = "terminating" /\ finalizer[n])
    BY <2>1 DEF NoWork, Work
  <2> HIDE DEF new
  <2> QED
    BY <1>0, <1>a, <2>2, <2>3, WorkStep
<1>2. ASSUME Fail(k), UNCHANGED <<object, finalizer, pass, changes>>, w.pc # "idle",
             faults' \in 0..MaxFaults, entries' \subseteq Entry,
             owed' \in [Name -> SUBSET Entry],
             \A n \in Name : owed'[n] \subseteq owed[n] /\ owed'[n] \subseteq Matching(n)'
      PROVE  Good
  <2>1. queue' \subseteq Name /\ worker' = [worker EXCEPT ![k] = NoWork]
    BY <1>0, <1>2 DEF Fail, Retry
  <2> QED
    BY <1>2, <2>1, NoWorkType, WorkStep
<1>3. ASSUME NEW ok \in BOOLEAN, ListOwned(k, ok) PROVE Good
  <2>0. /\ UNCHANGED <<object, finalizer, pass, changes>> /\ UNCHANGED <<entries, owed>>
        /\ w.pc = "list" /\ faults' \in 0..MaxFaults
    BY <1>3, OutcomeType DEF ListOwned, userVars, DeletionInv
  <2>1. CASE ok
    <3> DEFINE doomed == Matching(w.name)
               new == [w EXCEPT !.pc = "delete", !.doomed = doomed]
    <3>1. worker' = [worker EXCEPT ![k] = new] /\ queue' = queue
      BY <1>3, <2>1 DEF ListOwned, DeletionInv, TypeOK
    <3>2. doomed \subseteq Entry /\ owed'[w.name] \subseteq doomed
      BY <1>0, <2>0 DEF Matching
    <3> HIDE DEF doomed
    <3>3. new \in Work /\ new.name = w.name /\ new.stale = w.stale /\ new.doomed = doomed
      BY <1>0, <3>2 DEF Work
    <3> HIDE DEF new
    <3> QED
      BY <1>0, <1>a, <2>0, <3>1, <3>2, <3>3, WorkStep
  <2>2. CASE ~ok
    BY <1>0, <1>a, <1>2, <1>3, <2>0, <2>2 DEF ListOwned
  <2> QED
    BY <2>1, <2>2
<1>4. ASSUME NEW ok \in BOOLEAN, NEW ids \in Batches(k), NEW refused \in SUBSET ids,
             DeleteBatch(k, ids, refused, ok)
      PROVE  Good
  <2>0. UNCHANGED <<object, finalizer, pass, changes>> /\ w.pc = "delete"
    BY <1>4 DEF DeleteBatch, userVars
  <2>1. CASE ~ok
    <3>1. PICK done : entries' = entries \ done /\ Settle(done)
      BY <1>4, <2>1 DEF DeleteBatch
    <3>2. /\ entries' \subseteq Entry /\ owed' \in [Name -> SUBSET Entry]
          /\ \A n \in Name : owed'[n] \subseteq owed[n] /\ owed'[n] \subseteq Matching(n)'
      BY <1>0, <3>1, Settled
    <3>3. Fail(k) /\ faults' \in 0..MaxFaults
      BY <1>4, <2>1, OutcomeType DEF DeleteBatch, DeletionInv
    <3> QED
      BY <1>2, <2>0, <3>2, <3>3
  <2>2. CASE ok
    <3> DEFINE new == [w EXCEPT !.doomed = w.doomed \ ids]
    <3>1. /\ worker' = [worker EXCEPT ![k] = new] /\ queue' = queue
          /\ entries' = entries \ (ids \ refused) /\ Settle(ids)
      BY <1>4, <2>2 DEF DeleteBatch
    <3>2. faults' \in 0..MaxFaults
      <4>1. w.doomed \subseteq Entry
        BY <1>0 DEF Work
      <4>2. ids \subseteq w.doomed
        BY DEF Batches, kSubset
      <4>3. IsFiniteSet(refused)
        BY <4>1, <4>2, FS_Subset, DeletionAssumption
      <4>4. Cardinality(refused) \in Nat
        BY <4>3, FS_CardinalityType
      <4> QED
        BY <1>0, <1>4, <2>2, <4>4, DeletionAssumption DEF DeleteBatch
    <3>3. /\ entries' \subseteq Entry /\ owed' \in [Name -> SUBSET Entry]
          /\ \A n \in Name : owed'[n] = owed[n] \ ids /\ owed'[n] \subseteq Matching(n)'
      <4>1. ids \ refused \in SUBSET ids
        OBVIOUS
      <4>2. /\ owed' \in [Name -> SUBSET Entry]
            /\ \A n \in Name : owed'[n] = owed[n] \ ids /\ owed'[n] \subseteq Matching(n)'
        BY <3>1, <4>1, Settled
      <4> QED
        BY <1>0, <3>1, <4>2
    <3>4. /\ new \in Work /\ new.name = w.name /\ new.stale = w.stale
          /\ new.pc = w.pc /\ new.doomed = w.doomed \ ids
      BY <1>0 DEF Work
    <3> HIDE DEF new
    <3>5. ~w.stale => owed'[w.name] \subseteq new.doomed
      BY <1>0, <2>0, <3>3, <3>4
    <3>6. /\ queue' \subseteq Name /\ new.name \in k
          /\ \A n \in Name : owed'[n] \subseteq owed[n] /\ owed'[n] \subseteq Matching(n)'
          /\ ~new.stale => /\ object[new.name] = "terminating" /\ finalizer[new.name]
                           /\ owed'[new.name] \subseteq new.doomed
      BY <1>0, <2>0, <3>1, <3>3, <3>4, <3>5
    <3> QED
      BY <2>0, <3>1, <3>2, <3>3, <3>4, <3>6, WorkStep
  <2> QED
    BY <2>1, <2>2
<1>5. ASSUME NEW ok \in BOOLEAN, RemoveFinalizer(k, ok) PROVE Good
  <2> DEFINE n == w.name
  <2>0. /\ w.pc = "delete" /\ w.doomed = {} /\ UNCHANGED <<entries, owed>>
        /\ changes' = changes /\ (ok => ~w.stale) /\ faults' \in 0..MaxFaults
    BY <1>0, <1>5, OutcomeType DEF RemoveFinalizer, DeletionInv
  <2>1. CASE ~ok
    BY <1>0, <1>a, <1>2, <1>5, <2>0, <2>1 DEF RemoveFinalizer, userVars
  <2>2. CASE ok
    <3>1. /\ Store(n, FALSE) /\ pass' = [pass EXCEPT !.unwritten = pass.unwritten \ {n}]
          /\ queue' = queue \cup {n} /\ worker' = [worker EXCEPT ![k] = NoWork]
      BY <1>5, <2>2 DEF RemoveFinalizer
    <3>2. /\ n \in k /\ n \in Name /\ object[n] = "terminating"
          /\ owed[n] = {}
      BY <1>0, <2>0, <2>2
    <3>3. /\ finalizer' = [finalizer EXCEPT ![n] = FALSE]
          /\ object' = [object EXCEPT ![n] = "absent"]
      BY <1>0, <3>1, <3>2 DEF Store, Default
    <3>4. pass' \in Pass
      BY <3>1 DEF DeletionInv, TypeOK, Pass
    <3> HIDE DEF n
    <3>5. TypeOK'
      BY <1>0, <2>0, <3>1, <3>2, <3>3, <3>4, NoWorkType DEF TypeOK, DeletionInv
    <3>6. LiveHasFinalizer' /\ OwedMatch' /\ GoesCleanedUp
      BY <1>0, <2>0, <3>2, <3>3
         DEF LiveHasFinalizer, OwedMatch, Matching, GoesCleanedUp, DeletionInv
    <3>7. WorkersUpToDate'
      <4> SUFFICES ASSUME NEW j \in Kind, worker'[j].pc # "idle", ~worker'[j].stale
                   PROVE  /\ object'[worker'[j].name] = "terminating"
                          /\ finalizer'[worker'[j].name]
                          /\ worker'[j].pc = "delete" =>
                               owed'[worker'[j].name] \subseteq worker'[j].doomed
        BY DEF WorkersUpToDate
      <4>1. j # k /\ worker'[j] = worker[j]
        BY <3>1, NoWorkType DEF DeletionInv, TypeOK
      <4>2. worker[j].name \in j /\ worker[j].name \in Name
        BY <4>1 DEF DeletionInv, TypeOK, Kind, Name
      <4>3. worker[j].name # n
        BY <3>2, <4>1, <4>2, KindOfName
      <4> QED
        BY <1>0, <2>0, <3>3, <4>1, <4>2, <4>3 DEF DeletionInv, WorkersUpToDate
    <3> QED
      BY <3>5, <3>6, <3>7 DEF DeletionInv
  <2> QED
    BY <2>1, <2>2
<1> QED
  BY <1>1, <1>3, <1>4, <1>5 DEF Controller

------------------------------------------------------------------------------
(* A step of the full pass that leaves the versions of the objects alone.  *)
LEMMA PassStep ==
  ASSUME DeletionInv, UNCHANGED <<object, finalizer, queue, worker, changes>>,
         entries' \subseteq Entry, faults' \in 0..MaxFaults, pass' \in Pass,
         owed' \in [Name -> SUBSET Entry],
         \A n \in Name : owed'[n] \subseteq owed[n] /\ owed'[n] \subseteq Matching(n)'
  PROVE  DeletionInv' /\ object' = object
<1> USE DEF DeletionInv
<1>1. TypeOK' /\ LiveHasFinalizer' /\ OwedMatch'
  BY DEF TypeOK, LiveHasFinalizer, OwedMatch
<1>2. WorkersUpToDate'
  <2> SUFFICES ASSUME NEW j \in Kind, worker[j].pc # "idle", ~worker[j].stale
               PROVE  /\ object[worker[j].name] = "terminating"
                      /\ finalizer[worker[j].name]
                      /\ worker[j].pc = "delete" =>
                           owed'[worker[j].name] \subseteq worker[j].doomed
    BY DEF WorkersUpToDate
  <2>1. worker[j].name \in Name
    BY DEF TypeOK, Kind, Name
  <2> QED
    BY <2>1 DEF WorkersUpToDate
<1> QED
  BY <1>1, <1>2

(* Its steps, one by one.                                                  *)
LEMMA FullPassStep ==
  ASSUME DeletionInv, FullPass
  PROVE  DeletionInv' /\ object' = object
<1>0. /\ pass \in Pass /\ entries \subseteq Entry /\ faults \in 0..MaxFaults
      /\ NoPass \in Pass /\ Name = Identity \cup Cluster
      /\ owed \in [Name -> SUBSET Entry] /\ \A n \in Name : owed[n] \subseteq Matching(n)
  BY DEF DeletionInv, TypeOK, OwedMatch, NoPass, Name, Pass
<1>a. ASSUME owed' = owed, entries \subseteq entries'
      PROVE  /\ owed' \in [Name -> SUBSET Entry]
             /\ \A n \in Name : owed'[n] \subseteq owed[n] /\ owed'[n] \subseteq Matching(n)'
  BY <1>0, <1>a DEF Matching
<1>1. CASE ListClusters
  <2>1. [NoPass EXCEPT !.pc = "identities", !.listed = Present(Cluster),
                       !.unwritten = Present(Cluster)] \in Pass
    BY <1>0 DEF Present, NoPass, Pass
  <2> QED
    BY <1>0, <1>a, <1>1, <2>1, PassStep DEF ListClusters, userVars, countVars
<1>2. CASE ListIdentities
  <2>1. [pass EXCEPT !.pc = "entries", !.listed = pass.listed \cup Present(Identity),
                     !.unwritten = pass.unwritten \cup Present(Identity)] \in Pass
    BY <1>0 DEF Present, Pass
  <2> QED
    BY <1>0, <1>a, <1>2, <2>1, PassStep DEF ListIdentities, userVars, countVars
<1>3. CASE GetChanges
  <2>1. [pass EXCEPT !.pc = "apply", !.listed = {}, !.toDelete = Orphans(pass.listed),
                     !.toCreate = Declared(pass.listed) \ entries] \in Pass
    BY <1>0 DEF Orphans, Declared, Pass
  <2> QED
    BY <1>0, <1>a, <1>3, <2>1, PassStep DEF GetChanges, userVars, countVars
<1>4. CASE EndPass
  BY <1>0, <1>a, <1>4, PassStep DEF EndPass, userVars, countVars
<1>5. ASSUME NEW e \in Entry, NEW ok \in BOOLEAN, Apply(e, ok)
      PROVE  DeletionInv' /\ object' = object
  <2>1. /\ [pass EXCEPT !.toDelete = pass.toDelete \ {e}] \in Pass
        /\ [pass EXCEPT !.toCreate = pass.toCreate \ {e}] \in Pass
    BY <1>0 DEF Pass
  <2>2. /\ faults' \in 0..MaxFaults /\ pass' \in Pass
        /\ UNCHANGED <<object, finalizer, queue, worker, changes>>
    BY <1>5, <2>1, OutcomeType DEF Apply, DeletionInv, userVars
  <2>3. CASE entries' = entries \ {e} /\ Settle({e})
    BY <1>0, <2>2, <2>3, Settled, PassStep
  <2>4. CASE owed' = owed /\ entries \subseteq entries' /\ entries' \subseteq Entry
    BY <1>a, <2>2, <2>4, PassStep
  <2> QED
    BY <1>0, <1>5, <2>3, <2>4 DEF Apply
<1>6. ASSUME NEW n \in Name, NEW ok \in BOOLEAN, UpdateStatus(n, ok)
      PROVE  DeletionInv' /\ object' = object
  <2>1. /\ pass' \in Pass /\ UNCHANGED <<object, finalizer, entries, owed, changes>>
    BY <1>0, <1>6 DEF UpdateStatus, userVars, Pass
  <2>2. faults' \in 0..MaxFaults
    <3>1. (ok /\ ~InProgress(n)) \in BOOLEAN
      BY DEF InProgress
    <3> QED
      BY <1>6, <3>1, OutcomeType DEF UpdateStatus, DeletionInv
  <2>3. CASE ok
    <3>1. NewVersion(n)
      BY <1>6, <2>3 DEF UpdateStatus
    <3>2. /\ object[n] \in {"absent", "live", "terminating"} /\ finalizer[n] \in BOOLEAN
          /\ object' = [object EXCEPT ![n] = object[n]]
          /\ finalizer' = [finalizer EXCEPT ![n] = finalizer[n]]
          /\ owed' = [owed EXCEPT ![n] = owed[n]]
          /\ (object[n] = "live" => finalizer[n]) /\ changes' \in 0..MaxChanges
      BY <1>0, <2>1 DEF DeletionInv, TypeOK, LiveHasFinalizer
    <3>3. owed[n] \subseteq Matching(n)
      BY <1>0
    <3>4. DeletionInv'
      BY <2>1, <2>2, <3>1, <3>2, <3>3, VersionStep
    <3> QED
      BY <2>1, <3>4
  <2>4. CASE ~ok
    BY <1>0, <1>a, <1>6, <2>1, <2>2, <2>4, PassStep DEF UpdateStatus
  <2> QED
    BY <2>3, <2>4
<1> QED
  BY <1>1, <1>2, <1>3, <1>4, <1>5, <1>6 DEF FullPass

(* A restart forgets what the workers were doing.                          *)
LEMMA RestartStep ==
  ASSUME DeletionInv, Restart
  PROVE  DeletionInv' /\ object' = object
<1>1. /\ worker' = [k \in Kind |-> NoWork] /\ pass' = NoPass /\ queue' = Present(Name)
      /\ UNCHANGED <<object, finalizer, entries, owed, changes>> /\ faults' \in 0..MaxFaults
  BY OutcomeType DEF Restart, userVars, DeletionInv
<1>2. TypeOK'
  BY <1>1, NoWorkType DEF DeletionInv, TypeOK, NoPass, Present, Pass
<1>3. WorkersUpToDate'
  BY <1>1, NoWorkType DEF WorkersUpToDate
<1> QED
  BY <1>1, <1>2, <1>3 DEF DeletionInv, LiveHasFinalizer, OwedMatch, Matching

------------------------------------------------------------------------------
(* Nothing is owed and nobody works at the start.                          *)
LEMMA DeletionInitially == Init => DeletionInv
<1> SUFFICES ASSUME Init PROVE DeletionInv
  OBVIOUS
<1>1. TypeOK
  BY NoWorkType, DeletionAssumption DEF Init, TypeOK, NoPass, Pass, Name, Present
<1>2. LiveHasFinalizer
  BY <1>1 DEF Init, LiveHasFinalizer, TypeOK
<1> QED
  BY <1>1, <1>2, NoWorkType DEF Init, DeletionInv, OwedMatch, WorkersUpToDate

(* A step keeps the invariant, and no object goes in it that is owed       *)
(* something.                                                              *)
LEMMA DeletionStep == DeletionInv /\ [Next]_vars => DeletionInv' /\ [GoesCleanedUp]_vars
<1> SUFFICES ASSUME DeletionInv, [Next]_vars PROVE DeletionInv' /\ [GoesCleanedUp]_vars
  OBVIOUS
<1>1. CASE UNCHANGED vars
  <2>1. TypeOK' /\ LiveHasFinalizer' /\ OwedMatch'
    BY <1>1 DEF vars, DeletionInv, TypeOK, LiveHasFinalizer, OwedMatch, Matching
  <2>2. WorkersUpToDate'
    BY <1>1 DEF vars, DeletionInv, WorkersUpToDate
  <2> QED
    BY <1>1, <2>1, <2>2 DEF DeletionInv
<1>2. ASSUME object' = object PROVE GoesCleanedUp
  BY <1>2 DEF GoesCleanedUp
<1>3. CASE Next
  BY <1>2, <1>3, UserStep, FullPassStep, RestartStep, ControllerStep DEF Next, Users
<1> QED
  BY <1>1, <1>3

(* Whatever users write, and whatever the controllers and the pass do at   *)
(* the same time, an object that is not being deleted has the finalizer.   *)
THEOREM FinalizerSafe == Spec => []LiveHasFinalizer
<1>1. DeletionInv => LiveHasFinalizer
  BY DEF DeletionInv
<1> QED
  BY <1>1, DeletionInitially, DeletionStep, PTL DEF Spec

(* No object goes before every entry that matched it when its deletion was *)
(* asked for has been deleted or refused, unless a user forces it.         *)
THEOREM CleanedUpFirst == Spec => GoneOnlyCleanedUp
<1>1. DeletionInv /\ [Next]_vars =>
        [\A n \in Name : object[n] # "absent" /\ object'[n] = "absent" =>
           owed[n] = {} \/ Update(n, FALSE)]_vars
  BY DeletionStep DEF GoesCleanedUp
<1>2. DeletionInv /\ [Next]_vars => DeletionInv'
  BY DeletionStep
<1> QED
  BY <1>1, <1>2, DeletionInitially, PTL DEF Spec, GoneOnlyCleanedUp

=============================================================================
