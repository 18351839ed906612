------------------------- MODULE WebhookCertsProofs -------------------------
(***************************************************************************)
(* No webhook server presents an expired certificate (NeverExpired of      *)
(* WebhookCerts), for any lifetime and any number of processes, as long as *)
(* there are fewer failures than half the lifetime has units of time.  The *)
(* invariant counts: each unit of time that passes in the second half of a *)
(* certificate's life has been paid for with a failure (InTime).  For that *)
(* certificateExpiry must be about the certificate the server presents,    *)
(* although the two files and the server change one after the other        *)
(* (FilesMatch, ServedIsCurrent).                                          *)
(***************************************************************************)
EXTENDS WebhookCerts, TLAPS

(* What the proof needs to know of the constants.                          *)
LEMMA Halves ==
  /\ Lifetime \in Nat /\ HalfLife \in Nat /\ HalfLife < Lifetime
  /\ MaxFaults \in Nat /\ MaxFaults < HalfLife /\ MaxStarts \in Nat
  /\ Nil \notin 0..Lifetime
<1>1. Lifetime \in Nat \ {0} => Lifetime \div 2 \in Nat /\ Lifetime \div 2 < Lifetime
  OBVIOUS
<1> QED
  BY <1>1, CertsAssumption DEF HalfLife

(* A step of one process leaves the others as they were; failures of one   *)
(* only give the others more slack.                                        *)
LEMMA OneReplica ==
  ASSUME TypeOK, RotationInv, NEW r \in Replica,
         NEW m \in Manager, NEW d \in Files, NEW c \in Cert,
         manager' = [manager EXCEPT ![r] = m], disk' = [disk EXCEPT ![r] = d],
         served' = [served EXCEPT ![r] = c],
         bundle' \in Replica \cup {Nil}, starts' \in 0..MaxStarts,
         faults' \in 0..MaxFaults, faults =< faults',
         ReplicaOK(m, d, c, faults')
  PROVE  TypeOK' /\ RotationInv'
<1>1. TypeOK'
  BY DEF TypeOK
<1>2. ASSUME NEW q \in Replica \ {r}
      PROVE  ReplicaOK(manager'[q], disk'[q], served'[q], faults')
  <2>1. manager'[q] = manager[q] /\ disk'[q] = disk[q] /\ served'[q] = served[q]
    BY DEF TypeOK
  <2>2. manager[q].left \in Nat /\ faults \in Nat /\ faults' \in Nat
    BY Halves DEF TypeOK, Manager
  <2>3. ReplicaOK(manager[q], disk[q], served[q], faults)
    BY DEF RotationInv
  <2>4. InTime(manager[q], served[q], faults')
    BY <2>2, <2>3, Halves DEF ReplicaOK, InTime
  <2> QED
    BY <2>1, <2>3, <2>4 DEF ReplicaOK
<1>3. ReplicaOK(manager'[r], disk'[r], served'[r], faults')
  BY DEF TypeOK
<1> QED
  BY <1>1, <1>2, <1>3 DEF RotationInv

(* A step of one process without a failure.                                *)
LEMMA OneReplicaQuietly ==
  ASSUME TypeOK, RotationInv, NEW r \in Replica,
         NEW m \in Manager, NEW d \in Files, NEW c \in Cert,
         manager' = [manager EXCEPT ![r] = m], disk' = [disk EXCEPT ![r] = d],
         served' = [served EXCEPT ![r] = c],
         bundle' \in Replica \cup {Nil}, UNCHANGED <<starts, faults>>,
         ReplicaOK(m, d, c, faults)
  PROVE  TypeOK' /\ RotationInv'
<1>1. starts' \in 0..MaxStarts /\ faults' \in 0..MaxFaults /\ faults =< faults'
  BY Halves DEF TypeOK
<1>2. ReplicaOK(m, d, c, faults')
  OBVIOUS
<1> QED
  BY <1>1, <1>2, OneReplica

(* A call that fails, or not.                                              *)
LEMMA OutcomeType ==
  ASSUME TypeOK, NEW ok \in BOOLEAN, Outcome(ok)
  PROVE  /\ faults' \in 0..MaxFaults /\ faults =< faults'
         /\ ~ok => faults' = faults + 1
BY Halves DEF TypeOK, Outcome, Fault

(* A process that ends, or has not started.                                *)
LEMMA NoProcess ==
  /\ Off \in Manager /\ NoFiles \in Files /\ Nil \in Cert
  /\ \A n : ReplicaOK(Off, NoFiles, Nil, n)
BY Halves DEF Off, NoFiles, Manager, Files, Cert, ReplicaOK, FilesMatch, ServedIsCurrent, InTime

(* End, whoever asks for it.                                               *)
LEMMA EndStep ==
  ASSUME TypeOK, RotationInv, NEW r \in Replica, End(r), starts' = starts,
         faults' \in 0..MaxFaults, faults =< faults'
  PROVE  TypeOK' /\ RotationInv'
<1>1. bundle' \in Replica \cup {Nil} /\ starts' \in 0..MaxStarts
  BY DEF End, TypeOK
<1> QED
  BY <1>1, NoProcess, OneReplica DEF End

(* An attempt to rotate that fails leaves what the server presents, and    *)
(* there is one failure more to count.                                     *)
LEMMA FailedStep ==
  ASSUME TypeOK, RotationInv, NEW r \in Replica, Failed(r), starts' = starts,
         manager[r].step \in {"mint", "key", "config"},
         faults' \in 0..MaxFaults, faults' = faults + 1,
         manager[r].serving =>
           \/ disk' = disk
           \/ manager[r].step = "mint" /\ disk' = [disk EXCEPT ![r] = NoFiles]
  PROVE  TypeOK' /\ RotationInv'
<1> DEFINE m == manager[r]
           new == [m EXCEPT !.step = "idle"]
<1>0. /\ m \in Manager /\ disk[r] \in Files /\ served[r] \in Cert
      /\ faults \in Nat /\ ReplicaOK(m, disk[r], served[r], faults)
  BY Halves DEF TypeOK, RotationInv
<1>1. CASE ~m.serving
  <2>1. End(r) /\ faults =< faults'
    BY <1>0, <1>1 DEF Failed
  <2> QED
    BY <2>1, EndStep
<1>2. CASE m.serving
  <2>1. PICK d \in {disk[r], NoFiles} :
          disk' = [disk EXCEPT ![r] = d] /\ (d = disk[r] \/ m.step = "mint")
    BY <1>2 DEF TypeOK
  <2>2. /\ manager' = [manager EXCEPT ![r] = new]
        /\ served' = [served EXCEPT ![r] = served[r]] /\ bundle' = bundle
    BY <1>2 DEF Failed, TypeOK
  <2>3. /\ new \in Manager /\ new.step = "idle" /\ new.left = m.left
        /\ new.serving = m.serving /\ new.checked = m.checked /\ m.left \in Nat
    BY <1>0, Halves DEF Manager
  <2>4. m.step \in {"mint", "key", "config"}
    OBVIOUS
  <2> HIDE DEF m, new
  <2>5. FilesMatch(new, d)
    BY <1>0, <1>2, <2>3 DEF ReplicaOK, FilesMatch, NoFiles
  <2>6. ServedIsCurrent(new, d, served[r])
    BY <1>0, <1>2, <2>1, <2>3, <2>4 DEF ReplicaOK, ServedIsCurrent
  <2>7. InTime(new, served[r], faults')
    BY <1>0, <1>2, <2>3, Halves DEF ReplicaOK, InTime
  <2>8. d \in Files
    BY <1>0, NoProcess
  <2>9. starts' \in 0..MaxStarts /\ bundle' \in Replica \cup {Nil} /\ faults =< faults'
    BY <1>0, <2>2 DEF TypeOK
  <2> QED
    BY <1>0, <2>1, <2>2, <2>3, <2>5, <2>6, <2>7, <2>8, <2>9, OneReplica DEF ReplicaOK
<1> QED
  BY <1>0, <1>1, <1>2 DEF Manager

------------------------------------------------------------------------------
(* A new process.                                                          *)
LEMMA StartStep ==
  ASSUME TypeOK, RotationInv, NEW r \in Replica, Start(r)
  PROVE  TypeOK' /\ RotationInv'
<1> DEFINE new == [Off EXCEPT !.step = "mint"]
<1>1. /\ manager' = [manager EXCEPT ![r] = new]
      /\ disk' = [disk EXCEPT ![r] = disk[r]] /\ served' = [served EXCEPT ![r] = served[r]]
      /\ bundle' = bundle /\ faults' = faults /\ starts' \in 0..MaxStarts
  BY Halves DEF Start, TypeOK
<1>2. disk[r] \in Files /\ served[r] \in Cert /\ faults \in 0..MaxFaults
      /\ bundle \in Replica \cup {Nil}
  BY DEF TypeOK
<1>3. new \in Manager /\ new.step = "mint" /\ new.serving = FALSE
  BY NoProcess DEF Off, Manager
<1>4. disk[r].paired = FALSE
  <2>1. FilesMatch(manager[r], disk[r]) /\ manager[r].step = "off"
    BY DEF Start, RotationInv, ReplicaOK
  <2> QED
    BY <1>2, <2>1 DEF FilesMatch, Files
<1> HIDE DEF new
<1>5. ReplicaOK(new, disk[r], served[r], faults)
  BY <1>3, <1>4 DEF ReplicaOK, FilesMatch, ServedIsCurrent, InTime
<1> QED
  <2>1. faults' \in 0..MaxFaults /\ faults =< faults' /\ bundle' \in Replica \cup {Nil}
    BY <1>1, <1>2, Halves
  <2>2. ReplicaOK(new, disk[r], served[r], faults')
    BY <1>1, <1>5
  <2> QED
    BY <1>1, <1>2, <1>3, <2>1, <2>2, OneReplica

(* The three parts of minting and publishing a certificate.                *)
LEMMA MintStep ==
  ASSUME TypeOK, RotationInv, NEW r \in Replica, NEW ok \in BOOLEAN,
         WriteCert(r, ok) \/ WriteKey(r, ok) \/ UpdateWebhookConfiguration(r, ok)
  PROVE  TypeOK' /\ RotationInv'
<1> DEFINE m == manager[r]
           d == disk[r]
<1>0. /\ m \in Manager /\ d \in Files /\ served[r] \in Cert /\ m.left \in Nat
      /\ faults \in Nat /\ ReplicaOK(m, d, served[r], faults)
      /\ bundle \in Replica \cup {Nil} /\ starts \in 0..MaxStarts
  BY Halves DEF TypeOK, RotationInv, Manager
<1>1. CASE ~ok
  <2>1. faults' \in 0..MaxFaults /\ faults' = faults + 1 /\ starts' = starts
    BY <1>1, OutcomeType DEF WriteCert, WriteKey, UpdateWebhookConfiguration
  <2>2. /\ Failed(r) /\ m.step \in {"mint", "key", "config"}
        /\ m.serving => \/ disk' = disk
                        \/ m.step = "mint" /\ disk' = [disk EXCEPT ![r] = NoFiles]
    BY <1>1 DEF WriteCert, WriteKey, UpdateWebhookConfiguration
  <2> QED
    BY <2>1, <2>2, FailedStep
<1>2. CASE ok /\ WriteCert(r, ok)
  <2> DEFINE newM == [m EXCEPT !.step = "key"]
             newD == [crt |-> Lifetime, paired |-> FALSE]
  <2>1. /\ manager' = [manager EXCEPT ![r] = newM] /\ disk' = [disk EXCEPT ![r] = newD]
        /\ served' = [served EXCEPT ![r] = served[r]]
        /\ UNCHANGED <<bundle, starts, faults>> /\ m.step = "mint"
    BY <1>2 DEF WriteCert, Outcome, TypeOK
  <2>2. /\ newM \in Manager /\ newM.step = "key" /\ newM.serving = m.serving
        /\ newM.checked = m.checked /\ newM.left = m.left
    BY <1>0 DEF Manager
  <2>3. newD \in Files
    BY Halves DEF Files, Cert
  <2> HIDE DEF newM, m
  <2>4. ReplicaOK(newM, newD, served[r], faults)
    BY <1>0, <2>1, <2>2 DEF ReplicaOK, FilesMatch, ServedIsCurrent, InTime
  <2> HIDE DEF newD
  <2> QED
    BY <1>0, <2>1, <2>2, <2>3, <2>4, OneReplicaQuietly
<1>3. CASE ok /\ WriteKey(r, ok)
  <2> DEFINE newM == [m EXCEPT !.step = "config", !.left = Lifetime]
             newD == [d EXCEPT !.paired = TRUE]
  <2>1. /\ manager' = [manager EXCEPT ![r] = newM] /\ disk' = [disk EXCEPT ![r] = newD]
        /\ served' = [served EXCEPT ![r] = served[r]]
        /\ UNCHANGED <<bundle, starts, faults>> /\ m.step = "key"
    BY <1>3 DEF WriteKey, Outcome, TypeOK
  <2>2. /\ newM \in Manager /\ newM.step = "config" /\ newM.serving = m.serving
        /\ newM.checked = m.checked /\ newM.left = Lifetime
    <3>1. Lifetime \in 0..Lifetime
      BY Halves
    <3> QED
      BY <1>0, <3>1 DEF Manager
  <2>3. newD \in Files /\ newD.paired /\ newD.crt = d.crt
    BY <1>0 DEF Files
  <2> HIDE DEF newM, newD, m, d
  <2>4. FilesMatch(newM, newD)
    BY <1>0, <2>1, <2>2, <2>3 DEF ReplicaOK, FilesMatch
  <2>5. ServedIsCurrent(newM, newD, served[r])
    BY <1>0, <2>1, <2>2, <2>3 DEF ReplicaOK, ServedIsCurrent
  <2>6. InTime(newM, served[r], faults)
    BY <1>0, <2>1, <2>2, Halves DEF ReplicaOK, InTime
  <2> QED
    BY <1>0, <2>1, <2>2, <2>3, <2>4, <2>5, <2>6, OneReplicaQuietly DEF ReplicaOK
<1>4. CASE ok /\ UpdateWebhookConfiguration(r, ok)
  <2> DEFINE newM == [m EXCEPT !.step = "idle"]
  <2>1. /\ manager' = [manager EXCEPT ![r] = newM] /\ disk' = [disk EXCEPT ![r] = d]
        /\ served' = [served EXCEPT ![r] = served[r]] /\ bundle' = r
        /\ UNCHANGED <<starts, faults>> /\ m.step = "config"
    BY <1>4 DEF UpdateWebhookConfiguration, Outcome, TypeOK
  <2>2. /\ newM \in Manager /\ newM.step = "idle" /\ newM.serving = m.serving
        /\ newM.checked = m.checked /\ newM.left = m.left
    BY <1>0 DEF Manager
  <2> HIDE DEF newM, m, d
  <2>3. ReplicaOK(newM, d, served[r], faults)
    BY <1>0, <2>1, <2>2 DEF ReplicaOK, FilesMatch, ServedIsCurrent, InTime
  <2> QED
    BY <1>0, <2>1, <2>2, <2>3, OneReplicaQuietly
<1> QED
  BY <1>1, <1>2, <1>3, <1>4

(* The rotation loop looks, the server starts or loads its files.          *)
LEMMA ServerStep ==
  ASSUME TypeOK, RotationInv, NEW r \in Replica, Tick(r) \/ Serve(r) \/ Reload(r)
  PROVE  TypeOK' /\ RotationInv'
<1> DEFINE m == manager[r]
           d == disk[r]
<1>0. /\ m \in Manager /\ d \in Files /\ served[r] \in Cert /\ m.left \in Nat
      /\ faults \in Nat /\ ReplicaOK(m, d, served[r], faults)
      /\ bundle \in Replica \cup {Nil} /\ starts \in 0..MaxStarts
  BY Halves DEF TypeOK, RotationInv, Manager
<1>1. CASE Tick(r)
  <2> DEFINE next == IF m.left <= HalfLife THEN "mint" ELSE "idle"
             new == [m EXCEPT !.checked = TRUE, !.step = next]
  <2>1. /\ manager' = [manager EXCEPT ![r] = new] /\ disk' = [disk EXCEPT ![r] = d]
        /\ served' = [served EXCEPT ![r] = served[r]]
        /\ UNCHANGED <<bundle, starts, faults>>
        /\ m.step = "idle" /\ ~m.checked /\ m.serving
    BY <1>1 DEF Tick, ShouldRotate, TypeOK, countVars
  <2>2. /\ new \in Manager /\ new.step = next /\ new.serving = m.serving
        /\ new.checked = TRUE /\ new.left = m.left
    BY <1>0 DEF Manager
  <2> HIDE DEF new, m, d
  <2>3. FilesMatch(new, d) /\ ServedIsCurrent(new, d, served[r])
    BY <1>0, <2>1, <2>2 DEF ReplicaOK, FilesMatch, ServedIsCurrent
  <2>4. InTime(new, served[r], faults)
    BY <1>0, <2>1, <2>2, Halves DEF ReplicaOK, InTime
  <2> QED
    BY <1>0, <2>1, <2>2, <2>3, <2>4, OneReplicaQuietly DEF ReplicaOK
<1>2. CASE Serve(r)
  <2> DEFINE new == [m EXCEPT !.serving = TRUE]
  <2>1. /\ manager' = [manager EXCEPT ![r] = new] /\ disk' = [disk EXCEPT ![r] = d]
        /\ served' = [served EXCEPT ![r] = d.crt]
        /\ UNCHANGED <<bundle, starts, faults>> /\ m.step = "idle" /\ ~m.serving
    BY <1>2 DEF Serve, TypeOK, countVars
  <2>2. /\ new \in Manager /\ new.step = "idle" /\ new.serving
        /\ new.checked = m.checked /\ new.left = m.left
    BY <1>0, <2>1 DEF Manager
  <2> HIDE DEF new, m, d
  <2>3. d.paired /\ d.crt = Lifetime /\ m.left = Lifetime
    BY <1>0, <2>1 DEF ReplicaOK, FilesMatch
  <2>4. FilesMatch(new, d) /\ ServedIsCurrent(new, d, d.crt)
    BY <2>2, <2>3 DEF FilesMatch, ServedIsCurrent
  <2>5. InTime(new, d.crt, faults)
    BY <1>0, <2>2, <2>3, Halves DEF InTime
  <2>6. d.crt \in Cert
    BY <1>0 DEF Files
  <2> QED
    BY <1>0, <2>1, <2>2, <2>4, <2>5, <2>6, OneReplicaQuietly DEF ReplicaOK
<1>3. CASE Reload(r)
  <2>1. /\ manager' = [manager EXCEPT ![r] = m] /\ disk' = [disk EXCEPT ![r] = d]
        /\ served' = [served EXCEPT ![r] = d.crt]
        /\ UNCHANGED <<bundle, starts, faults>> /\ d.paired /\ m.serving
    BY <1>3 DEF Reload, TypeOK, countVars
  <2>2. m.left \in 0..Lifetime
    BY <1>0 DEF Manager
  <2> HIDE DEF m, d
  <2>3. d.crt = m.left /\ FilesMatch(m, d)
    BY <1>0, <2>1 DEF ReplicaOK, FilesMatch
  <2>4. ServedIsCurrent(m, d, d.crt) /\ InTime(m, d.crt, faults)
    BY <1>0, <2>2, <2>3, Halves DEF ReplicaOK, ServedIsCurrent, InTime
  <2>5. d.crt \in Cert
    BY <1>0 DEF Files
  <2> QED
    BY <1>0, <2>1, <2>3, <2>4, <2>5, OneReplicaQuietly DEF ReplicaOK
<1> QED
  BY <1>1, <1>2, <1>3

(* Time passes once every process has looked: a certificate in the second  *)
(* half of its life has not been replaced because of a failure.            *)
LEMMA TimeStep ==
  ASSUME TypeOK, RotationInv, TimePasses
  PROVE  TypeOK' /\ RotationInv'
<1>0. \A x \in Cert : Older(x) \in Cert /\ (x \in 0..Lifetime => Older(x) \in 0..Lifetime)
  BY Halves DEF Older, Cert
<1>1. TypeOK'
  <2>1. ASSUME NEW r \in Replica
        PROVE  /\ [manager[r] EXCEPT !.checked = FALSE, !.left = Older(manager[r].left)] \in Manager
               /\ [disk[r] EXCEPT !.crt = Older(disk[r].crt)] \in Files
               /\ Older(served[r]) \in Cert
    <3>1. manager[r] \in Manager /\ disk[r] \in Files /\ served[r] \in Cert
      BY DEF TypeOK
    <3>2. Older(manager[r].left) \in 0..Lifetime /\ Older(disk[r].crt) \in Cert
      BY <1>0, <3>1 DEF Manager, Files, Cert
    <3> QED
      BY <1>0, <3>1, <3>2 DEF Manager, Files
  <2> QED
    BY <2>1 DEF TypeOK, TimePasses, countVars
<1>2. ASSUME NEW r \in Replica
      PROVE  ReplicaOK(manager'[r], disk'[r], served'[r], faults')
  <2> DEFINE m == manager[r]
             d == disk[r]
             newM == [m EXCEPT !.checked = FALSE, !.left = Older(m.left)]
             newD == [d EXCEPT !.crt = Older(d.crt)]
  <2>1. /\ manager'[r] = newM /\ disk'[r] = newD /\ served'[r] = Older(served[r])
    <3>1. manager' = [q \in Replica |->
            [manager[q] EXCEPT !.checked = FALSE, !.left = Older(@)]]
      BY DEF TimePasses
    <3>2. manager'[r] = newM
      BY <3>1 DEF TypeOK, Manager
    <3>3. disk'[r] = newD /\ served'[r] = Older(served[r])
      BY DEF TimePasses, TypeOK, Files
    <3> QED
      BY <3>2, <3>3
  <2>0. faults' = faults /\ faults \in Nat
    <3>1. faults' = faults
      BY DEF TimePasses, countVars
    <3>2. faults \in Nat
      BY Halves DEF TypeOK
    <3> QED
      BY <3>1, <3>2
  <2>2. m \in Manager /\ d \in Files /\ served[r] \in Cert
        /\ ReplicaOK(m, d, served[r], faults)
    BY DEF TypeOK, RotationInv
  <2>3. /\ newM.step = m.step /\ newM.serving = m.serving /\ ~newM.checked
        /\ newM.left = Older(m.left) /\ newD.paired = d.paired /\ newD.crt = Older(d.crt)
    BY <2>2 DEF Manager, Files
  <2>4. \/ m.step = "off"
        \/ /\ m.serving /\ m.checked /\ m.step = "idle"
           /\ d.paired => served[r] = d.crt
    BY DEF TimePasses, Settled
  <2>5. m.left \in 0..Lifetime
    BY <2>2 DEF Manager
  <2> HIDE DEF m, d, newM, newD
  <2>6. FilesMatch(newM, newD)
    BY <2>2, <2>3, <2>4 DEF ReplicaOK, FilesMatch
  <2>7. ServedIsCurrent(newM, newD, Older(served[r]))
    BY <2>2, <2>3, <2>4 DEF ReplicaOK, FilesMatch, ServedIsCurrent
  <2>8. InTime(newM, Older(served[r]), faults)
    <3>1. CASE m.step = "off"
      BY <2>2, <2>3, <3>1 DEF ReplicaOK, FilesMatch, InTime
    <3>2. CASE m.serving /\ m.checked /\ m.step = "idle"
      <4>1. served[r] = m.left
        BY <2>2, <2>4, <3>2 DEF ReplicaOK, FilesMatch, ServedIsCurrent
      <4>2. m.left + faults > HalfLife /\ m.left > 0
        BY <2>2, <3>2 DEF ReplicaOK, InTime
      <4>3. faults < HalfLife
        BY Halves DEF TypeOK
      <4>4. Older(m.left) = m.left - 1
        BY <2>5, <4>2, Halves DEF Older
      <4>5. Older(m.left) > 0 /\ Older(m.left) + faults >= HalfLife /\ Older(m.left) # Nil
        BY <2>0, <2>5, <4>2, <4>3, <4>4, Halves
      <4> QED
        BY <2>3, <3>2, <4>1, <4>5 DEF InTime
    <3> QED
      BY <2>4, <3>1, <3>2
  <2> QED
    BY <2>0, <2>1, <2>6, <2>7, <2>8 DEF ReplicaOK
<1> QED
  BY <1>1, <1>2 DEF RotationInv

------------------------------------------------------------------------------
(* No process runs at the start.                                           *)
LEMMA CertsInitially == Init => TypeOK /\ RotationInv
BY NoProcess, Halves DEF Init, TypeOK, RotationInv

(* One step per action.                                                    *)
LEMMA CertsStep == TypeOK /\ RotationInv /\ [Next]_vars => TypeOK' /\ RotationInv'
<1> SUFFICES ASSUME TypeOK, RotationInv, [Next]_vars PROVE TypeOK' /\ RotationInv'
  OBVIOUS
<1>1. ASSUME NEW r \in Replica, Process(r) PROVE TypeOK' /\ RotationInv'
  BY <1>1, MintStep, ServerStep DEF Process
<1>2. ASSUME NEW r \in Replica, Stop(r) PROVE TypeOK' /\ RotationInv'
  <2>1. End(r) /\ starts' = starts /\ faults' = faults
    BY <1>2 DEF Stop, countVars
  <2>2. faults' \in 0..MaxFaults /\ faults =< faults'
    BY <2>1, Halves DEF TypeOK
  <2> QED
    BY <2>1, <2>2, EndStep
<1>3. CASE Recreate
  <2>1. /\ UNCHANGED <<manager, disk, served, starts>> /\ bundle' = Nil
        /\ faults' = faults + 1 /\ faults' \in 0..MaxFaults /\ faults \in Nat
    BY <1>3, Halves DEF Recreate, Fault, TypeOK
  <2>2. ASSUME NEW r \in Replica
        PROVE  ReplicaOK(manager[r], disk[r], served[r], faults')
    <3>1. ReplicaOK(manager[r], disk[r], served[r], faults) /\ manager[r].left \in Nat
      BY Halves DEF RotationInv, TypeOK, Manager
    <3> QED
      BY <2>1, <3>1, Halves DEF ReplicaOK, InTime
  <2> QED
    BY <2>1, <2>2 DEF TypeOK, RotationInv
<1>4. CASE TimePasses
  BY <1>4, TimeStep
<1>5. CASE UNCHANGED vars
  BY <1>5 DEF vars, TypeOK, RotationInv
<1> QED
  BY <1>1, <1>2, <1>3, <1>4, <1>5, StartStep DEF Next

(* No server ever presents an expired certificate: not after failures in   *)
(* the middle of a rotation, not while its files do not fit each other,    *)
(* and whatever other processes do to the configuration.                   *)
THEOREM CertsSafe == Spec => []NeverExpired
<1>1. RotationInv => NeverExpired
  BY DEF RotationInv, ReplicaOK, InTime, NeverExpired
<1> QED
  BY <1>1, CertsInitially, CertsStep, PTL DEF Spec

=============================================================================
