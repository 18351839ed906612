---------------------------- MODULE WebhookCerts ----------------------------
(***************************************************************************)
(* The certificates of the finalizer webhooks                              *)
(* (pkg/webhookmanager/finalizer_webhook_manager.go).  Each process mints  *)
(* a CA of its own when it starts, signs the certificate of its webhook    *)
(* server with it, replaces that certificate at half its lifetime, and     *)
(* writes its CA into the one MutatingWebhookConfiguration of the cluster. *)
(* cmd/main.go does so before it takes part in any election, so that       *)
(* during a rolling update two processes write the same configuration.     *)
(*                                                                         *)
(* Time is counted in fractions of a certificate's lifetime, as what is    *)
(* left of each certificate.  Everything but waiting for a certificate to  *)
(* age takes seconds: time passes only when each process has checked       *)
(* whether to rotate and has nothing else to do.  The CA, which lasts for  *)
(* 365 days and is not replaced, does not expire here.                     *)
(***************************************************************************)
EXTENDS Integers, FiniteSets

CONSTANTS
  Nil,          \* absent
  Replica,      \* processes of the registrar
  Lifetime,     \* of a certificate: 24 hours
  MaxStarts,    \* bound on starts of processes
  MaxFaults     \* bound on failed steps and on foreign writes

HalfLife == Lifetime \div 2

(* Failures are rarer than the attempts that fit between the time to       *)
(* rotate and the end of the certificate.                                  *)
ASSUME CertsAssumption ==
  /\ Lifetime \in Nat \ {0} /\ MaxStarts \in Nat
  /\ MaxFaults \in Nat /\ MaxFaults < HalfLife
  /\ Nil \notin 0..Lifetime

VARIABLES
  manager,   \* Replica -> [step, serving, checked, left]
  disk,      \* Replica -> [crt, paired]: tls.crt, and whether tls.key fits it
  served,    \* Replica -> what is left of the certificate its server presents
  bundle,    \* whose CA the webhook configuration trusts, Nil if no process has it
  starts, faults

vars == <<manager, disk, served, bundle, starts, faults>>
countVars == <<starts, faults>>

(* left: until certificateExpiry; serving: the webhook server is up;       *)
(* checked: the rotation loop has looked since time last passed.           *)
Off == [step |-> "off", serving |-> FALSE, checked |-> FALSE, left |-> 0]
NoFiles == [crt |-> Nil, paired |-> FALSE]

Init ==
  /\ manager = [r \in Replica |-> Off]
  /\ disk = [r \in Replica |-> NoFiles]
  /\ served = [r \in Replica |-> Nil]
  /\ bundle = Nil
  /\ starts = 0 /\ faults = 0

Fault == faults < MaxFaults /\ faults' = faults + 1
Outcome(ok) == IF ok THEN UNCHANGED faults ELSE Fault

-----------------------------------------------------------------------------
(* Start, up to generateCA: a new CA, in a process with an empty           *)
(* directory.                                                              *)
Start(r) ==
  /\ manager[r].step = "off" /\ starts < MaxStarts
  /\ starts' = starts + 1
  /\ manager' = [manager EXCEPT ![r] = [Off EXCEPT !.step = "mint"]]
  /\ UNCHANGED <<disk, served, bundle, faults>>

(* The process ends, and what it had is gone.                              *)
End(r) ==
  /\ manager' = [manager EXCEPT ![r] = Off]
  /\ disk' = [disk EXCEPT ![r] = NoFiles]
  /\ served' = [served EXCEPT ![r] = Nil]
  /\ bundle' = IF bundle = r THEN Nil ELSE bundle

(* An error ends main during Start; the rotation loop logs it and waits    *)
(* for its next tick.                                                      *)
Failed(r) ==
  IF manager[r].serving
    THEN /\ manager' = [manager EXCEPT ![r].step = "idle"]
         /\ UNCHANGED <<served, bundle>>
    ELSE End(r)

(* Mutant: certificateExpiry is set before the files are written.          *)
WriteCertExpiryFirst(r, ok) ==
  /\ manager[r].step = "mint" /\ Outcome(ok)
  /\ IF ok
       THEN /\ disk' = [disk EXCEPT ![r] = [crt |-> Lifetime, paired |-> FALSE]]
            /\ manager' = [manager EXCEPT ![r].step = "key", ![r].left = Lifetime]
            /\ UNCHANGED <<served, bundle>>
       ELSE /\ Failed(r)
            /\ manager[r].serving =>
                 disk' \in {disk, [disk EXCEPT ![r] = NoFiles]}
  /\ UNCHANGED starts

(* MintCertificate: a new key, a certificate signed with the CA, tls.crt   *)
(* truncated and written.  A failure may leave it as it was or spoilt.     *)
WriteCert(r, ok) ==
  /\ manager[r].step = "mint" /\ Outcome(ok)
  /\ IF ok
       THEN /\ disk' = [disk EXCEPT ![r] = [crt |-> Lifetime, paired |-> FALSE]]
            /\ manager' = [manager EXCEPT ![r].step = "key"]
            /\ UNCHANGED <<served, bundle>>
       ELSE /\ Failed(r)
            /\ manager[r].serving =>
                 disk' \in {disk, [disk EXCEPT ![r] = NoFiles]}
  /\ UNCHANGED starts

(* Then tls.key, and certificateExpiry at last.                            *)
WriteKey(r, ok) ==
  /\ manager[r].step = "key" /\ Outcome(ok)
  /\ IF ok
       THEN /\ disk' = [disk EXCEPT ![r].paired = TRUE]
            /\ manager' = [manager EXCEPT ![r].step = "config", ![r].left = Lifetime]
            /\ UNCHANGED <<served, bundle>>
       ELSE Failed(r) /\ (manager[r].serving => UNCHANGED disk)
  /\ UNCHANGED starts

(* Mutant: the rotation leaves the configuration alone.                    *)
UpdateAtStartOnly(r, ok) ==
  /\ manager[r].step = "config" /\ Outcome(ok)
  /\ IF ok
       THEN /\ bundle' = IF manager[r].serving THEN bundle ELSE r
            /\ manager' = [manager EXCEPT ![r].step = "idle"]
            /\ UNCHANGED <<disk, served>>
       ELSE Failed(r) /\ (manager[r].serving => UNCHANGED disk)
  /\ UNCHANGED starts

(* A rotation whose update fails is over nevertheless: the next attempt    *)
(* comes with the next rotation.                                           *)
UpdateWebhookConfiguration(r, ok) ==
  /\ manager[r].step = "config" /\ Outcome(ok)
  /\ IF ok
       THEN /\ bundle' = r
            /\ manager' = [manager EXCEPT ![r].step = "idle"]
            /\ UNCHANGED <<disk, served>>
       ELSE Failed(r) /\ (manager[r].serving => UNCHANGED disk)
  /\ UNCHANGED starts

ShouldRotate(r) == manager[r].left <= HalfLife

(* The tick of rotationLoop, every 30 seconds.                             *)
Tick(r) ==
  /\ manager[r].serving /\ manager[r].step = "idle" /\ ~manager[r].checked
  /\ manager' = [manager EXCEPT ![r].checked = TRUE,
                                ![r].step = IF ShouldRotate(r) THEN "mint" ELSE "idle"]
  /\ UNCHANGED <<disk, served, bundle, countVars>>

(* main waits for the certificate and starts the server with it.           *)
Serve(r) ==
  /\ manager[r].step = "idle" /\ ~manager[r].serving
  /\ manager' = [manager EXCEPT ![r].serving = TRUE]
  /\ served' = [served EXCEPT ![r] = disk[r].crt]
  /\ UNCHANGED <<disk, bundle, countVars>>

(* The server reloads the files when they have changed; it keeps what it   *)
(* has as long as they do not fit each other.                              *)
Reload(r) ==
  /\ manager[r].serving /\ disk[r].paired /\ served[r] # disk[r].crt
  /\ served' = [served EXCEPT ![r] = disk[r].crt]
  /\ UNCHANGED <<manager, disk, bundle, countVars>>

-----------------------------------------------------------------------------
Stop(r) ==
  /\ manager[r].step # "off"
  /\ End(r)
  /\ UNCHANGED countVars

(* The configuration is created anew, without a bundle.                    *)
Recreate == bundle # Nil /\ bundle' = Nil /\ Fault /\ UNCHANGED <<manager, disk, served, starts>>

Older(left) == IF left = Nil \/ left = 0 THEN left ELSE left - 1

Settled(r) ==
  \/ manager[r].step = "off"
  \/ /\ manager[r].serving /\ manager[r].checked /\ manager[r].step = "idle"
     /\ disk[r].paired => served[r] = disk[r].crt

TimePasses ==
  /\ \A r \in Replica : Settled(r)
  /\ manager' = [r \in Replica |-> [manager[r] EXCEPT
       !.checked = FALSE, !.left = Older(@)]]
  /\ disk' = [r \in Replica |-> [disk[r] EXCEPT !.crt = Older(@)]]
  /\ served' = [r \in Replica |-> Older(served[r])]
  /\ UNCHANGED <<bundle, countVars>>

Process(r) ==
  \/ \E ok \in BOOLEAN :
       WriteCert(r, ok) \/ WriteKey(r, ok) \/ UpdateWebhookConfiguration(r, ok)
  \/ Tick(r) \/ Serve(r) \/ Reload(r)

Next ==
  \/ \E r \in Replica : Start(r) \/ Process(r) \/ Stop(r)
  \/ Recreate \/ TimePasses

Spec == Init /\ [][Next]_vars

(* A process keeps running, its ticker and its file watcher included, and  *)
(* time passes.  Processes need not start or stop.                         *)
FairSpec == Spec /\ WF_vars(TimePasses) /\ \A r \in Replica : WF_vars(Process(r))

-----------------------------------------------------------------------------
Manager == [step : {"off", "mint", "key", "config", "idle"},
            serving : BOOLEAN, checked : BOOLEAN, left : 0..Lifetime]
Cert == (0..Lifetime) \cup {Nil}
Files == [crt : Cert, paired : BOOLEAN]

TypeOK ==
  /\ manager \in [Replica -> Manager]
  /\ disk \in [Replica -> Files]
  /\ served \in [Replica -> Cert]
  /\ bundle \in Replica \cup {Nil}
  /\ starts \in 0..MaxStarts /\ faults \in 0..MaxFaults

(* Files that fit each other hold the certificate certificateExpiry is     *)
(* about; a rotation begins with a new one on disk.                        *)
FilesMatch(m, d) ==
  /\ d.paired => d.crt = m.left
  /\ m.step = "key" => d.crt = Lifetime /\ ~d.paired
  /\ m.step = "off" => ~m.serving /\ ~d.paired
  /\ ~m.serving /\ m.step \in {"config", "idle"} => d.paired /\ m.left = Lifetime

(* The server presents the certificate certificateExpiry is about, but for *)
(* the moment in which it has yet to load a new one.                       *)
ServedIsCurrent(m, d, cert) ==
  m.serving =>
    /\ m.step # "idle" => m.checked
    /\ cert = m.left \/ (d.paired /\ m.checked /\ m.step \in {"config", "idle"})

(* Of the second half of a certificate's life, no more is used up than     *)
(* there were failures; one more of it is left once the rotation has been  *)
(* tried.                                                                  *)
InTime(m, cert, fails) ==
  m.serving =>
    /\ m.left > 0 /\ cert # Nil /\ cert > 0
    /\ m.left + fails >= HalfLife
    /\ m.step = "config" \/ (m.step = "idle" /\ m.checked) => m.left + fails > HalfLife

ReplicaOK(m, d, cert, fails) ==
  FilesMatch(m, d) /\ ServedIsCurrent(m, d, cert) /\ InTime(m, cert, fails)

RotationInv ==
  \A r \in Replica : ReplicaOK(manager[r], disk[r], served[r], faults)

(* No server presents an expired certificate: a rotation that fails in the *)
(* middle, with files that do not fit each other, is repeated early enough *)
(* (certificateExpiry is that of a certificate the server can load).       *)
NeverExpired == \A r \in Replica : manager[r].serving => served[r] > 0

(* A process that remains the only one gets its CA into the configuration  *)
(* for good, whatever another process or a user has written there before   *)
(* and although it looks at the configuration only when it rotates.        *)
BundleFollows ==
  \A r \in Replica :
    <>[]({q \in Replica : manager[q].step # "off"} = {r}) => <>[](bundle = r)

=============================================================================
