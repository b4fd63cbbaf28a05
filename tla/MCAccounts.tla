----------------------------- MODULE MCAccounts -----------------------------
(***************************************************************************)
(* Instances of Accounts, UserStorage and Oversight for TLC, explored side  *)
(* by side, one of them from the start: their product says no more, for     *)
(* files are one user's, the operations on users do not look at them, and   *)
(* what is overseen is VMs and reports.  Of the detector the reports see    *)
(* only that it recorded a threat.                                          *)
(***************************************************************************)
EXTENDS UserStorage, Oversight, TLC

CONSTANTS u1, u2, t1, t2, f1, f2, i1, i2

MCUids == {u1, u2}
MCTokens == {t1, t2}
MCPaths == {f1, f2}
MCUploads == {i1, i2}
MCSymmetry == Permutations(MCTokens) \cup Permutations(MCPaths)
              \cup Permutations(MCUploads)

MCMetrics ==
  {[cpu |-> 95, gpu |-> 10, network |-> 60, processes |-> 1],
   [cpu |-> 75, gpu |-> 90, network |-> 250, processes |-> 1],
   [cpu |-> 95, gpu |-> 10, network |-> 250, processes |-> 501]}

VARIABLE part
allVars == <<storageVars, oversightVars, part>>

NoFiles ==
  /\ files = [p \in Paths |-> NoFile] /\ disk = [p \in Paths |-> NoFile]
  /\ upload = [i \in Uploads |-> NoUpload] /\ removal = NoRemoval
  /\ begun = 0 /\ refused = [path |-> NoFile, size |-> 0] /\ drifted = TRUE

MCInit ==
  /\ \/ part \in {"accounts", "detector", "reports", "admin"} /\ Init /\ NoFiles
     \/ part = "storage" /\ StorageInit
  /\ OversightInit

MCNext ==
  /\ \/ part = "accounts" /\ Next /\ UNCHANGED <<fileVars, oversightVars>>
     \/ part = "storage" /\ StorageNext /\ UNCHANGED oversightVars
     \/ part = "detector" /\ DetectorNext /\ UNCHANGED storageVars
     \/ part = "reports" /\ UNCHANGED storageVars
        /\ (ReportsNext \/ (AnalyzeTraffic /\ UNCHANGED <<reportVars, adminVars>>))
     \/ part = "admin" /\ AdminNext /\ UNCHANGED storageVars
  /\ UNCHANGED part

MCSpec == MCInit /\ [][MCNext]_allVars
=============================================================================
