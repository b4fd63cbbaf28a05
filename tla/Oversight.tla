------------------------------ MODULE Oversight ------------------------------
(***************************************************************************)
(* What administrators and moderators see and decide: the abuse detector    *)
(* (internal/security), the administrator's handlers over it and over the   *)
(* settings (internal/admin), and the reports with their automatic triage   *)
(* (tunnel/report.go, internal/moderation, the reports and sync tables).    *)
(*                                                                          *)
(* Every operation of the detector holds its mutex throughout; the review   *)
(* of a threat is two of them.  A moderator's action waits for the triage   *)
(* between its checks and its one UPDATE.                                   *)
(*                                                                          *)
(* Left out: what only is shown (evidence, screenshots, descriptions,       *)
(* counts, lists), and the settings but for one number and one switch;      *)
(* nothing reads either of them.                                            *)
(***************************************************************************)
EXTENDS Integers, Sequences, FiniteSets

CONSTANTS VMs, NoVM,
          Metrics,        \* what hosts report of a VM
          Reviewers,      \* administrators and moderators at work
          Reports,
          Suggestions,    \* what the model of LLMModerator may answer
          Domains,
          MaxThreats      \* bound of the threats recorded

ASSUME OversightAssumption == NoVM \notin VMs /\ "" \notin Domains /\ MaxThreats \in Nat

VARIABLES
  vmStates,      \* SecurityDetector.vmStates: state, or "unknown"
  threats,       \* SecurityDetector.threats, oldest first
  aiActive,      \* AIModerationActive
  ordered,       \* history: the last order an administrator gave for the VM
  reviewing,     \* [Reviewers -> the VM its review is about to resume]
  reports,       \* the rows of reports
  acting,        \* [Reviewers -> the action whose triage it waits for]
  syncs,         \* rows of personalization_sync_requests: pending, approved
  domain,        \* AdminManager.autoDetectDomain
  detecting,     \* [Reviewers -> the host a request is about to store]
  settings       \* AdminManager.systemSettings

detectorVars == <<vmStates, threats, aiActive, ordered, reviewing>>
reportVars == <<reports, acting, syncs>>
adminVars == <<domain, detecting, settings>>
oversightVars == <<detectorVars, reportVars, adminVars>>

(***************************************************************************)
(* The detector.                                                            *)
(***************************************************************************)
threatScore(m) ==
  (IF m.cpu > 90 /\ m.network > 50 THEN 30 ELSE 0)
  + (IF m.gpu > 85 /\ m.network > 100 THEN 25 ELSE 0)
  + (IF m.cpu > 70 /\ m.network > 200 THEN 35 ELSE 0)
  + (IF m.processes > 500 THEN 10 ELSE 0)

threat(vm, level) == [vm |-> vm, level |-> level]

\* A threat below the critical level flags a VM that was paused.
record(vm, level) ==
  /\ Len(threats) < MaxThreats
  /\ threats' = Append(threats, threat(vm, level))
  /\ vmStates' = [vmStates EXCEPT ![vm] = IF level = "critical" THEN "paused" ELSE "flagged"]
  /\ aiActive' = TRUE

\* Mutant: a quiet report clears the VM.
ClearedByQuiet(vm, m) ==
  LET score == threatScore(m) IN
  /\ \/ score >= 70 /\ record(vm, "critical")
     \/ score \in 50..69 /\ record(vm, "high")
     \/ score < 50 /\ vmStates' = [vmStates EXCEPT ![vm] = "clean"] /\ UNCHANGED <<threats, aiActive>>
  /\ UNCHANGED <<ordered, reviewing>>

AnalyzeMetrics(vm, m) ==
  LET score == threatScore(m) IN
  /\ \/ score >= 70 /\ record(vm, "critical")
     \/ score \in 50..69 /\ record(vm, "high")
     \/ /\ score < 50
        /\ vmStates' = [vmStates EXCEPT ![vm] = IF @ = "unknown" THEN "clean" ELSE @]
        /\ UNCHANGED <<threats, aiActive>>
  /\ UNCHANGED <<ordered, reviewing>>

\* kind: that of the first process in the list that is on one of the lists
\* of names.  A VM that never sent metrics is not looked at.
AnalyzeProcessList(vm, kind) ==
  /\ vmStates[vm] # "unknown"
  /\ record(vm, IF kind = "miner" THEN "critical" ELSE "high")
  /\ UNCHANGED <<ordered, reviewing>>

\* A threat of a user, not of a VM.
AnalyzeTraffic ==
  /\ Len(threats) < MaxThreats
  /\ threats' = Append(threats, threat(NoVM, "medium"))
  /\ aiActive' = TRUE
  /\ UNCHANGED <<vmStates, ordered, reviewing>>

handleHostMetrics(vm, m) == AnalyzeMetrics(vm, m)
ReportMetrics(vm, m) == AnalyzeMetrics(vm, m)
ReportProcess(vm, kind) == AnalyzeProcessList(vm, kind)

PauseVM(vm) ==
  /\ vmStates' = [vmStates EXCEPT ![vm] = "paused"]
  /\ ordered' = [ordered EXCEPT ![vm] = "pause"]
  /\ UNCHANGED <<threats, aiActive, reviewing>>

ResumeVM(vm) ==
  /\ vmStates' = [vmStates EXCEPT ![vm] = IF @ = "unknown" THEN @ ELSE "clean"]
  /\ ordered' = [ordered EXCEPT ![vm] = "resume"]

AdminResumeVM(vm) == ResumeVM(vm) /\ UNCHANGED <<threats, aiActive, reviewing>>

\* The verdict and the action stored with the threat are only shown.
ReviewThreat(a, n, resume) ==
  /\ n \in 1..Len(threats) /\ reviewing[a] = NoVM
  /\ reviewing' = [reviewing EXCEPT ![a] = IF resume THEN threats[n].vm ELSE NoVM]
  /\ UNCHANGED <<vmStates, threats, aiActive, ordered>>

\* What came in since the review is resumed with it.
ResumeReviewed(a) ==
  /\ reviewing[a] # NoVM
  /\ ResumeVM(reviewing[a])
  /\ reviewing' = [reviewing EXCEPT ![a] = NoVM]
  /\ UNCHANGED <<threats, aiActive>>

(***************************************************************************)
(* Reports.                                                                 *)
(***************************************************************************)
NoReport == [status |-> "none", reviewer |-> NoVM, action |-> ""]
NoAction == [report |-> NoVM, action |-> "", triaged |-> FALSE]

reportActionStatus(action) ==
  CASE action = "warn" -> "warned" [] action = "ban" -> "banned" [] action = "pause" -> "paused"
    [] action = "resolve" -> "resolved" [] action = "ignore" -> "ignored"

CreateReport(r) ==
  /\ reports[r] = NoReport
  /\ reports' = [reports EXCEPT ![r].status = "pending"]
  /\ UNCHANGED <<acting, syncs>>

\* Neither whether the report exists nor what was decided before is looked at.
BeginAction(a, r, action) ==
  /\ acting[a] = NoAction
  /\ acting' = [acting EXCEPT ![a] = [report |-> r, action |-> action, triaged |-> aiActive]]
  /\ UNCHANGED <<reports, syncs>>

\* The text given to the triage is made of the action's name, and no name of
\* an action holds one of the heuristic's words: it always says ignore.
HeuristicTriage == {"ignore"}

\* Any failure falls back to the heuristic.
LLMTriage == Suggestions \cup HeuristicTriage

decisions(call) ==
  IF call.triaged THEN {IF suggestion = "ignore" THEN call.action ELSE suggestion : suggestion \in LLMTriage}
  ELSE {call.action}

\* An UPDATE of a row that does not exist is no error.
UpdateReport(a) ==
  LET call == acting[a] IN
  /\ call # NoAction
  /\ \E decision \in decisions(call) :
       reports' = IF reports[call.report] = NoReport THEN reports
                  ELSE [reports EXCEPT ![call.report] =
                          [status |-> reportActionStatus(call.action), reviewer |-> a, action |-> decision]]
  /\ acting' = [acting EXCEPT ![a] = NoAction]
  /\ UNCHANGED syncs

CreateSyncRequest == syncs = "none" /\ syncs' = "pending" /\ UNCHANGED <<reports, acting>>
ApproveSyncRequest ==
  /\ syncs' = IF syncs = "none" THEN syncs ELSE "approved"
  /\ UNCHANGED <<reports, acting>>

(***************************************************************************)
(* The domain and the settings.                                             *)
(***************************************************************************)
AutoDetectDomain(a, d) ==
  /\ domain = "" /\ detecting[a] = ""
  /\ detecting' = [detecting EXCEPT ![a] = d]
  /\ UNCHANGED <<domain, settings>>

StoreDetected(a) ==
  /\ detecting[a] # ""
  /\ domain' = IF domain = "" THEN detecting[a] ELSE domain
  /\ detecting' = [detecting EXCEPT ![a] = ""]
  /\ UNCHANGED settings

\* Zero, the empty string and a missing switch leave a setting as it is.
UpdateSettings(d, users, switch) ==
  /\ domain' = IF d = "" THEN domain ELSE d
  /\ settings' = [users |-> IF users > 0 THEN users ELSE settings.users,
                  detection |-> IF switch = {} THEN settings.detection ELSE switch = {TRUE}]
  /\ UNCHANGED detecting

Settings(d, users, switch) == UpdateSettings(d, users, switch)

(***************************************************************************)
(* The specification.                                                       *)
(***************************************************************************)
OversightInit ==
  /\ vmStates = [vm \in VMs |-> "unknown"] /\ threats = << >> /\ aiActive = FALSE
  /\ ordered = [vm \in VMs |-> "none"] /\ reviewing = [a \in Reviewers |-> NoVM]
  /\ reports = [r \in Reports |-> NoReport] /\ acting = [a \in Reviewers |-> NoAction]
  /\ syncs = "none"
  /\ domain = "" /\ detecting = [a \in Reviewers |-> ""]
  /\ settings = [users |-> 100, detection |-> TRUE]

DetectorStep ==
  \/ \E vm \in VMs, m \in Metrics : handleHostMetrics(vm, m) \/ ReportMetrics(vm, m)
  \/ \E vm \in VMs, kind \in {"miner", "tool"} : ReportProcess(vm, kind)
  \/ \E vm \in VMs : PauseVM(vm) \/ AdminResumeVM(vm)
  \/ AnalyzeTraffic
  \/ \E a \in Reviewers, n \in 1..MaxThreats, resume \in BOOLEAN : ReviewThreat(a, n, resume)
  \/ \E a \in Reviewers : ResumeReviewed(a)

ReportStep ==
  \/ \E r \in Reports : CreateReport(r)
  \/ \E a \in Reviewers, r \in Reports, action \in {"warn", "ban", "resolve"} : BeginAction(a, r, action)
  \/ \E a \in Reviewers : UpdateReport(a)
  \/ CreateSyncRequest \/ ApproveSyncRequest

AdminStep ==
  \/ \E a \in Reviewers : StoreDetected(a) \/ \E d \in Domains : AutoDetectDomain(a, d)
  \/ \E d \in Domains \cup {""}, users \in {0, 200}, switch \in SUBSET BOOLEAN :
       Cardinality(switch) <= 1 /\ Settings(d, users, switch)

DetectorNext == DetectorStep /\ UNCHANGED <<reportVars, adminVars>>
ReportsNext == ReportStep /\ UNCHANGED <<detectorVars, adminVars>>
AdminNext == AdminStep /\ UNCHANGED <<detectorVars, reportVars>>

OversightNext == DetectorNext \/ ReportsNext \/ AdminNext

OversightSpec == OversightInit /\ [][OversightNext]_oversightVars

(***************************************************************************)
(* Properties.                                                              *)
(***************************************************************************)
\* What the detector says of a VM can be accounted for: it is paused by an
\* administrator's order or for a critical threat somebody can review, flagged
\* for a milder one, and clean, once it was neither, by an order only: no quiet
\* report and no review of another VM's threat clears it
\* (detector.go:139-203, 221-253, 292-314; admin.go:384-387).
StateIsExplained ==
  \A vm \in VMs :
    LET levels == {threats[n].level : n \in {k \in 1..Len(threats) : threats[k].vm = vm}} IN
    /\ vmStates[vm] = "paused" => ordered[vm] = "pause" \/ "critical" \in levels
    /\ vmStates[vm] = "flagged" => "high" \in levels
    /\ vmStates[vm] = "clean" => ordered[vm] = "resume" \/ (levels = {} /\ ordered[vm] = "none")

\* What a report says was done is what the moderator who closed it asked for, or
\* what the model suggested to that moderator, which it does only after the
\* first threat; a triage that says ignore, as the heuristic does and every
\* failure of the model ends in, never takes the moderator's action away
\* (report.go:140-152, moderation.go).
DecisionIsTheModerators ==
  \A r \in Reports : reports[r].status \notin {"none", "pending"} =>
    \/ reports[r].status = reportActionStatus(reports[r].action)
    \/ threats # << >> /\ reports[r].action \in Suggestions \ {"ignore"}

\* A domain once known is never replaced by a detected one, whichever requests
\* looked before it was known ("Recheck under write lock in case another
\* goroutine wrote it first", admin.go:182).
DetectionNeverReplaces ==
  [][domain # "" /\ domain' # domain => detecting' = detecting]_adminVars

\* Whatever the gateway says of a VM, a report or its domain, somebody or
\* something it still knows of said so first.
VerdictsExplained ==
  [](StateIsExplained /\ DecisionIsTheModerators) /\ DetectionNeverReplaces

=============================================================================
