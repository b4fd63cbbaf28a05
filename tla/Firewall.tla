------------------------------ MODULE Firewall ------------------------------
(***************************************************************************)
(* The gateway's firewall rules and security groups                         *)
(* (internal/firewall/firewall.go).  Every method holds the manager's       *)
(* mutex; a change that is refused half way keeps what it did before.       *)
(* Nothing in the gateway calls Evaluate or RemoveGroupFromVM.              *)
(***************************************************************************)
EXTENDS Integers, SequencesExt, FiniteSets

CONSTANTS Moderators, RuleAdmins,   \* callers, and those of them who are admins
          NumShared,     \* number of seeded rules
          MaxRules,      \* bound of the rules there ever are
          SecurityGroups,
          RuleLists,     \* the rules a group is created with; 0 is no rule's id
          VMs, NoRule, NoGroup

\* A rule as it is stored; "" owns the seeded ones, "bogus" stands for any
\* other text as its action.
Rule == [owner : Moderators \cup {""}, action : {"allow", "deny", "bogus"}, enabled : BOOLEAN,
         priority : Int]

ASSUME FirewallAssumption ==
  /\ RuleAdmins \subseteq Moderators /\ "" \notin Moderators
  /\ NoRule \notin Rule /\ NumShared \in Nat /\ MaxRules \in Nat /\ RuleLists \subseteq Seq(0..MaxRules)

VARIABLES
  rules,       \* [1..MaxRules -> Rule, or NoRule]
  rulesMade,   \* number of rules there were; a rule's id is its number
  groups,      \* [SecurityGroups -> SecurityGroup, or NoGroup]
  caller       \* history: who made the last call

firewallVars == <<rules, rulesMade, groups, caller>>
RuleIds == 1..MaxRules

\* The seeded rules belong to nobody; "bogus" is any other text.
seedDefaults ==
  [i \in RuleIds |->
     IF i <= NumShared THEN [owner |-> "", action |-> "allow", enabled |-> TRUE, priority |-> 100]
     ELSE NoRule]

\* The request says whether the rule is enabled; its owner is the caller.
CreateRule(u, action, enabled, priority) ==
  /\ rulesMade < MaxRules /\ rulesMade' = rulesMade + 1
  /\ rules' = [rules EXCEPT ![rulesMade'] =
       [owner |-> u, action |-> IF action = "" THEN "allow" ELSE action,
        enabled |-> enabled, priority |-> IF priority = 0 THEN 500 ELSE priority]]
  /\ UNCHANGED groups

\* Mutant: the shared rules are everybody's.
mayChangeShared(u, i) == u \in RuleAdmins \/ rules[i].owner \in {"", u}

mayChange(u, i) == u \in RuleAdmins \/ rules[i].owner = u

\* Fields are set one after another, "" is an action not given; a bad one ends
\* it.
UpdateRule(u, i, update) ==
  LET switched == [rules[i] EXCEPT !.enabled = update.enabled]
      action == IF update.action = "" THEN rules[i].action ELSE update.action
  IN
  /\ rules[i] # NoRule /\ mayChange(u, i)
  /\ rules' = [rules EXCEPT ![i] =
       IF update.action \notin {"", "allow", "deny"} THEN switched
       ELSE [switched EXCEPT !.action = action, !.priority = update.priority]]
  /\ UNCHANGED <<rulesMade, groups>>

without(list, i) ==
  LET at == {n \in DOMAIN list : list[n] = i} IN IF at = {} THEN list ELSE RemoveAt(list, Min(at))

\* Of a group that lists the rule twice, one of the two goes.
DeleteRule(u, i) ==
  /\ rules[i] # NoRule /\ mayChange(u, i)
  /\ rules' = [rules EXCEPT ![i] = NoRule]
  /\ groups' = [g \in SecurityGroups |->
                  IF groups[g] = NoGroup THEN NoGroup ELSE [groups[g] EXCEPT !.rules = without(@, i)]]
  /\ UNCHANGED rulesMade

\* A group lists what it was created with, rules that do not exist included.
CreateGroup(u, g, list, owner) ==
  /\ groups[g] = NoGroup /\ \A n \in DOMAIN list : list[n] <= rulesMade
  /\ groups' = [groups EXCEPT ![g] =
       [owner |-> IF u \notin RuleAdmins \/ owner = "" THEN u ELSE owner, rules |-> list, vms |-> {},
        once |-> {i \in RuleIds : rules[i] # NoRule /\ Cardinality({n \in DOMAIN list : list[n] = i}) = 1}]]
  /\ UNCHANGED <<rules, rulesMade>>

AssignGroupToVM(g, vm) ==
  /\ groups[g] # NoGroup
  /\ groups' = [groups EXCEPT ![g].vms = @ \cup {vm}]
  /\ UNCHANGED <<rules, rulesMade>>

\* A caller's own and the shared ones; an admin sees all.
ListRules(u) ==
  {i \in RuleIds : rules[i] # NoRule /\ (u \in RuleAdmins \/ rules[i].owner \in {"", u})}

FirewallInit ==
  /\ rules = seedDefaults /\ rulesMade = NumShared
  /\ groups = [g \in SecurityGroups |-> NoGroup]
  /\ caller = ""

Called(u) ==
  /\ \/ \E action \in {"", "bogus"}, enabled \in BOOLEAN, priority \in {0, 1} :
          CreateRule(u, action, enabled, priority)
     \/ \E i \in RuleIds :
          \/ \E update \in [enabled : {FALSE}, action : {"", "deny", "bogus"}, priority : {1}] : UpdateRule(u, i, update)
          \/ DeleteRule(u, i)
     \/ \E g \in SecurityGroups :
          \/ \E list \in RuleLists, owner \in {""} \cup Moderators : CreateGroup(u, g, list, owner)
          \/ \E vm \in VMs : AssignGroupToVM(g, vm)
  /\ caller' = u

FirewallNext == \E u \in Moderators : Called(u)

FirewallSpec == FirewallInit /\ [][FirewallNext]_firewallVars

\* "Shared default rules (empty UserID) may only be edited by an admin"
\* (firewall.go:197-199): no call of somebody else changes or removes a rule
\* that is shared or another's, a call refused half way included; and a rule
\* that changes was one the caller is shown.
OthersRulesStay ==
  [][\A i \in RuleIds :
       rules[i] # NoRule /\ rules'[i] # rules[i]
         => /\ caller' \in RuleAdmins \/ rules[i].owner = caller'
            /\ i \in ListRules(caller')]_firewallVars

\* No group lists a rule that was deleted, if the rule was there when the group
\* was created and listed once (firewall.go:255-264).
GroupsFollowDeletion ==
  \A g \in SecurityGroups :
    groups[g] # NoGroup => \A i \in groups[g].once : rules[i] = NoRule => i \notin ToSet(groups[g].rules)

\* Rules are changed by who may, and deleted everywhere.
RulesKept == []GroupsFollowDeletion /\ OthersRulesStay

=============================================================================
