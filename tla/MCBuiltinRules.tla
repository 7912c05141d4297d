---------------------------- MODULE MCBuiltinRules ---------------------------
(***************************************************************************)
(* TLC instances of BuiltinRules: the policy that rules.py and             *)
(* docs/policy-model.md give as their example, in every order and with an  *)
(* action rule added.                                                      *)
(***************************************************************************)
EXTENDS BuiltinRules, TLC

CONSTANTS write, read, operator, admin, hvac, device, zone

MCActions == {write, read}
MCRoles == {operator, admin}
MCTypes == {hvac, device}

\* Tokens: no roles; one role, plain or padded; both among noise; a role that is
\* not in a list; and one without a usable sub.
Token(sub, shape, roles) == [sub |-> sub, name |-> "text", shape |-> shape, roles |-> roles]
Bare == Token("text", "list", <<>>)
Plain == Token("text", "list", <<Item("name", operator)>>)
Padded == Token("text", "list", <<Item("padded", operator)>>)
Noisy == Token("text", "list", <<Item("name", admin), Item("other", operator),
                                 Item("blank", operator), Item("padded", admin)>>)
Misfiled == Token("text", "notAList", <<Item("name", operator)>>)
Anonymous == Token("blank", "list", <<Item("name", operator)>>)
MCPayloads == {Bare, Plain, Padded, Noisy, Misfiled, Anonymous}

\* "hvac:zone", "device:zone" and "hvac", which the engine takes as well.
MCResources == {BuildResourceId(hvac, <<zone>>), BuildResourceId(device, <<zone>>), <<hvac>>}

RoleTables == {write :> {operator, admin}, (write :> {operator}) @@ (read :> {})}
OutcomeTables == {<<>>, read :> "allow", read :> "deny", write :> "not_applicable"}

\* Every arrangement of the kinds of rule, with the example's tables.
AllPolicies ==
  [chain : [Rules -> Kinds], roleTable : RoleTables, permitted : {{hvac}},
   outcomes : OutcomeTables]

\* ResourceTypePolicyRule({HVAC}), RolePolicyRule({write: {operator, admin}}).
DocumentedPolicy ==
  {[chain |-> <<"type", "role">>, roleTable |-> write :> {operator, admin},
    permitted |-> {hvac}, outcomes |-> <<>>]}

MCVerdicts == BuiltinVerdicts

Terminated == (\A c \in Calls : Concluded(c)) /\ UNCHANGED vars

MCSpec == Init /\ [][Next \/ Terminated]_vars
=============================================================================
