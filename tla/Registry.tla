------------------------------ MODULE Registry ------------------------------
(***************************************************************************)
(* The rule registry (rules/registry.py): rules in the order they were     *)
(* registered, each with one setting, a switch and an optional grade that  *)
(* are replaced together at every call.  A call about an unknown rule, or  *)
(* a second registration, raises and must leave nothing behind.  Rule ids  *)
(* are numbers, in the order of their names.                               *)
(***************************************************************************)
EXTENDS Naturals, Sequences, SequencesExt, FiniteSets

CONSTANTS Rule,       \* the rules that exist
          DefaultOf,  \* Rule.default_severity
          Grades,     \* the severities a caller overrides with
          None,
          MaxCalls    \* bound on the calls of a history

Severity == {"critical", "high", "medium", "low"}

ASSUME RegistryAssumption ==
    /\ Rule \subseteq Nat
    /\ DefaultOf \in [Rule -> Severity]
    /\ Grades \subseteq Severity /\ None \notin Severity
    /\ MaxCalls \in Nat

RuleSetting == [enabled : BOOLEAN, severity_override : Grades \cup {None}]
Unset == [enabled |-> TRUE, severity_override |-> None]

VARIABLES rules,     \* ids in registration order (the dict's order)
          settings,  \* per known id its RuleSetting
          raised,    \* the exception of the last call, or None
          calls,
          switch,    \* history: per rule the last accepted set_enabled
          grade      \* history: per rule the last accepted override_severity

registry == <<rules, settings, raised, calls, switch, grade>>

Known == ToSet(rules)

RegistryTypeOK ==
    /\ rules \in Seq(Rule)
    /\ Known \subseteq DOMAIN settings /\ DOMAIN settings \subseteq Rule
    /\ \A r \in DOMAIN settings : settings[r] \in RuleSetting
    /\ raised \in {None, "ValueError", "KeyError"}
    /\ calls \in Nat
    /\ switch \in [Rule -> BOOLEAN]
    /\ grade \in [Rule -> Grades \cup {None}]

RegistryInit ==
    /\ rules = <<>>
    /\ settings = [r \in {} |-> Unset]
    /\ raised = None /\ calls = 0
    /\ switch = [r \in Rule |-> TRUE]
    /\ grade = [r \in Rule |-> None]

Call == calls < MaxCalls /\ calls' = calls + 1

Reject(exception) == raised' = exception /\ UNCHANGED <<rules, settings, switch, grade>>

With(r, setting) == [k \in DOMAIN settings \cup {r} |-> IF k = r THEN setting ELSE settings[k]]

\* register: setdefault keeps a setting that is there.
Register(r) ==
    /\ Call
    /\ \/ /\ r \notin Known
          /\ rules' = Append(rules, r)
          /\ settings' = IF r \in DOMAIN settings THEN settings ELSE With(r, Unset)
          /\ raised' = None
          /\ UNCHANGED <<switch, grade>>
       \/ r \in Known /\ Reject("ValueError")

\* Faulty variant: the setting is made anew around the switch.
SetEnabledAnew(r, enabled) ==
    /\ Call
    /\ \/ /\ r \in Known
          /\ settings' = With(r, [Unset EXCEPT !.enabled = enabled])
          /\ switch' = [switch EXCEPT ![r] = enabled]
          /\ raised' = None
          /\ UNCHANGED <<rules, grade>>
       \/ r \notin Known /\ Reject("KeyError")

SetEnabled(r, enabled) ==
    /\ Call
    /\ \/ /\ r \in Known
          /\ settings' = With(r, [settings[r] EXCEPT !.enabled = enabled])
          /\ switch' = [switch EXCEPT ![r] = enabled]
          /\ raised' = None
          /\ UNCHANGED <<rules, grade>>
       \/ r \notin Known /\ Reject("KeyError")

OverrideSeverity(r, severity) ==
    /\ Call
    /\ \/ /\ r \in Known
          /\ settings' = With(r, [settings[r] EXCEPT !.severity_override = severity])
          /\ grade' = [grade EXCEPT ![r] = severity]
          /\ raised' = None
          /\ UNCHANGED <<rules, switch>>
       \/ r \notin Known /\ Reject("KeyError")

RegistryNext ==
    \E r \in Rule :
        \/ Register(r)
        \/ \E enabled \in BOOLEAN : SetEnabled(r, enabled)
        \/ \E severity \in Grades : OverrideSeverity(r, severity)

\* effective_severity and enabled_rules, for known rules.
EffectiveSeverity(r) ==
    IF settings[r].severity_override = None THEN DefaultOf[r] ELSE settings[r].severity_override

\* A finite set in a strict order, given by its pairs: at n the element
\* that n elements do not come after.
Listing(S, Before) ==
    [n \in 1 .. Cardinality(S) |->
        CHOOSE x \in S : Cardinality({y \in S : <<x, y>> \notin Before}) = n]

\* The elements of a list at some positions.
At(list, positions) ==
    LET at == Listing(positions, {p \in positions \X positions : p[1] < p[2]})
    IN  [n \in DOMAIN at |-> list[at[n]]]

EnabledRules == At(rules, {i \in DOMAIN rules : settings[rules[i]].enabled})

-----------------------------------------------------------------------------
(***************************************************************************)
(* After any calls in any order, rejected ones included, a rule is on and  *)
(* graded as it was last asked for: switching does not lose the grade, nor *)
(* grading the switch, a rejected call leaves no setting that a later      *)
(* registration would find, and no rule is registered twice (RuleRegistry).*)
(***************************************************************************)
AsAsked ==
    /\ DOMAIN settings = Known
    /\ \A i, k \in DOMAIN rules : rules[i] = rules[k] => i = k
    /\ \A r \in Known :
          /\ settings[r].enabled = switch[r]
          /\ EffectiveSeverity(r) = IF grade[r] = None THEN DefaultOf[r] ELSE grade[r]
    /\ \A r \in Rule \ Known : switch[r] /\ grade[r] = None
=============================================================================
