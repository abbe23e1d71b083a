------------------------------ MODULE Findings ------------------------------
(***************************************************************************)
(* Findings as a scan's decision sees them: each has a fingerprint, which  *)
(* is its identity across runs, and a severity.  Two findings of one scan  *)
(* may share a fingerprint, so the two are functions of the finding.       *)
(* Baseline classification (engine/baselines.py) and the failure threshold *)
(* (the end of cli.scan) are operators over sets of findings.              *)
(***************************************************************************)
EXTENDS Naturals

CONSTANTS Finding,      \* the findings any scan may produce
          Fingerprint,  \* values of compute_fingerprint
          FpOf,         \* Finding.fingerprint
          SevOf         \* Finding.severity

Severity == {"critical", "high", "medium", "low"}

SEVERITY_ORDER == [critical |-> 3, high |-> 2, medium |-> 1, low |-> 0]

\* Every finding carries a fingerprint and one of the four severities.
ASSUME FindingAssumption ==
    /\ FpOf \in [Finding -> Fingerprint]
    /\ SevOf \in [Finding -> Severity]

Fingerprints(F) == {FpOf[f] : f \in F}

(***************************************************************************)
(* classify: the current findings split by membership of their fingerprint *)
(* in the baseline.                                                        *)
(***************************************************************************)
New(F, baseline) == {f \in F : FpOf[f] \notin baseline}
Unchanged(F, baseline) == {f \in F : FpOf[f] \in baseline}

(***************************************************************************)
(* The threshold decision: --fail-on none never fails a run, any other     *)
(* level fails it when a counted finding is at least that severe.          *)
(***************************************************************************)
Blocks(fail_on, F) ==
    /\ fail_on # "none"
    /\ \E f \in F : SEVERITY_ORDER[SevOf[f]] >= SEVERITY_ORDER[fail_on]
=============================================================================
