------------------------------ MODULE Decisions ------------------------------
(***************************************************************************)
(* How the admission tools decide: a verdict is one of three, the worst of *)
(* several wins, and a check is a list of early returns of which the first *)
(* that applies decides. Deviations enumerates inputs: everything is as it *)
(* should be except for at most two things.                                *)
(***************************************************************************)
EXTENDS Naturals, Sequences, FiniteSets, FiniteSetsExt

V == "verified"
N == "not_measured"
F == "failed"
Verdicts == {V, N, F}

\* the rank the tools give a verdict: failed over not_measured over verified
Worst(S) == IF F \in S THEN F ELSE IF N \in S THEN N ELSE V

\* an outcome: the verdict, is it a success that should not be, is it a failure that should be, and
\* where the output is kept
Outcome(verdict, bad, cause, ref) ==
  [verdict |-> verdict, hides |-> verdict = V /\ bad, justified |-> verdict = F /\ cause, ref |-> ref]

\* The early returns of a function: the first rule <<condition, answer>> that holds answers.
Decide(rules, otherwise) ==
  LET hit == {i \in 1..Len(rules) : rules[i][1]}
  IN IF hit = {} THEN otherwise ELSE rules[Min(hit)][2]

\* `good` with up to two fields replaced by one of the values `alt` lists for the field.
Deviations(good, alt) ==
  LET changes == UNION {{<<k, v>> : v \in alt[k]} : k \in DOMAIN alt}
      Apply(r, c) == [r EXCEPT ![c[1]] = c[2]]
  IN {good} \cup {Apply(Apply(good, c), d) : c, d \in changes}

=============================================================================
