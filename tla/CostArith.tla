---------------------------- MODULE CostArith ----------------------------
(***************************************************************************)
(* Exact non-negative rational arithmetic for the planner's cost model.    *)
(* The planner computes cardinalities, costs and densities as C++ doubles; *)
(* the model keeps them as normalised fractions <<num, den>> so that every *)
(* comparison the planner makes (std::min, operator<) is decided exactly.  *)
(***************************************************************************)
EXTENDS Integers

RECURSIVE Gcd(_, _)
Gcd(a, b) == IF b = 0 THEN a ELSE Gcd(b, a % b)

\* The fraction n/d in lowest terms (d > 0, n >= 0).
Frac(n, d) == IF n = 0 THEN <<0, 1>>
              ELSE <<n \div Gcd(n, d), d \div Gcd(n, d)>>

Nat2Q(n) == <<n, 1>>

QAdd(p, q) == Frac(p[1] * q[2] + q[1] * p[2], p[2] * q[2])
QMul(p, q) == Frac(p[1] * q[1], p[2] * q[2])
\* Division; callers guarantee q is not zero.
QDiv(p, q) == Frac(p[1] * q[2], p[2] * q[1])

QLt(p, q)  == p[1] * q[2] < q[1] * p[2]
QLeq(p, q) == p[1] * q[2] <= q[1] * p[2]

\* std::min returns its first argument unless the second is smaller.
QMin(p, q) == IF QLt(q, p) THEN q ELSE p
QMax(p, q) == IF QLt(p, q) THEN q ELSE p

\* The least (greatest) element of a non-empty set of fractions.
QSetMin(S) == CHOOSE x \in S : \A y \in S : QLeq(x, y)
QSetMax(S) == CHOOSE x \in S : \A y \in S : QLeq(y, x)

QZero == <<0, 1>>
QOne  == <<1, 1>>
=============================================================================
