------------------------------- MODULE MCQuery -------------------------------
(* Model-checking instances of Query.                                        *)
EXTENDS Query

X == DsVar(10)
Y == DsVar(20)
Z == DsVar(30)
C(n) == DsConst(n)
P(e, a, v) == [e |-> e, a |-> a, v |-> v]
Q(patterns, find, preds) == [patterns |-> patterns, find |-> find, preds |-> preds]
Pred(x, conds) == [var |-> x, or |-> <<conds>>]
Star == <<P(X, 1, Y), P(X, 2, Z)>>

(* Attributes 1 and 2 hold one value per entity.  Entity 1 had another value    *)
(* before, entity 2 may lack either attribute, entity 3 is always there.         *)
(* Attribute 3 refers from entities 1 and 3 to entity 3.                         *)
Older(v) == 1 + (v % 2)
Of(e, a, v) ==
    IF v = 0 THEN {}
    ELSE IF e = 1 THEN {<<e, a, v, 4>>, <<e, a, Older(v), 2>>, <<e, a, Older(v), 5>>}
    ELSE {<<e, a, v, 2>>}
MCDatasets ==
    {UNION {Of(p[1], p[2], f[p]) : p \in DOMAIN f} \cup {<<3, 1, 2, 2>>, <<3, 2, 1, 2>>, <<1, 3, 3, 2>>, <<3, 3, 3, 2>>} :
        f \in [{1, 2} \X {1, 2} -> 0 .. 2]}
MCTxFacts == {<<2, 2, 2>>, <<1, 1, 1>>}
Small == [total |-> 1, vaet |-> 1]
Large == [total |-> 100, vaet |-> 100]

MCStatistics == {Small, Large}

(* One pattern, every kind of slot; the star joins on an entity, with constants, *)
(* predicates and projections; a cycle.                                          *)
MCQueries ==
    { Q(<<P(X, 1, Y)>>, <<10, 20>>, <<>>),
      Q(<<P(X, 1, DsMissing)>>, <<10>>, <<>>),
      Q(<<P(DsMissing, 2, Y)>>, <<20>>, <<>>),
      Q(<<P(C(1), 1, Y)>>, <<20>>, <<>>),
      Q(<<P(X, 2, X)>>, <<10>>, <<>>),
      Q(Star, <<10, 20, 30>>, <<>>),
      Q(Star, <<20>>, <<Pred(30, <<Cond(">", 1)>>)>>),
      Q(Star, <<10, 20, 30>>, <<Pred(20, <<Cond("!=", 2)>>)>>),
      Q(<<P(X, 1, C(2)), P(X, 2, Z)>>, <<10, 30>>, <<>>),
      Q(<<P(X, 1, C(1)), P(X, 2, C(2))>>, <<10>>, <<>>),
      Q(<<P(X, 3, C(3)), P(X, 2, Z)>>, <<10, 30>>, <<>>),
      Q(Star, <<30, 10>>, <<Pred(20, <<Cond("in", 1), Cond("in", 3)>>)>>),
      Q(<<P(X, 1, Y), P(Y, 1, X)>>, <<10, 20>>, <<>>) }

SharedValue == { Q(<<P(X, 1, Y), P(Z, 2, Y)>>, <<10, 20, 30>>, <<>>) }
TwoOfOne == { Q(Star, <<10, 20, 30>>, <<>>) }
=============================================================================
