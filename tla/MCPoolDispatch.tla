--------------------------- MODULE MCPoolDispatch ----------------------------
(* PoolDispatch on small task trees. *)
EXTENDS PoolDispatch, TLC

CONSTANTS main, other, a, b, c, d, l, r

Plan(m, o) == [p \in Submitters |-> IF p = main THEN m ELSE o]

(* a spawns more than slot and deque hold, r spawns two, l itself for ever. *)
SomeKids == [t \in Tasks |-> CASE t = a -> <<b, c, d>> [] t = r -> <<b, c>>
                               [] t = l -> <<l>> [] OTHER -> <<>>]

(* The tree alone; a smaller tree beside another submitter; a task that never *)
(* ends, and with it more plain ones than the shard holds.                    *)
SomePlans == {Plan(<<a>>, <<>>), Plan(<<r>>, <<d>>), Plan(<<l, b, c>>, <<>>)}

(* One root that spawns two tasks, nobody else submitting. *)
PairPlan == {Plan(<<r>>, <<>>)}
=============================================================================
