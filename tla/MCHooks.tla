---- MODULE MCHooks ----
(* Instances of Hooks for TLC.                                             *)
EXTENDS Hooks

CONSTANTS e1, e2, w1, w2

TwoEndpoints == {e1, e2}
TwoWorkers == {w1, w2}
TwoAttempts == {1, 2}
OddEven == [a \in Attempts |-> IF a % 2 = 1 THEN e1 ELSE e2]

\* The first worker has the envelope signing key, the second has not.
OneKeyless == [w \in Workers |-> IF w = w1 THEN Modes ELSE {"hmac"}]
ShortBackoff == <<1>>
Last == {2}

====
