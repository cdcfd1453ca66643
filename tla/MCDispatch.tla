---------------------------- MODULE MCDispatch ----------------------------
(* Instances of Dispatch for TLC.                                          *)
EXTENDS DispatchLife, TLC

CONSTANTS r1, r2, r3, p1, p2, d1, d2

ThreeRoutes == {r1, r2, r3}
TwoRoutes == {r1, r2}
TwoProviders == {p1, p2}
OneRoute == {r1}
OneProvider == {p1}

\* r1 and r3 share a provider, r2 has one of its own.
RouteProvider == [r \in Routes |-> IF r = r2 THEN p2 ELSE p1]

Now == {0}
AnyTime == {-4, 0, 1}

\* Dispatchers are interchangeable; so are the two routes of one provider.
Symmetry == Permutations(Dispatchers) \cup Permutations({r1, r3})

=============================================================================
