------------------------- MODULE MCProviderFailover -------------------------
(* Values for TLC: two callers of a primary and one fallback. *)
EXTENDS ProviderFailover, TLC

CONSTANTS r1, r2, none, t1, t2

Callers == {r1, r2}
OneCaller == {r1}
PrimaryAndFallback == <<"a", "b">>

\* r1 takes the chain as it is; r2 asks for the fallback's model.
WantedEntries == [r \in Requests |-> IF r = r2 THEN 2 ELSE 0]
Unrestricted == [r \in Requests |-> {1, 2}]

\* The primary takes one call at a time and one in a minute.
One == [p \in Limited |-> 1]
UnitCost == [r \in Requests |-> 1]

\* Two probes under way are told apart by what they ask only.
Ticks == {t1, t2}
OneTick == {t1}
TickSymmetry == Permutations(Ticks)
=============================================================================
