---------------------------- MODULE SeedPromise ----------------------------
(***************************************************************************)
(* What the Stem promises a caller who opens a Seed and continues it:      *)
(* intent is taken in only while the Seed is open, delivered in the order  *)
(* it was accepted, and either all of it is delivered before the Seed is   *)
(* sealed, which is the only way to Fruit, or the rest fails together with *)
(* the Seed.  Processes, claims, passes, faults and restarts do not appear *)
(* here; SeedGrowth is shown to implement this.                            *)
(***************************************************************************)
EXTENDS Naturals, Sequences

CONSTANT Phytomer

VARIABLES
    fate,      \* "unopened", "open", "sealed" or "closed"
    intents,   \* per Phytomer: "waiting", "delivered" or "failed", in order
    fruit      \* the Phytomers whose Seed bore Fruit

vars == <<fate, intents, fruit>>

Init ==
    /\ fate = [p \in Phytomer |-> "unopened"]
    /\ intents = [p \in Phytomer |-> <<>>]
    /\ fruit = {}

Waiting(p) == {i \in DOMAIN intents[p] : intents[p][i] = "waiting"}

Becoming(p, ids, to) ==
    [i \in DOMAIN intents[p] |-> IF i \in ids THEN to ELSE intents[p][i]]

Open(p) ==
    /\ fate[p] = "unopened"
    /\ fate' = [fate EXCEPT ![p] = "open"]
    /\ UNCHANGED <<intents, fruit>>

Accept(p) ==
    /\ fate[p] = "open"
    /\ intents' = [intents EXCEPT ![p] = Append(@, "waiting")]
    /\ UNCHANGED <<fate, fruit>>

\* The oldest waiting intents, up to some point, are delivered together.
Deliver(p) ==
    /\ fate[p] = "open"
    /\ \E last \in Waiting(p) :
          intents' = [intents EXCEPT ![p] =
                        Becoming(p, {i \in Waiting(p) : i <= last}, "delivered")]
    /\ UNCHANGED <<fate, fruit>>

Seal(p) ==
    /\ fate[p] = "open"
    /\ Waiting(p) = {}
    /\ fate' = [fate EXCEPT ![p] = "sealed"]
    /\ UNCHANGED <<intents, fruit>>

Harvest(p) ==
    /\ fate[p] = "sealed"
    /\ fate' = [fate EXCEPT ![p] = "closed"]
    /\ fruit' \in {fruit, fruit \cup {p}}
    /\ UNCHANGED intents

\* Some open or sealed Seeds end without Fruit, with everything still waiting.
Wither(failing) ==
    /\ \A p \in failing : fate[p] \in {"open", "sealed"}
    /\ fate' = [p \in Phytomer |-> IF p \in failing THEN "closed" ELSE fate[p]]
    /\ intents' = [p \in Phytomer |->
                      IF p \in failing THEN Becoming(p, Waiting(p), "failed")
                      ELSE intents[p]]
    /\ UNCHANGED fruit

Next ==
    \/ \E p \in Phytomer :
          Open(p) \/ Accept(p) \/ Deliver(p) \/ Seal(p) \/ Harvest(p)
    \/ \E failing \in SUBSET Phytomer : Wither(failing)

Spec == Init /\ [][Next]_vars

=============================================================================
