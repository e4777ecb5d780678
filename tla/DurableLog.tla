---------------------------- MODULE DurableLog ----------------------------
(***************************************************************************)
(* What packages/data promises about acceptance and durability (ADR-0238): *)
(* work is accepted in one order; the durable copy is always a prefix of   *)
(* that order, cut between two accepted batches or inside the queue but    *)
(* never with a hole; a crash loses exactly the accepted work that had not *)
(* become durable.  StorePersistence is shown to implement it.             *)
(***************************************************************************)
EXTENDS Sequences, Naturals

CONSTANT Op         \* the durable operations a store can accept

VARIABLES
    accepted,       \* everything this session accepted, oldest first
    durable         \* what storage would give back after a crash now

vars == <<accepted, durable>>

Init == /\ durable \in Seq(Op)
        /\ accepted = durable

\* The logs that hold `log` and then possibly more.
Extensions(log) ==
    {longer \in Seq(Op) : /\ Len(log) <= Len(longer)
                          /\ \A i \in 1 .. Len(log) : longer[i] = log[i]}

\* A verb returns: its operations are accepted, in order, after all others.
Accept == accepted' \in Extensions(accepted) /\ UNCHANGED durable

\* Storage confirms everything accepted up to some point.
Persist == /\ durable' \in Extensions(durable)
           /\ accepted \in Extensions(durable')
           /\ UNCHANGED accepted

\* A verb returns with its work already durable (a synchronous engine).
AcceptPersisted == accepted' \in Extensions(accepted) /\ durable' = accepted'

\* The process stops and opens again over what storage holds.
Crash == accepted' = durable /\ UNCHANGED durable

Next == Accept \/ Persist \/ AcceptPersisted \/ Crash

Spec == Init /\ [][Next]_vars
===========================================================================
