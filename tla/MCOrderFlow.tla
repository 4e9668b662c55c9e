---------------------------- MODULE MCOrderFlow ----------------------------
(* OrderFlow on small instances. *)
EXTENDS OrderFlow, TLC

CONSTANTS o1, o2, t1, t2

\* The first order belongs to t1, any other one to t2.
MCOwner == [o \in Orders |-> IF o = o1 THEN t1 ELSE t2]

\* Nothing distinguishes request slots or payment ids.
Symmetry == Permutations(Requests) \cup Permutations(Payments)
=============================================================================
