---------------------------- MODULE MCWebSession ----------------------------
(* WebSession on small instances. *)
EXTENDS WebSession, TLC

\* Nothing distinguishes pairs, call slots, tabs or sign-ins.
Symmetry == Permutations(Pairs) \cup Permutations(Calls) \cup Permutations(Tabs)
              \cup Permutations(Logins)
=============================================================================
