---------------------------- MODULE Reachability ----------------------------
(***************************************************************************)
(* Who can be reached from whom, which networkx answers wherever the       *)
(* service asks for components and cycles.  It is what ConnectionsIn of    *)
(* Graphs computes, as a definition that can be reasoned about.            *)
(***************************************************************************)
EXTENDS Graphs

\* Transfers lead from m to n, or they are one: n is in every set of accounts
\* that has m and whatever its members sent to.
Reaches(G, m, n) ==
    \A K \in SUBSET G.node : m \in K /\ AllSuccessors(G, K) \subseteq K => n \in K
=============================================================================
