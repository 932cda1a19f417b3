----------------------- MODULE MCSSRRConcurrent -----------------------
(***************************************************************************)
(* Model-checking instance of SSRRConcurrent: three goroutines share one   *)
(* validator and make three calls between them, over two namespaces, a    *)
(* namespaced and a cluster-scoped resource, and every subset of three     *)
(* grants.                                                                 *)
(***************************************************************************)
EXTENDS SSRRConcurrent

CONSTANTS ns1, default, cm, crd, create, delete, g1, g2, g3

MCGrantWorlds ==
  SUBSET { [scope |-> ns1,           verb |-> create, resource |-> cm],
           [scope |-> default,       verb |-> Star,   resource |-> cm],
           [scope |-> AllNamespaces, verb |-> delete, resource |-> Star] }

=============================================================================
