---------------------------- MODULE MCConnectors ----------------------------
(* Small instances of Connectors.                                          *)
EXTENDS Connectors, TLC

(* The interval after which the slower manifests may be retried.           *)
MCSteps == {100}

(* Two versions of a manifest, the later with another rate.                *)
MCManifests ==
  {[provider |-> "crm", api_family |-> "http-json", max_requests_per_second |-> rate] :
     rate \in {10, 25}}

(* Buckets with no token or one left.                                      *)
MCPrefilled ==
  [manifest: {m \in Manifests : m.max_requests_per_second = 10}, tokens: {0, Second}]

Symmetry == Permutations(Workers)
=============================================================================
