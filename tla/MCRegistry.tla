----------------------------- MODULE MCRegistry -----------------------------
(***************************************************************************)
(* Small instances of Registry.  What a deployment needs, the deployment   *)
(* and a running session are there, as their operations leave them; one    *)
(* more id of most kinds is free.  The session may already be ending: its  *)
(* completion has been called, and has not saved yet.                      *)
(***************************************************************************)
EXTENDS Registry, TLC

CONSTANTS t1, t2, cd1, cd2, cred1, cb1, p1, p2, g1, b1, b2, d1, d2, s1, s2, c1, c2, k

MCPrefilled ==
  LET Reference(id) == [id |-> id, key |-> k, version |-> 8]
  IN (t1 :> [id |-> t1]) @@ (t2 :> [id |-> t2])
  @@ (cd1 :> [key |-> k, version |-> 8, automatic |-> FALSE])
  @@ (cred1 :> [tenant |-> t1])
  @@ (cb1 :> [tenant |-> t1, definition |-> cd1, credential |-> cred1])
  @@ (p1 :> [key |-> k, version |-> 8, ownership |-> "tenant", tenant |-> t1])
  @@ (g1 :> [key |-> k, version |-> 8, automatic |-> FALSE])
  @@ (b1 :> [key |-> k, version |-> 8, automatic |-> FALSE, connectors |-> {cd1},
             packs |-> {p1},
             snapshot |-> [policy_packs |-> {Reference(p1)},
                           guardrails |-> {Reference(g1)},
                           connector_manifests |-> {Reference(cd1)}]])
  @@ (d1 :> [tenant |-> t1, blueprint |-> b1, version |-> 8, bindings |-> {cb1},
             packs |-> {p1}, overridden |-> FALSE, revision |-> 1])
  @@ (s1 :> [tenant |-> t1, deployment |-> d1, terminal |-> FALSE])

MCInit ==
  /\ stored = MCPrefilled @@ [id \in Ids |-> None]
  /\ evidence = [s \in Sessions |-> None]
  /\ audited = [id \in Ids |-> IF id \in DOMAIN MCPrefilled THEN 1 ELSE 0]
  /\ job \in {[c \in Callers |-> NoJob],
             [c \in Callers |-> IF c # c1 THEN NoJob
                                ELSE At("save", s1, [stored[s1] EXCEPT !.terminal = TRUE])]}
  /\ calls = 0 /\ faults = 0
  /\ saved = audited
  /\ moved = {}
  /\ governed = [s \in Sessions |-> {}]

MCSpec == MCInit /\ [][Next]_vars
=============================================================================
