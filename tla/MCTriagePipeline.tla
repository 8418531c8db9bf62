------------------------- MODULE MCTriagePipeline -------------------------
(* Values of the constants of TriagePipeline for TLC.                        *)
EXTENDS TriagePipeline

\* One kill chain of two tools: every call of the chain but the last is
\* "earlier", and the window can be overrun.
MCTools  == {"read_customer_pii_tool", "post_external_tool"}
MCChains == {<<{"read_customer_pii_tool"}, {"post_external_tool"}>>}
NoChains == {}

\* The agents of the demo, one that claims a role it has not, and the proxy's
\* agent, which nobody registered.
Agent(name, claimed) == [agent |-> name, role |-> claimed]
Admin == {Agent("financeflow-admin", "admin")}
MCCallers == Admin \cup {Agent("financeflow-research", "research"),
                         Agent("financeflow-data", "data"),
                         Agent("financeflow-research", "admin"),
                         Agent("unknown", "admin")}

\* Scores on both sides of every threshold of the engine.
GridS2 == {None, 0, 49, 50, 75, 94, 95, 100}
GridS4 == {None, 0, 49, 50, 75, 100}
Faults == {None, Denial}

\* A score that allows and one that short-circuits.
FewS2 == {5, 95}
BenignS2 == {5}
FewS4 == {0}
============================================================================
