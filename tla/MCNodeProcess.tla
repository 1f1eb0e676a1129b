---------------------------- MODULE MCNodeProcess ----------------------------
(***************************************************************************)
(* NodeProcess for TLC: settings that differ in what decides something.    *)
(***************************************************************************)
EXTENDS NodeProcess

CONSTANTS r1, r2, k1, k2

Captures == {r1, r2}
SigningKeys == {k1, k2}

Deployed ==
    [environment |-> "production", deployed |-> TRUE, memory |-> FALSE, database |-> TRUE,
     secret |-> "long", migrate |-> FALSE, wildcard |-> FALSE, bus |-> TRUE]

Refused ==
    { [Deployed EXCEPT !.memory = TRUE], [Deployed EXCEPT !.database = FALSE],
      [Deployed EXCEPT !.secret = "short"], [Deployed EXCEPT !.migrate = TRUE],
      [Deployed EXCEPT !.wildcard = TRUE] }

\* A host where nothing was set but the database, and a laptop.
Hosted == [Deployed EXCEPT !.environment = "unset", !.secret = "none", !.migrate = TRUE, !.bus = FALSE]
Laptop == [Deployed EXCEPT !.environment = "unset", !.deployed = FALSE, !.memory = TRUE,
                           !.database = FALSE, !.secret = "short", !.wildcard = TRUE]

Nodes == {Deployed, Hosted, Laptop} \cup Refused

Carried ==
    { [bearer |-> TRUE, kid |-> k1, valid |-> TRUE, staff |-> FALSE, permissions |-> {"capture"}],
      [bearer |-> TRUE, kid |-> k2, valid |-> TRUE, staff |-> FALSE, permissions |-> {}] }
===============================================================================
