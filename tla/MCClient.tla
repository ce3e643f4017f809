------------------------------ MODULE MCClient -------------------------------
(* Client for TLC: one property that changes twice, two properties, a      *)
(* property and a command, or as many commands as there are places.        *)
EXTENDS Client

SmallBudgets == {[changes |-> 2, observes |-> 1, commands |-> 0],
                 [changes |-> 0, observes |-> 2, commands |-> 0],
                 [changes |-> 0, observes |-> 1, commands |-> 1],
                 [changes |-> 0, observes |-> 0, commands |-> 2]}
=============================================================================
