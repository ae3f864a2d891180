------------------------------ MODULE Scenario ------------------------------
(****************************************************************************)
(* The instances of the components that are checked together in a suite     *)
(* (AndroidSide, ReferenceRils, ModemLibrary).  A suite instantiates a       *)
(* component once for each question it asks of it and gives that instance   *)
(* the name of a scenario: "safety" for the invariants, "further" for those *)
(* that need an instance of their own, "progress" for what must come to an  *)
(* end.  A component says how large it is in each scenario.                 *)
(****************************************************************************)
CONSTANTS
    Run,   \* the scenario
    None   \* no value: differs from all others

\* A bound of a component, by scenario; where none is given, that of "safety".
InRun(bound) == IF Run \in DOMAIN bound THEN bound[Run] ELSE bound.safety
=============================================================================
