-------------------------- MODULE MCSetupProvision --------------------------
(* Instances of SetupProvision for TLC: which requests reach the helpers.  *)
EXTENDS SetupProvision

Request(h, m, ports, local) ==
    [home |-> h, mode |-> m, settings |-> [ports |-> ports, local |-> local]]

\* One home set up by an elevated process of its user, whose orchestrator runs
\* one setup at a time, and one set up by the service, which may overlap.
TwoHomes ==
    {Request("h1", "full", {}, TRUE),
     Request("h2", "provision_only", {2}, FALSE),
     Request("h2", "provision_only", {1}, FALSE)}

ASSUME InstancesInTurn == OneRunPerHome
=============================================================================
