----------------------------- MODULE MCWorkspace -----------------------------
(***************************************************************************)
(* A small workspace for TLC: two spaces, and two models that share an id. *)
(***************************************************************************)
EXTENDS Workspace, TLC

human == [id |-> "h", kind |-> "human"]

OneHuman == {human}

a2 == [id |-> "a", dims |-> 2]
a3 == [id |-> "a", dims |-> 3]
b2 == [id |-> "b", dims |-> 2]

ThreeModels == {a2, a3, b2}

Declares(model) ==
  [NoSettings EXCEPT !.modelID = model.id, !.dimensions = model.dims]

\* A level for agents and an untrusted system.
Levels(settings) ==
  [settings EXCEPT !.scalars = [defaultAgentTrust |-> 5, systemTrust |-> 0]]

\* Nobody but the system, and no system, writes static memories; nobody promotes.
NoHumans ==
  [NoSettings EXCEPT !.writers["staticWriters"] = [allowHuman |-> FALSE],
                     !.writers["promotePolicy"] = [allowHuman |-> FALSE]]
NoSystem ==
  [Declares(a2) EXCEPT !.writers["staticWriters"] = [allowSystem |-> FALSE]]

ConfigChoices ==
  {[s1 |-> Nil, s2 |-> Nil],
   [s1 |-> NoSystem, s2 |-> Declares(b2)],
   [s1 |-> NoHumans, s2 |-> Levels(Declares(a3))]}

NoPolicies == {}

Symmetry == Permutations(Threads)

==============================================================================
