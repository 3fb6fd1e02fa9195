-------------------------------- MODULE MCWebSession -------------------------------
(* WebSession on small instances for TLC: calls are interchangeable, and so are tabs *)
EXTENDS WebSession, TLC

Symmetric == Permutations(Requests) \cup Permutations(Tabs)
===================================================================================
