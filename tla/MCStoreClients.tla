---------------------------- MODULE MCStoreClients ----------------------------
(***************************************************************************)
(* Small instances of StoreClients for TLC.                                *)
(***************************************************************************)
EXTENDS StoreClients, TLC

human == [id |-> "h", kind |-> "human"]

OneHuman == {human}

\* Only episodic memories are written.
EpisodicOnly ==
  {[DefaultSpaceWritePolicy EXCEPT
      !.staticWriters.minTrustLevel = FullTrust + 1,
      !.derivedWriters.minTrustLevel = FullTrust + 1]}

\* Nothing tells two goroutines or two models apart.
Symmetry == Permutations(Clients) \cup Permutations(Models)

===============================================================================
