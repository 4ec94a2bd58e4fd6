---------------------------- MODULE MCMemoryStore ----------------------------
(***************************************************************************)
(* Small instances of MemoryStore for TLC.  The constants of each run name *)
(* the callers and the policies it needs.                                  *)
(***************************************************************************)
EXTENDS MemoryStoreProperties, TLC

human == [id |-> "h", kind |-> "human"]
agent == [id |-> "a", kind |-> "agent"]

Limited(maxStatic, maxEpisodic) ==
  [DefaultSpaceWritePolicy EXCEPT !.maxStaticMemories = maxStatic,
                                  !.maxEpisodicMemories = maxEpisodic]

Symmetry == Permutations(Spaces) \cup Permutations(Models)

OneHuman == {human}
HumanAndAgent == {human, agent}

Roomy == {Limited(9, 9)}
Tight == {Limited(1, 2)}
TightOrRoomy == Tight \cup Roomy

\* Only episodic memories are written.
EpisodicOnly ==
  {[Limited(9, 9) EXCEPT
      !.staticWriters.minTrustLevel = FullTrust + 1,
      !.derivedWriters.minTrustLevel = FullTrust + 1]}

==============================================================================
