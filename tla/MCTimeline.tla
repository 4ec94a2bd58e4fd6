------------------------------ MODULE MCTimeline ------------------------------
(***************************************************************************)
(* A small instance of Timeline: one memory of three would expire.         *)
(***************************************************************************)
EXTENDS Timeline

human == [id |-> "h", kind |-> "human"]

OneHuman == {human}

\* No episodic memory is written: time treats the kinds alike.
NoEpisodic ==
  {[DefaultSpaceWritePolicy EXCEPT
      !.episodicWriters.minTrustLevel = FullTrust + 1]}

FirstExpires == [id \in MemoryIDs |-> IF id = 1 THEN MaxTime ELSE Nil]

===============================================================================
