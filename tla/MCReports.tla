------------------------------ MODULE MCReports ------------------------------
(***************************************************************************)
(* Small instances of Reports for TLC.                                     *)
(***************************************************************************)
EXTENDS Reports

human == [id |-> "h", kind |-> "human"]
OneHuman == {human}

OnePolicy == {DefaultSpaceWritePolicy}

\* Three near texts in a row, the outer two only an update apart.
Near ==
  [pair \in Contents \X Contents |->
     IF pair[1] = pair[2] THEN 100
     ELSE IF "q" \in {pair[1], pair[2]} THEN 98 ELSE 85]

Given(content, confidence, expires) ==
  [id \in MemoryIDs |->
     [content |-> content[id], confidence |-> confidence[id],
      actor |-> id % 2, day |-> (id + 1) \div 2, expires |-> id \in expires]]

TwoCommits == [plan |-> 2, curation |-> 1, profile |-> 2]

\* A chain whose middle comes last, equal texts with an odd confidence, and a
\* pair that is only an update apart.
Texts ==
  {Given(<<"p", "r", "q">>, <<1, 2, 1>>, {1}),
   Given(<<"p", "p", "p">>, <<1, 2, 1>>, {2}),
   Given(<<"p", "r", "r">>, <<1, 1, 1>>, {})}

==============================================================================
