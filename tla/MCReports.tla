------------------------------ MODULE MCReports -----------------------------
(***************************************************************************)
(* Three rules, registered, switched and graded in any order, and scans of *)
(* three inputs at two hours: one, the same with its rows turned round and *)
(* so renumbered, and one where a record given twice is found twice under  *)
(* one fingerprint.                                                        *)
(***************************************************************************)
EXTENDS Reports

MCRule == {1, 2, 3}
MCDefaultOf == [r \in MCRule |-> IF r = 2 THEN "critical" ELSE "medium"]
MCGrades == {"critical", "low"}
MCDigest == [t \in MCRule \X {1, 2} \X {1, 2} |-> 40 - 10 * t[1] + 5 * t[2] + 3 * t[3]]

Row(n) == [source_file |-> "objects.csv", source_row |-> n]
NoFile == [source_file |-> None, source_row |-> 0]
Issue(entity, key, evidence) == [entity |-> entity, key |-> key, evidence |-> evidence]

Found == [r \in MCRule |->
    IF r = 1 THEN <<Issue(2, 1, <<NoFile, Row(3)>>), Issue(1, 1, <<Row(2)>>)>>
    ELSE IF r = 2 THEN <<Issue(1, 1, <<Row(2)>>)>>
    ELSE <<Issue(1, 2, <<Row(2)>>), Issue(1, 1, <<Row(2)>>)>>]
Renumbered(item) == IF item = NoFile THEN item ELSE Row(5 - item.source_row)
Turned == [r \in MCRule |->
    LET issues == Reverse(Found[r])
    IN  [i \in DOMAIN issues |->
            [issues[i] EXCEPT !.evidence = [k \in DOMAIN @ |-> Renumbered(@[k])]]]]
Twice == [Found EXCEPT ![3] = <<Issue(1, 1, <<Row(2)>>), Issue(1, 1, <<Row(3)>>)>>]

MCClock == {0, 50}

MCData == {Found, Turned, Twice}
=============================================================================
