--------------------------- MODULE MCFetchSample ----------------------------
(***************************************************************************)
(* Files of up to four records, ending or (from a URL) endless, with       *)
(* limits below, at and above their length.  National Gallery exports of   *)
(* two objects, up to two links and two constituents; dates are years      *)
(* 1..99; one object may have dates that are none or too late, or meet the *)
(* life of a maker in one year.  A link may write 1 and 8 with a blank.    *)
(***************************************************************************)
EXTENDS FetchSample

CONSTANTS Padded1, Padded8

Record == {<<"row">>, <<"open", "close">>, <<"head", "tail">>}
MCFiles == {<<>>} \cup {<<"row">> \o FlattenSeq(f) : f \in BoundedSeq(Record, 3)}
MCLimits == 0 .. 7
MCSources == [lines : {LinesOf(f, l) : f \in MCFiles, l \in BOOLEAN}, endless : BOOLEAN]
MCRequests == [source : {"met", "nga"}, from : BOOLEAN, url : BOOLEAN, limit : {-1, MAX_LIMIT + 1}]
              \cup [source : {"met"}, from : BOOLEAN, url : BOOLEAN, limit : MCLimits]
              \cup [source : {"nga"}, from : BOOLEAN, url : BOOLEAN, limit : {1}]

ObjectRow(id, dates) == [objectid |-> id, beginyear |-> dates[1], endyear |-> dates[2]]
Dates == {<<<<51, 39>>, <<20, 30>>>>, <<<<50, 90>>, <<Junk, 100>>>>}

LinkRow == [objectid : {1}, constituentid : {7}, displayorder : {2, Empty}]
           \cup [objectid : {1}, constituentid : {8}, displayorder : {1, Empty}]
           \cup [objectid : {2}, constituentid : {8}, displayorder : {1}]
           \cup [objectid : {1}, constituentid : {Padded8}, displayorder : {1}]
           \cup [objectid : {Padded1}, constituentid : {7}, displayorder : {1}]

Makers == <<[constituentid |-> 7, beginyear |-> 10, endyear |-> 40],
            [constituentid |-> 8, beginyear |-> 40, endyear |-> 50]>>

MCExports ==
    {[objects |-> <<ObjectRow(1, d[1]), ObjectRow(2, d[2])>>, links |-> l, constituents |-> Makers] :
        d \in Dates, l \in BoundedSeq(LinkRow, 2)}
MCNgaLimits == {1, 2}
MCTrim == (Padded1 :> 1) @@ (Padded8 :> 8) @@ [id \in {1, 2, 7, 8, Empty} |-> id]
MCMarks == {{}, {"objects"}, {"links"}, {"constituents"}}
=============================================================================
