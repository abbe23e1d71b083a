----------------------------- MODULE MCCuration -----------------------------
(***************************************************************************)
(* Three collections: the rules that follow references (REF001, REF002,    *)
(* RIGHTS001), those that group or check single cells (CORE001, CORE002,   *)
(* VOCAB001, LOC001), and one scanned with a field required twice.         *)
(***************************************************************************)
EXTENDS Curation

CONSTANTS o1, o2, o3, m1, r1, r2, a1, l1, l2

Public == {"public", None}

RefObjects == [object_id : {o1, o2}, accession_number : {None}, title : {"Bowl"},
               rights_id : {r1, None}, publication_status : Public]
RefMedia == [media_id : {m1}, object_id : {o1, o2, None}, rights_id : {r1, r2},
             publication_status : Public]
RefRights ==
    {[rights_id |-> r, publication_allowed |-> p[1], review_required |-> p[2],
      rights_status |-> p[3]] :
        r \in {r1, r2},
        p \in {<<TRUE, FALSE, None>>, <<TRUE, TRUE, None>>, <<None, None, None>>,
               <<TRUE, None, "unknown">>}}
GroupObjects == [object_id : {o1, o2, o3}, accession_number : {None, a1},
                 title : {None, "Bowl", "Urn"}, rights_id : {None},
                 publication_status : {None}]
GroupLocations == [location_id : {l1}, object_id : {None, o1}, is_current : {TRUE, None}]
                  \cup [location_id : {l2}, object_id : {o1}, is_current : {TRUE}]

MCCollections ==
    {[rows |-> [objects |-> RefObjects, media |-> RefMedia, rights |-> RefRights,
                locations |-> {}],
      max |-> [objects |-> 2, media |-> 1, rights |-> 2, locations |-> 0],
      required |-> <<>>, vocabularies |-> [f \in {} |-> {}]],
     [rows |-> [objects |-> GroupObjects, media |-> {}, rights |-> {},
                locations |-> GroupLocations],
      max |-> [objects |-> 3, media |-> 0, rights |-> 0, locations |-> 2],
      required |-> <<"title", "colour">>,
      vocabularies |-> [title |-> {"Bowl"}, period |-> {}]],
     [rows |-> [objects |-> GroupObjects, media |-> {}, rights |-> {}, locations |-> {}],
      max |-> [objects |-> 2, media |-> 0, rights |-> 0, locations |-> 0],
      required |-> <<"title", "accession_number", "title">>, vocabularies |-> [f \in {} |-> {}]]}
=============================================================================
