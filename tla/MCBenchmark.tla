---------------------------- MODULE MCBenchmark -----------------------------
(***************************************************************************)
(* The injections run_benchmark composes, on four objects, and those the   *)
(* accuracy tests compose, on a few objects, location nodes and rights.    *)
(***************************************************************************)
EXTENDS Benchmark

MCSuites ==
    {[objects |-> 4, nodes |-> 1, links |-> {None}, statuses |-> {"internal"}, spans |-> {40},
      plans |-> {<<"inject_errors", "inject_object_field_errors">>}],
     [objects |-> 3, nodes |-> 4, links |-> {1, 2}, statuses |-> PUBLICATION_VOCABULARY,
      spans |-> {0},
      plans |-> {<<"inject_orphan_rights", "inject_publication_conflict">>,
                 <<"inject_orphan_media">>,
                 <<"inject_extra_current_location", "inject_location_hierarchy_errors">>}]}
=============================================================================
