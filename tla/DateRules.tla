----------------------------- MODULE DateRules ------------------------------
(***************************************************************************)
(* The rules about dates (rules/schema_rules.py, rules/date_rules.py) and  *)
(* the parser they share (mapper.parse_date).  A raw cell is a number, its *)
(* year or its place in the calendar, or a model value: Empty, or Junk for *)
(* text that is no date.                                                   *)
(***************************************************************************)
EXTENDS Integers, Sequences, SequencesExt

CONSTANTS Empty, Junk,  \* an empty cell, a cell that holds no date
          None,         \* an unset canonical field
          MaxYear       \* 9999

\* Year 0, years BCE and years past the calendar stay unset.
ParseDate(raw) == IF raw \in 1 .. MaxYear THEN raw ELSE None

Typed == {"production_start_date", "production_end_date"}

\* An object row has raw date cells and its makers in display order.
Start(row) == ParseDate(row.production_start_date)
End(row) == ParseDate(row.production_end_date)

\* SCHEMA001, over the typed fields the mapping has a column for.
InvalidFieldType(objects, mapped) ==
    {[rule |-> "SCHEMA001", id |-> objects[c[1]].object_id, key |-> c[2]] :
        c \in {d \in (DOMAIN objects) \X (Typed \cap mapped) :
                  /\ objects[d[1]][d[2]] # Empty
                  /\ ParseDate(objects[d[1]][d[2]]) = None}}

\* DATE001
InvertedDateRange(objects) ==
    {[rule |-> "DATE001", id |-> objects[i].object_id,
      key |-> <<Start(objects[i]), End(objects[i])>>] :
        i \in {k \in DOMAIN objects : /\ None \notin {Start(objects[k]), End(objects[k])}
                                      /\ Start(objects[k]) > End(objects[k])}}

\* Faulty variant: the bounds of the lifespan are swapped.
ImpossibleReasonSwapped(start, end, birth, death) ==
    IF end < death THEN "before birth" ELSE IF start > birth THEN "after death" ELSE None

\* _impossible_reason
ImpossibleReason(start, end, birth, death) ==
    IF end < birth THEN "before birth" ELSE IF start > death THEN "after death" ELSE None

\* agents_by_id: a later row with the same id replaces an earlier one.
AgentRow(agents, id) ==
    CHOOSE i \in DOMAIN agents :
        /\ agents[i].agent_id = id
        /\ \A k \in DOMAIN agents : agents[k].agent_id = id => k <= i

Lifespan(agents, id) ==
    LET agent == agents[AgentRow(agents, id)]
    IN  IF \E i \in DOMAIN agents : agents[i].agent_id = id
        THEN <<ParseDate(agent.birth_date), ParseDate(agent.death_date)>>
        ELSE <<None, None>>

\* Faulty variant: a maker without a record cannot have made anything.
ReasonOrUnknown(row, agents, id) ==
    LET life == Lifespan(agents, id)
    IN  IF \A i \in DOMAIN agents : agents[i].agent_id # id THEN "after death"
        ELSE IF None \in {Start(row), End(row), life[1], life[2]} THEN None
        ELSE ImpossibleReason(Start(row), End(row), life[1], life[2])

\* Why maker id cannot have made the object, or None.
Reason(row, agents, id) ==
    LET life == Lifespan(agents, id)
    IN  IF None \in {Start(row), End(row), life[1], life[2]} THEN None
        ELSE ImpossibleReason(Start(row), End(row), life[1], life[2])

\* DATE002
AgentLifespanConflict(objects, agents) ==
    UNION {{[rule |-> "DATE002", id |-> objects[i].object_id,
             key |-> <<m, Reason(objects[i], agents, m)>>] :
                m \in {c \in ToSet(objects[i].maker_ids) : Reason(objects[i], agents, c) # None}}
             : i \in DOMAIN objects}
=============================================================================
