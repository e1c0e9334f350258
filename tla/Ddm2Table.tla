----------------------------- MODULE Ddm2Table -----------------------------
(***************************************************************************)
(* pyddm/ddm2.py: the topics of the parameters of a DDM2 table.             *)
(***************************************************************************)
EXTENDS Integers, Sequences

\* DDM2Parameter.topic, for an instance of one byte.
Topic(id, instance) == << id.param, instance, id.class, id.group >>

\* DDM2Table.lookup: the ids that match, with the instance.
Lookup(ids, topic) ==
    IF Len(topic) # 4 THEN {}
    ELSE {<< id, topic[2] >> : id \in {i \in ids : /\ i.param = topic[1]
                                                  /\ i.class = topic[3]
                                                  /\ i.group = topic[4]}}
=============================================================================
