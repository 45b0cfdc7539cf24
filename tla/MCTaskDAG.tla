------------------------------ MODULE MCTaskDAG ------------------------------
(* Every graph of up to three nodes, built, submitted and run.              *)
EXTENDS TaskDAG

CONSTANT w1

MCKinds == <<"task", "main", "AND", "OR">>
OrKinds == <<"task", "OR">>
MCParticipants == <<Main, w1>>
=============================================================================
