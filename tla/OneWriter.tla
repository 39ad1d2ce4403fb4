-------------------------------- MODULE OneWriter --------------------------------
(****************************************************************************)
(* What a job's lease promises of its load in the graph database: the       *)
(* workers whose writes may still land there are one at a time, and a       *)
(* worker becomes one only once every write before its own has settled.     *)
(****************************************************************************)
CONSTANT Workers
VARIABLE writers

Init == writers = {}

Enter(w) == writers = {} /\ writers' = {w}
Leave(w) == writers = {w} /\ writers' = {}

Next == \E w \in Workers : Enter(w) \/ Leave(w)
Spec == Init /\ [][Next]_writers
================================================================================
