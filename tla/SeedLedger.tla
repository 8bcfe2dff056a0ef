------------------------------ MODULE SeedLedger ------------------------------
(***************************************************************************)
(* What a seed stage promises: what it stores stays, and the stage is only *)
(* marked completed when everything is stored, since a completed stage     *)
(* does not run again.  An error may take the mark back.                   *)
(***************************************************************************)
VARIABLES
  units,   \* what the stage has to store
  stored,  \* what of it is in the database
  done     \* the stage is marked completed

Init == stored = {} /\ done = FALSE

Store ==
  /\ stored' \in SUBSET units /\ stored \subseteq stored'
  /\ UNCHANGED <<units, done>>

Complete ==
  /\ stored = units
  /\ done' = TRUE
  /\ UNCHANGED <<units, stored>>

Reopen == done' = FALSE /\ UNCHANGED <<units, stored>>

Next == Store \/ Complete \/ Reopen

Spec == Init /\ [][Next]_<<units, stored, done>>

=============================================================================
