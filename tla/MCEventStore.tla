--------------------------- MODULE MCEventStore ---------------------------
(* EventStore on a small instance: two writers, or a writer and a reader.  *)
(* No symmetry: the run checks a liveness property.                        *)
EXTENDS EventStore, TLC
=============================================================================
