----------------------------- MODULE MCWorkflow -----------------------------
(* Workflow on small instances: every kind of submission, one caller or two. *)
EXTENDS Workflow

CONSTANTS c1, c2

Imaged  == {[images |-> TRUE, plan |-> "none"],
            [images |-> FALSE, plan |-> "reference"]}
Unsure  == [images : {FALSE}, plan : {"ambiguous"}]
Planned == [images : {FALSE}, plan : {"reference", "found"}]
Plain   == [images : {FALSE}, plan : {"none"}]
=============================================================================
