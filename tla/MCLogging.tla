------------------------------ MODULE MCLogging -----------------------------
EXTENDS Logging

(* One tag with the "{level}" placeholder and one without. *)
TagSet == {[name |-> "t1", placeholder |-> TRUE], [name |-> "t2", placeholder |-> FALSE]}

=============================================================================
