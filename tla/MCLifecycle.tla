---------------------------- MODULE MCLifecycle ----------------------------
(* Instances of Lifecycle for TLC. *)
EXTENDS Lifecycle

CONSTANT w1

(* Two subjects; the third event is large. *)
MCSubjects == << "s", "t", "s", "s" >>
MCSizes == << 1, 1, 5, 1 >>
=============================================================================
