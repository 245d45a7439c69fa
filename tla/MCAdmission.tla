---------------------------- MODULE MCAdmission ----------------------------
(* Admission on a small instance: threads and tickets are interchangeable.  *)
EXTENDS Admission, TLC

Symm == Permutations(Threads) \cup Permutations(Nonces)
=============================================================================
