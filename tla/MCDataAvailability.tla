------------------------------ MODULE MCDataAvailability ------------------------------
(* The instance: two blocks after genesis, up to one of them there before the joiner, one fault *)
(* (a broken connection, a restart or a crash).                                               *)
EXTENDS DataAvailability
====
