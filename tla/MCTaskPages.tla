----------------------------- MODULE MCTaskPages ------------------------------
(* A small instance: two applications, one id that is also a stream's name.    *)
EXTENDS TaskPages

CONSTANTS a1, a2, i1, u1, u2
===============================================================================
