------------------------------ MODULE MCPublishKeys ------------------------------
(* A small instance: one slot; its rows differ by their expiry.                   *)
EXTENDS PublishKeys

CONSTANT s1
==================================================================================
