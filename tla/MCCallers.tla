------------------------------ MODULE MCCallers ------------------------------
(* Up to three entries, so that a sort has something to do; the four        *)
(* default servers are two.  What is called after da_cloud_init depends on  *)
(* the list only by its being there, or freed, with entries or without.     *)
EXTENDS Callers

CONSTANTS h1, h2

MCDefaultHosts == <<h1, h2>>
=============================================================================
