------------------------------ MODULE MCClient ------------------------------
(* The client on a small instance: UDP and TCP, singleplexed or not, and    *)
(* one of the four over a direct connection.                                *)
EXTENDS Client

MCConfigs ==
  {[udp |-> TRUE,  singleplex |-> TRUE,  transport |-> "cdn"],
   [udp |-> TRUE,  singleplex |-> FALSE, transport |-> "cdn"],
   [udp |-> FALSE, singleplex |-> TRUE,  transport |-> "cdn"],
   [udp |-> FALSE, singleplex |-> FALSE, transport |-> "chrome"]}
=============================================================================
