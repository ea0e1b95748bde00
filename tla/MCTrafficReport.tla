-------------------------- MODULE MCTrafficReport --------------------------
(* TrafficReport with two users, three batches and one restart of the kernel: *)
(* users are given their names in the configuration.                        *)
EXTENDS TrafficReport
=============================================================================
