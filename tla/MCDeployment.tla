---------------------------- MODULE MCDeployment ----------------------------
(***************************************************************************)
(* An instance of Deployment for TLC: two Runtimes, the first with MQTT.   *)
(***************************************************************************)
EXTENDS Deployment

MCRuntimes == <<"motor", "video">>
=============================================================================
