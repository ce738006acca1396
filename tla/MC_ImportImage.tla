---------------------------- MODULE MC_ImportImage ----------------------------
(* Images for TLC; the first two have one name for their temporary files.   *)
EXTENDS ImportImage

MC_Images == {"my_app:v1", "my:app_v1", "ubuntu:latest"}
MC_Stem == [i \in MC_Images |-> IF i = "ubuntu:latest" THEN "ubuntu_latest" ELSE "my_app_v1"]
=============================================================================
