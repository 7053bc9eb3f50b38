------------------------ MODULE MCDeviceAuthClient -------------------------
(* Clients that share one record of the credentials file.                  *)
EXTENDS DeviceAuthClient, TLC

Symmetry == Permutations(Clients)
=============================================================================
