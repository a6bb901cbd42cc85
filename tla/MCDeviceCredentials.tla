------------------------ MODULE MCDeviceCredentials ------------------------
(* DeviceCredentials on small sets of model values. *)
EXTENDS DeviceCredentials, TLC

Symmetry == Permutations(Device) \cup Permutations(Token) \cup Permutations(Request)
=============================================================================
