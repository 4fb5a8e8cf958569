--------------------------- MODULE MCDeviceSecrets ---------------------------
(* Browsers are alike, and so are miners. *)
EXTENDS DeviceSecrets, TLC

Alike == Permutations(Users) \cup Permutations(Miners)

=============================================================================
