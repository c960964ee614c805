----------------------------- MODULE QuotaSyncMC -----------------------------
(* One user's devices.                                                     *)
EXTENDS QuotaSync, TLC

DeviceSymmetry == Permutations(Devices)
=============================================================================
