--------------------------- MODULE MCStorageCalls ---------------------------
(* StorageCalls with every storage of the repository. *)
EXTENDS StorageCalls

MCBackends == Storages
=============================================================================
