----------------------- MODULE MC_StorageMigrations -----------------------
(* Builds 1.17 to 1.20 open databases left by 1.12 to 1.16 or fresh ones. *)
EXTENDS StorageMigrations

MCBinaries == {17, 18, 19, 20}
MCOldVersions == {12, 13, 14, 15, 16}
=============================================================================
