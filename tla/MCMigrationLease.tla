--------------------------- MODULE MCMigrationLease ---------------------------
EXTENDS MigrationLease, TLC

CONSTANTS m1, m2, release

(* Two processes of one release, with two Knex migrations and one of       *)
(* Graphile Worker to do.                                                  *)
OneRelease == [m \in Migrator |-> release]
FilesOfRelease == release :> 2
JobsOfRelease == release :> 1
=============================================================================
