------------------------- MODULE StorageMigrations -------------------------
(***************************************************************************)
(* SledStorage::handle_migrations (core/storage/sled/migrations.rs), run  *)
(* each time the daemon opens its database, with crashes of the daemon.   *)
(*                                                                         *)
(* The routine reads DB_VERSION from the `extra` tree; when it is absent  *)
(* or below 1.17 it rewrites the DAPA asset's data (its ticker) in the    *)
(* `versioned_assets` tree, and in every case it writes the running       *)
(* VERSION into DB_VERSION.  Neither insert is flushed by the routine:    *)
(* sled buffers them and persists them later, in the order they were      *)
(* made, so a crash keeps a prefix of the writes not yet persisted.       *)
(* `disk` is what a restart finds, `pending` the writes made since the    *)
(* last flush; the running process reads disk with pending applied.       *)
(* A version is a number (17 for 1.17); the asset's data is reduced to    *)
(* whether it is the patched one.                                          *)
(***************************************************************************)
EXTENDS Naturals, Sequences

CONSTANTS
    Binaries,    \* the VERSIONs of the daemon builds that open the database
    OldVersions, \* DB_VERSION values older builds leave behind
    NoVersion    \* DB_VERSION absent (a database never opened by a build)

\* The requirement of the check, "1.17".
Required == 17

\* Old versions are those of builds before the check was introduced.
ASSUME MigrationsAssumption ==
    /\ Binaries \subseteq Nat /\ OldVersions \subseteq 0 .. (Required - 1)
    /\ NoVersion \notin Nat

\* hard_fork::is_version_matching_requirement(version, "1.17").
IsVersionMatchingRequirement(v) == v >= Required

Store == [asset : BOOLEAN, version : Binaries \cup OldVersions \cup {NoVersion}]

VARIABLES
    disk,       \* the persisted trees: [asset |-> patched?, version |-> DB_VERSION]
    pending,    \* the inserts sled has not persisted yet, oldest first
    pc,         \* "down" or "up"
    binary      \* the VERSION of the build that runs, while it runs

vars == <<disk, pending, pc, binary>>

\* The result of applying one insert to the trees.
Apply(s, w) == IF w.tree = "versioned_assets" THEN [s EXCEPT !.asset = TRUE]
                                               ELSE [s EXCEPT !.version = w.val]

\* The last of a non-empty set of positions.
LastOf(S) == CHOOSE i \in S : \A k \in S : k <= i

(***************************************************************************)
(* The trees after the first n of the writes ws are applied in order: the *)
(* asset is patched when one of them patches it, and DB_VERSION is the    *)
(* value of the last of them that writes it.                              *)
(***************************************************************************)
ApplyFirst(s, ws, n) ==
    LET marks == {i \in 1 .. n : ws[i].tree = "extra"}
    IN [asset   |-> s.asset \/ \E i \in 1 .. n : ws[i].tree = "versioned_assets",
        version |-> IF marks = {} THEN s.version ELSE ws[LastOf(marks)].val]

\* The trees as the running process reads them.
View == ApplyFirst(disk, pending, Len(pending))

\* The states a database is found in before any build with this routine
\* opens it: fresh, or written by an older build, never patched.
Init ==
    /\ disk \in {[asset |-> FALSE, version |-> v] : v \in OldVersions \cup {NoVersion}}
    /\ pending = <<>>
    /\ pc = "down"
    /\ binary = NoVersion

\* Mutant: DB_VERSION is written before the asset is patched.
HandleMigrationsVersionFirst(b) ==
    LET migrate == View.version = NoVersion \/ ~IsVersionMatchingRequirement(View.version)
        patch   == [tree |-> "versioned_assets", val |-> b]
        mark    == [tree |-> "extra", val |-> b]
    IN /\ pc = "down"
       /\ pending' = pending \o (IF migrate THEN <<mark, patch>> ELSE <<mark>>)
       /\ pc' = "up" /\ binary' = b
       /\ UNCHANGED disk

(***************************************************************************)
(* The daemon of build b opens the database and runs handle_migrations:   *)
(* `migrate` is true when DB_VERSION is absent or below 1.17; then the    *)
(* patched DAPA asset is inserted into versioned_assets; then VERSION is  *)
(* inserted into DB_VERSION and the daemon runs.  The inserts are         *)
(* buffered, in this order.                                                *)
(***************************************************************************)
HandleMigrations(b) ==
    LET migrate == View.version = NoVersion \/ ~IsVersionMatchingRequirement(View.version)
        patch   == [tree |-> "versioned_assets", val |-> b]
        mark    == [tree |-> "extra", val |-> b]
    IN /\ pc = "down"
       /\ pending' = pending \o (IF migrate THEN <<patch, mark>> ELSE <<mark>>)
       /\ pc' = "up" /\ binary' = b
       /\ UNCHANGED disk

\* sled's background flush persists the oldest buffered write.
Flush ==
    /\ pending # <<>>
    /\ disk' = Apply(disk, Head(pending))
    /\ pending' = Tail(pending)
    /\ UNCHANGED <<pc, binary>>

\* The process dies; sled recovers a prefix of the buffered writes.
Crash ==
    /\ pc # "down"
    /\ \E n \in 0 .. Len(pending) : disk' = ApplyFirst(disk, pending, n)
    /\ pending' = <<>>
    /\ pc' = "down" /\ binary' = NoVersion

Next ==
    \/ \E b \in Binaries : HandleMigrations(b)
    \/ Flush \/ Crash

Spec == Init /\ [][Next]_vars

-----------------------------------------------------------------------------
(* Properties *)

\* The type of the state.
TypeOK ==
    /\ disk \in Store
    /\ pending \in Seq([tree : {"versioned_assets", "extra"}, val : Binaries])
    /\ pc \in {"down", "up"}

(***************************************************************************)
(* A database marked as migrated is migrated, whatever crashes it went    *)
(* through: whenever the DB_VERSION a restart would read passes the 1.17  *)
(* check (so handle_migrations would skip the patch), the DAPA asset a    *)
(* restart would read is the patched one.                                  *)
(***************************************************************************)
MarkedImpliesMigrated ==
    disk.version # NoVersion /\ IsVersionMatchingRequirement(disk.version) => disk.asset
=============================================================================
