---------------------- MODULE StorageMigrationsProofs ----------------------
(***************************************************************************)
(* Proof that handle_migrations never leaves a database marked as         *)
(* migrated without its patched asset, whatever the crashes, for every     *)
(* set of builds and old versions.                                         *)
(*                                                                         *)
(* MarkedImpliesMigrated speaks of the disk only, and is not inductive:   *)
(* a flush or a crash moves buffered writes to the disk, so the buffer    *)
(* must itself be safe to persist in part.  PatchPrecedesMark says that   *)
(* every buffered DB_VERSION write that passes the 1.17 check comes after *)
(* a buffered patch of the asset, or the disk is patched already.  The    *)
(* buffer holds at most the two writes of one run of the routine, since   *)
(* the daemon opens the database only after a crash emptied it.           *)
(***************************************************************************)
EXTENDS StorageMigrations, SequenceTheorems, TLAPS

USE MigrationsAssumption

\* A store passes the check only if its asset is patched.
Marked(s) == s.version # NoVersion /\ IsVersionMatchingRequirement(s.version) => s.asset

PatchPrecedesMark ==
    \A j \in 1 .. Len(pending) :
        pending[j].tree = "extra" /\ IsVersionMatchingRequirement(pending[j].val)
            => disk.asset \/ \E i \in 1 .. (j - 1) : pending[i].tree = "versioned_assets"

MigrationsInv ==
    /\ TypeOK
    /\ Len(pending) <= 2
    /\ pc = "down" => pending = <<>>
    /\ Marked(disk)
    /\ PatchPrecedesMark

\* The last position of a non-empty set of positions among the first two.
LEMMA LastOfTwo ==
    ASSUME NEW S \in SUBSET (1 .. 2), S # {}
    PROVE  /\ LastOf(S) \in S
           /\ \A k \in S : k <= LastOf(S)
<1>1. \E i \in S : \A k \in S : k <= i
  <2>1. CASE 2 \in S
    BY <2>1
  <2>2. CASE 2 \notin S
    <3>1. \A x \in S : x = 1
      BY <2>2
    <3>2. 1 \in S
      BY <3>1
    <3>. QED
      BY <3>1, <3>2
  <2>. QED
    BY <2>1, <2>2
<1>. QED
  BY <1>1 DEF LastOf

(***************************************************************************)
(* What a crash recovers from a safe buffer is a safe, well-typed store:  *)
(* any prefix of the buffered writes applied to the disk.                 *)
(***************************************************************************)
LEMMA RecoveredMarked ==
    ASSUME MigrationsInv, NEW n \in 0 .. Len(pending)
    PROVE  /\ ApplyFirst(disk, pending, n) \in Store
           /\ Marked(ApplyFirst(disk, pending, n))
<1> DEFINE marks == {i \in 1 .. n : pending[i].tree = "extra"}
           r == ApplyFirst(disk, pending, n)
<1>1. /\ disk \in Store
      /\ pending \in Seq([tree : {"versioned_assets", "extra"}, val : Binaries])
      /\ Len(pending) <= 2
  BY DEF MigrationsInv, TypeOK
<1>2. /\ r.asset \in BOOLEAN
      /\ disk.asset => r.asset
      /\ (\E i \in 1 .. n : pending[i].tree = "versioned_assets") => r.asset
      /\ r.asset => disk.asset \/ \E i \in 1 .. n : pending[i].tree = "versioned_assets"
  BY DEF ApplyFirst
<1>3. CASE marks = {}
  <2>1. r.version = disk.version
    BY <1>3 DEF ApplyFirst
  <2>2. Marked(disk)
    BY DEF MigrationsInv
  <2>3. r = [asset |-> r.asset, version |-> disk.version]
    BY <2>1 DEF ApplyFirst
  <2>4. r \in Store
    BY <1>1, <1>2, <2>3 DEF Store
  <2>. QED
    BY <1>2, <2>1, <2>2, <2>4 DEF Marked
<1>4. CASE marks # {}
  <2> DEFINE j == LastOf(marks)
  <2>1. marks \in SUBSET (1 .. 2)
    BY <1>1
  <2>2. j \in marks
    BY <1>4, <2>1, LastOfTwo
  <2>3. r.version = pending[j].val
    BY <1>4 DEF ApplyFirst
  <2>4. /\ j \in 1 .. n /\ j \in 1 .. Len(pending) /\ pending[j].tree = "extra"
        /\ pending[j].val \in Binaries
    <3>1. j \in 1 .. n /\ pending[j].tree = "extra"
      BY <2>2
    <3>2. j \in 1 .. Len(pending)
      BY <3>1
    <3>3. pending[j] \in [tree : {"versioned_assets", "extra"}, val : Binaries]
      BY <1>1, <3>2, ElementOfSeq
    <3>. QED
      BY <3>1, <3>2, <3>3
  <2>5. r \in Store
    <3>1. r = [asset |-> r.asset, version |-> pending[j].val]
      BY <2>3 DEF ApplyFirst
    <3>. QED
      BY <1>2, <2>4, <3>1 DEF Store
  <2>6. IsVersionMatchingRequirement(pending[j].val)
          => disk.asset \/ \E i \in 1 .. (j - 1) : pending[i].tree = "versioned_assets"
    BY <2>4 DEF MigrationsInv, PatchPrecedesMark
  <2>7. Marked(r)
    <3> SUFFICES ASSUME IsVersionMatchingRequirement(pending[j].val) PROVE r.asset
      BY <2>3 DEF Marked
    <3>1. disk.asset \/ \E i \in 1 .. (j - 1) : pending[i].tree = "versioned_assets"
      BY <2>6
    <3>. QED
      BY <1>2, <2>4, <3>1
  <2>. QED
    BY <2>5, <2>7
<1>. QED
  BY <1>3, <1>4

LEMMA InitInv == Init => MigrationsInv
<1> SUFFICES ASSUME Init PROVE MigrationsInv
  OBVIOUS
<1>1. PICK v \in OldVersions \cup {NoVersion} : disk = [asset |-> FALSE, version |-> v]
  BY DEF Init
<1>2. disk \in Store /\ Marked(disk)
  BY <1>1 DEF Store, Marked, IsVersionMatchingRequirement, Required
<1>3. pending = <<>> /\ pc = "down"
  BY DEF Init
<1>. QED
  BY <1>2, <1>3 DEF MigrationsInv, TypeOK, PatchPrecedesMark

\* A run of the routine on a closed database appends a safe buffer.
LEMMA HandleMigrationsInv ==
    ASSUME MigrationsInv, NEW b \in Binaries, HandleMigrations(b)
    PROVE  MigrationsInv'
<1> DEFINE patch == [tree |-> "versioned_assets", val |-> b]
           mark  == [tree |-> "extra", val |-> b]
           migrate == View.version = NoVersion \/ ~IsVersionMatchingRequirement(View.version)
<1>1. pending = <<>> /\ disk \in Store /\ Marked(disk)
  <2>1. pc = "down"
    BY DEF HandleMigrations
  <2>. QED
    BY <2>1 DEF MigrationsInv, TypeOK
<1>2. View = disk
  <2>1. View = [asset |-> disk.asset, version |-> disk.version]
    BY <1>1 DEF View, ApplyFirst, Store
  <2>. QED
    BY <1>1, <2>1 DEF Store
<1>3. /\ pending' = IF migrate THEN <<patch, mark>> ELSE <<mark>>
      /\ disk' = disk /\ pc' = "up"
  BY <1>1 DEF HandleMigrations
<1>4. patch \in [tree : {"versioned_assets", "extra"}, val : Binaries]
      /\ mark \in [tree : {"versioned_assets", "extra"}, val : Binaries]
  OBVIOUS
<1>5. CASE migrate
  <2>1. pending' = <<patch, mark>>
    BY <1>3, <1>5
  <2>2. PatchPrecedesMark'
    BY <2>1, <1>3 DEF PatchPrecedesMark
  <2>3. pending' \in Seq([tree : {"versioned_assets", "extra"}, val : Binaries])
        /\ Len(pending') <= 2
    BY <1>4, <2>1
  <2>. QED
    BY <1>1, <1>3, <2>2, <2>3 DEF MigrationsInv, TypeOK
<1>6. CASE ~migrate
  <2>1. pending' = <<mark>>
    BY <1>3, <1>6
  <2>2. disk.asset
    BY <1>1, <1>2, <1>6 DEF Marked
  <2>3. PatchPrecedesMark'
    BY <2>1, <2>2, <1>3 DEF PatchPrecedesMark
  <2>4. pending' \in Seq([tree : {"versioned_assets", "extra"}, val : Binaries])
        /\ Len(pending') <= 2
    BY <1>4, <2>1
  <2>. QED
    BY <1>1, <1>3, <2>3, <2>4 DEF MigrationsInv, TypeOK
<1>. QED
  BY <1>5, <1>6

\* A flush persists the head of a safe buffer and leaves a safe buffer.
LEMMA FlushInv ==
    ASSUME MigrationsInv, Flush
    PROVE  MigrationsInv'
<1> DEFINE w == Head(pending)
<1>1. /\ pending \in Seq([tree : {"versioned_assets", "extra"}, val : Binaries])
      /\ pending # <<>> /\ disk \in Store /\ Marked(disk) /\ Len(pending) <= 2
  BY DEF Flush, MigrationsInv, TypeOK
<1>2. /\ w \in [tree : {"versioned_assets", "extra"}, val : Binaries]
      /\ pending' = Tail(pending)
      /\ Tail(pending) \in Seq([tree : {"versioned_assets", "extra"}, val : Binaries])
      /\ Len(Tail(pending)) = Len(pending) - 1
      /\ \A k \in 1 .. Len(pending) - 1 : Tail(pending)[k] = pending[k + 1]
  BY <1>1, HeadTailProperties DEF Flush
<1>10. w = pending[1]
  OBVIOUS
<1>3. disk' = Apply(disk, w) /\ pc' = pc
  BY DEF Flush
<1>4. pc = "up"
  BY <1>1 DEF MigrationsInv, TypeOK
<1>5. disk' \in Store
  BY <1>1, <1>2, <1>3 DEF Apply, Store
<1>6. w.tree = "versioned_assets" => disk'.asset
  BY <1>1, <1>3 DEF Apply, Store
<1>7. ~(w.tree = "versioned_assets") => disk' = [disk EXCEPT !.version = w.val]
  BY <1>3 DEF Apply
<1>8. Marked(disk')
  <2>1. CASE w.tree = "versioned_assets"
    BY <1>6, <2>1 DEF Marked
  <2>2. CASE w.tree = "extra"
    <3>1. IsVersionMatchingRequirement(w.val) => disk.asset
      BY <1>1, <1>2, <1>10, <2>2 DEF MigrationsInv, PatchPrecedesMark
    <3>. QED
      BY <1>1, <1>7, <2>2, <3>1 DEF Marked, Store
  <2>. QED
    BY <1>2, <2>1, <2>2
<1>9. PatchPrecedesMark'
  <2> SUFFICES ASSUME NEW j \in 1 .. Len(pending'),
                      pending'[j].tree = "extra",
                      IsVersionMatchingRequirement(pending'[j].val)
               PROVE  disk'.asset \/ \E i \in 1 .. (j - 1) : pending'[i].tree = "versioned_assets"
    BY DEF PatchPrecedesMark
  <2>1. j + 1 \in 1 .. Len(pending) /\ pending'[j] = pending[j + 1]
    BY <1>2
  <2>2. disk.asset \/ \E i \in 1 .. j : pending[i].tree = "versioned_assets"
    BY <2>1 DEF MigrationsInv, PatchPrecedesMark
  <2>3. disk.asset => disk'.asset
    BY <1>1, <1>3 DEF Apply, Store
  <2>4. CASE disk.asset
    BY <2>3, <2>4
  <2>5. CASE \E i \in 1 .. j : pending[i].tree = "versioned_assets"
    <3>1. PICK i \in 1 .. j : pending[i].tree = "versioned_assets"
      BY <2>5
    <3>2. CASE i = 1
      BY <1>6, <1>10, <3>1, <3>2
    <3>3. CASE i # 1
      <4>1. i - 1 \in 1 .. (j - 1) /\ pending'[i - 1] = pending[i]
        BY <1>2, <2>1, <3>1, <3>3
      <4>. QED
        BY <3>1, <4>1
    <3>. QED
      BY <3>2, <3>3
  <2>. QED
    BY <2>2, <2>4, <2>5
<1>. QED
  BY <1>2, <1>3, <1>4, <1>5, <1>8, <1>9 DEF MigrationsInv, TypeOK

\* A crash recovers a safe store and empties the buffer.
LEMMA CrashInv ==
    ASSUME MigrationsInv, Crash
    PROVE  MigrationsInv'
<1>1. PICK n \in 0 .. Len(pending) : disk' = ApplyFirst(disk, pending, n)
  BY DEF Crash
<1>2. disk' \in Store /\ Marked(disk')
  BY <1>1, RecoveredMarked
<1>3. pending' = <<>> /\ pc' = "down"
  BY DEF Crash
<1>. QED
  BY <1>2, <1>3 DEF MigrationsInv, TypeOK, PatchPrecedesMark

LEMMA NextInv == MigrationsInv /\ [Next]_vars => MigrationsInv'
<1> SUFFICES ASSUME MigrationsInv, [Next]_vars PROVE MigrationsInv'
  OBVIOUS
<1>1. CASE \E b \in Binaries : HandleMigrations(b)
  BY <1>1, HandleMigrationsInv
<1>2. CASE Flush
  BY <1>2, FlushInv
<1>3. CASE Crash
  BY <1>3, CrashInv
<1>4. CASE UNCHANGED vars
  BY <1>4 DEF vars, MigrationsInv, TypeOK, Marked, PatchPrecedesMark
<1>. QED
  BY <1>1, <1>2, <1>3, <1>4 DEF Next

(***************************************************************************)
(* handle_migrations marks a database as migrated only once its patched   *)
(* DAPA asset is on disk: in every reachable state, for every set of      *)
(* builds, a DB_VERSION that passes the 1.17 check comes with the patch.  *)
(***************************************************************************)
THEOREM MarkedImpliesMigratedInvariant == Spec => []MarkedImpliesMigrated
<1>1. Init => MigrationsInv
  BY InitInv
<1>2. MigrationsInv /\ [Next]_vars => MigrationsInv'
  BY NextInv
<1>3. MigrationsInv => MarkedImpliesMigrated
  BY DEF MigrationsInv, Marked, MarkedImpliesMigrated
<1>. QED
  BY <1>1, <1>2, <1>3, PTL DEF Spec

=============================================================================
