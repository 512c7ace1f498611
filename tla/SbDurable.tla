------------------------------ MODULE SbDurable ------------------------------
(***************************************************************************)
(* What the superblock write path promises, without devices, slots or      *)
(* waves: the filesystem holds a superblock version in memory; writing it  *)
(* makes a new version and may make it the newest one that a mount would  *)
(* find on disk; a crash loses memory, and a mount resumes from the newest *)
(* version on disk.  Versions are sequence numbers.                        *)
(***************************************************************************)
EXTENDS Naturals

VARIABLES
    mem,    \* version of the superblock in memory
    disk,   \* newest version a mount would find
    up      \* the filesystem is running

Init == mem = 0 /\ disk = 0 /\ up = TRUE

\* bch2_write_super starts a new version.
Bump == up /\ mem' = mem + 1 /\ UNCHANGED <<disk, up>>

\* A copy of the version in memory lands on disk.
Persist == up /\ disk' = mem /\ UNCHANGED <<mem, up>>

\* A crash: writes in flight land or not; memory is lost.
Crash == up /\ up' = FALSE /\ disk' \in {disk, mem} /\ UNCHANGED mem

\* Mount: memory resumes from the newest version on disk.
Recover == ~up /\ up' = TRUE /\ mem' = disk /\ UNCHANGED disk

Next == Bump \/ Persist \/ Crash \/ Recover

Spec == Init /\ [][Next]_<<mem, disk, up>>

=============================================================================
