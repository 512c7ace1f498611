------------------------------- MODULE SbWrite -------------------------------
(***************************************************************************)
(* The superblock write path of libbcachefs/super-io.c, with the read path *)
(* that finds a superblock again after a crash.                           *)
(*                                                                         *)
(* c->disk_sb is the filesystem-wide image (diskSb); every member device   *)
(* keeps its own copy (devSb) that bch2_write_super refreshes from it and  *)
(* writes to each superblock slot of the device's layout, one slot index   *)
(* per wave, waiting for the wave to complete before starting the next.    *)
(* An image is abstracted to its sequence number, whether it passes        *)
(* bch2_sb_validate, and its size in u64s.  A slot of a device holds the   *)
(* image last written there, or Torn when a write was cut by a crash or    *)
(* failed, so that its checksum no longer matches.                        *)
(***************************************************************************)
EXTENDS Naturals, FiniteSets, FiniteSetsExt

CONSTANTS
    Dev,          \* member devices of the filesystem
    NrSb,         \* NrSb[d]: layout.nr_superblocks of device d
    Budget,       \* Budget[d]: 512 << layout.sb_max_size_bits of d, in u64s
    JournalU64s,  \* JournalU64s[d]: size of d's journal-buckets field
    Sizes,        \* sizes (u64s) a field resize may give c->disk_sb
    InitU64s,     \* size of c->disk_sb written by format
    MaxSeq,       \* bound on the superblock sequence number
    MaxCrash,     \* bound on the number of crashes
    MaxFailed,    \* bound on the number of devices a write fails on
    NoChanges,    \* c->opts.nochanges
    WriteCache,   \* a completed write may still be lost by a power loss
    Torn          \* model value: a slot whose checksum does not match

ASSUME /\ \A d \in Dev : NrSb[d] \in Nat \ {0}
       /\ InitU64s \in Sizes /\ MaxSeq \in Nat /\ MaxCrash \in Nat
       /\ MaxFailed \in Nat
       /\ NoChanges \in BOOLEAN /\ WriteCache \in BOOLEAN

VARIABLES
    diskSb,     \* c->disk_sb
    devSb,      \* devSb[d]: ca->disk_sb.sb, the device's own copy
    online,     \* members iterated by for_each_online_member
    sbDisk,     \* sbDisk[d][i]: content of superblock slot i on device d,
                \* as a read sees it
    stable,     \* stable[d][i]: what of it is on stable storage
    inflight,   \* superblock bios submitted and not yet completed
    wstate,     \* idle; dirty (a caller changed c->disk_sb under sb_lock and
                \* is about to call bch2_write_super); issue a wave; sync on
                \* it; down after a crash
    fsError,    \* BCH_FS_ERROR in c->flags
    cached,     \* seq of the image c->sb was last refreshed from
    failed,     \* devices on which a superblock write completed with error
    crashes     \* number of crashes so far

vars == <<diskSb, devSb, online, sbDisk, stable, inflight, wstate, fsError, cached,
          failed, crashes>>

Slots(d) == 0 .. NrSb[d] - 1

Image == [seq : 0 .. MaxSeq, ok : BOOLEAN, u64s : Nat]

\* The device image for a filesystem image: the device keeps its journal
\* field, which __copy_super never copies.
DevImage(img, d) == [img EXCEPT !.u64s = @ + JournalU64s[d]]

\* bch2_sb_realloc: a buffer may not outgrow the layout's per-copy budget.
SbReallocOk(d, u64s) == u64s <= Budget[d]

(***************************************************************************)
(* Read path.  read_one_super rejects a copy whose checksum fails or that  *)
(* is larger than the layout allows; bch2_read_super tries the default     *)
(* sector (slot 0) and then every layout slot in order, skipping the one   *)
(* at the default sector.                                                  *)
(***************************************************************************)
ReadOne(disk, d, i) ==
    disk[d][i] # Torn /\ SbReallocOk(d, disk[d][i].u64s)

RECURSIVE FirstGood(_, _, _)
FirstGood(disk, d, i) ==
    IF i >= NrSb[d] THEN Torn
    ELSE IF ReadOne(disk, d, i) THEN disk[d][i]
    ELSE FirstGood(disk, d, i + 1)

\* Variant: a failure at the default sector is final, as when the caller
\* passed an explicit offset.
ReadSuperOnNoFallback(disk, d) ==
    IF ReadOne(disk, d, 0) THEN disk[d][0] ELSE Torn

ReadSuperOn(disk, d) ==
    IF ReadOne(disk, d, 0) THEN disk[d][0] ELSE FirstGood(disk, d, 1)

ReadSuper(d) == ReadSuperOn(sbDisk, d)

Init ==
    LET img == [seq |-> 0, ok |-> TRUE, u64s |-> InitU64s] IN
    /\ diskSb = img
    /\ devSb = [d \in Dev |-> DevImage(img, d)]
    /\ online = Dev
    /\ sbDisk = [d \in Dev |-> [i \in Slots(d) |-> DevImage(img, d)]]
    /\ stable = sbDisk
    /\ inflight = {}
    /\ wstate = [phase |-> "idle", idx |-> 0, wrote |-> FALSE]
    /\ fsError = FALSE
    /\ cached = 0
    /\ failed = {}
    /\ crashes = 0

(***************************************************************************)
(* Mutations made under sb_lock by the callers of bch2_write_super.        *)
(***************************************************************************)

\* A caller changes options or members of c->disk_sb; the new image may
\* or may not pass validation.  The caller then calls bch2_write_super.
SbMutate ==
    /\ wstate.phase \in {"idle", "dirty"}
    /\ \E ok \in BOOLEAN : diskSb' = [diskSb EXCEPT !.ok = ok]
    /\ wstate' = [wstate EXCEPT !.phase = "dirty"]
    /\ UNCHANGED <<devSb, online, sbDisk, stable, inflight, fsError, cached,
                   failed, crashes>>

\* bch2_fs_sb_field_resize: every online member must have room for the
\* size change in its own buffer; offline members are not checked.  When
\* one has no room the call returns NULL and nothing changes.  Both callers
\* (bch2_check_mark_super_slowpath, bch2_replicas_gc_end) call
\* bch2_write_super after a successful resize, before giving up sb_lock.

FieldResizeFits(d, u) == SbReallocOk(d, devSb[d].u64s + (u - diskSb.u64s))

FsFieldResize(u) ==
    /\ wstate.phase = "idle"
    /\ \A d \in online : FieldResizeFits(d, u)
    /\ diskSb' = [diskSb EXCEPT !.u64s = u]
    /\ wstate' = [wstate EXCEPT !.phase = "dirty"]
    /\ UNCHANGED <<devSb, online, sbDisk, stable, inflight, fsError, cached,
                   failed, crashes>>

(***************************************************************************)
(* bch2_write_super.                                                       *)
(***************************************************************************)

\* bch2_sb_from_fs: grow the device buffer to the new size plus its journal
\* field, then copy; when the buffer cannot grow the copy is left as it was.
FromFs(d, src) ==
    IF SbReallocOk(d, src.u64s + JournalU64s[d])
    THEN DevImage(src, d) ELSE devSb[d]

\* Variant: the sequence number bumped twice.
NewSbDoubleBump == [diskSb EXCEPT !.seq = @ + 2]

NewSb == [diskSb EXCEPT !.seq = @ + 1]

\* The refresh loop ignores bch2_sb_from_fs's return value.
Refreshed == [d \in Dev |-> IF d \in online THEN FromFs(d, NewSb)
                                            ELSE devSb[d]]

CopiesValid == \A d \in online : Refreshed[d].ok

WriteBegin ==
    /\ wstate.phase \in {"idle", "dirty"}
    /\ diskSb.seq < MaxSeq
    /\ diskSb' = NewSb
    /\ devSb' = Refreshed

\* A refreshed copy fails validation: inconsistent, nothing is written.
WriteSuperInvalid ==
    /\ WriteBegin
    /\ ~CopiesValid
    /\ fsError' = TRUE
    /\ cached' = NewSb.seq
    /\ wstate' = [wstate EXCEPT !.phase = "idle"]
    /\ UNCHANGED <<online, sbDisk, stable, inflight, failed, crashes>>

\* nochanges, or the filesystem is already in error: stop after validation.
WriteSuperNoop ==
    /\ WriteBegin
    /\ CopiesValid
    /\ NoChanges \/ fsError
    /\ cached' = NewSb.seq
    /\ wstate' = [wstate EXCEPT !.phase = "idle"]
    /\ UNCHANGED <<online, sbDisk, stable, inflight, fsError, failed, crashes>>

WriteSuperStart ==
    /\ WriteBegin
    /\ CopiesValid
    /\ ~NoChanges /\ ~fsError
    /\ wstate' = [phase |-> "issue", idx |-> 0, wrote |-> FALSE]
    /\ UNCHANGED <<online, sbDisk, stable, inflight, fsError, cached, failed, crashes>>

\* Variant: the layout walked from the last slot to the first.
WaveSlotsReversed(d, idx) == IF idx < NrSb[d] THEN {NrSb[d] - 1 - idx} ELSE {}

\* write_one_super: the slot that wave idx writes on device d, if any.
WaveSlots(d, idx) == IF idx < NrSb[d] THEN {idx} ELSE {}

\* One pass of the for_each_online_member loop: one checksummed bio per
\* device that still has a slot for this wave.
IssueWave ==
    /\ wstate.phase = "issue"
    /\ LET W == UNION {{[dev |-> d, slot |-> i, img |-> devSb[d]] :
                             i \in WaveSlots(d, wstate.idx)} : d \in online}
       IN /\ inflight' = W
          /\ wstate' = [wstate EXCEPT !.phase = "sync", !.wrote = W # {}]
    /\ UNCHANGED <<diskSb, devSb, online, sbDisk, stable, fsError, cached, failed,
                   crashes>>

\* Completion of a write is stable only without a volatile cache: the bio
\* is REQ_SYNC|REQ_META, with neither REQ_FUA nor REQ_PREFLUSH.
Completed(disk) == IF WriteCache THEN stable ELSE disk

\* write_super_endio, success.
WriteEndioOk(w) ==
    /\ w \in inflight
    /\ sbDisk' = [sbDisk EXCEPT ![w.dev][w.slot] = w.img]
    /\ stable' = Completed(sbDisk')
    /\ inflight' = inflight \ {w}
    /\ UNCHANGED <<diskSb, devSb, online, wstate, fsError, cached, failed,
                   crashes>>

\* write_super_endio with bi_error: reported, and the slot is left either
\* untouched or unreadable; the write path carries on.
WriteEndioErr(w) ==
    /\ w \in inflight
    /\ Cardinality(failed \cup {w.dev}) <= MaxFailed
    /\ \E c \in {sbDisk[w.dev][w.slot], Torn} :
          sbDisk' = [sbDisk EXCEPT ![w.dev][w.slot] = c]
    /\ stable' = Completed(sbDisk')
    /\ inflight' = inflight \ {w}
    /\ failed' = failed \cup {w.dev}
    /\ UNCHANGED <<diskSb, devSb, online, wstate, fsError, cached, crashes>>

\* closure_sync returned and some device was written: next slot index.
NextWave ==
    /\ wstate.phase = "sync" /\ inflight = {} /\ wstate.wrote
    /\ wstate' = [phase |-> "issue", idx |-> wstate.idx + 1, wrote |-> FALSE]
    /\ UNCHANGED <<diskSb, devSb, online, sbDisk, stable, inflight, fsError, cached,
                   failed, crashes>>

\* Variant: the success path returns without bch2_sb_update.
WriteSuperDoneNoUpdate ==
    /\ wstate.phase = "sync" /\ inflight = {} /\ ~wstate.wrote
    /\ wstate' = [phase |-> "idle", idx |-> 0, wrote |-> FALSE]
    /\ UNCHANGED <<diskSb, devSb, online, sbDisk, stable, inflight, fsError, cached,
                   failed, crashes>>

\* No device had a slot left: bch2_sb_update refreshes c->sb.
WriteSuperDone ==
    /\ wstate.phase = "sync" /\ inflight = {} /\ ~wstate.wrote
    /\ wstate' = [phase |-> "idle", idx |-> 0, wrote |-> FALSE]
    /\ cached' = diskSb.seq
    /\ UNCHANGED <<diskSb, devSb, online, sbDisk, stable, inflight, fsError, failed,
                   crashes>>

(***************************************************************************)
(* Devices going offline and online, crash and mount.                      *)
(***************************************************************************)

\* Device offline kills io_ref; write_one_super's tryget then fails and
\* for_each_online_member skips the device.  The last device stays.
DevOffline(d) ==
    /\ d \in online /\ online # {d} /\ wstate.phase # "down"
    /\ online' = online \ {d}
    /\ UNCHANGED <<diskSb, devSb, sbDisk, stable, inflight, wstate, fsError,
                   cached, failed, crashes>>

\* Device online under sb_lock: its copy is what bch2_read_super finds.
DevOnline(d) ==
    /\ d \notin online /\ wstate.phase = "idle"
    /\ ReadSuper(d) # Torn
    /\ devSb' = [devSb EXCEPT ![d] = ReadSuper(d)]
    /\ online' = online \cup {d}
    /\ UNCHANGED <<diskSb, sbDisk, stable, inflight, wstate, fsError, cached, failed,
                   crashes>>

\* Slots whose completed write is not yet on stable storage.
Unstable == UNION {{<<d, i>> : i \in {j \in Slots(d) : stable[d][j] # sbDisk[d][j]}} : d \in Dev}

\* A crash: each write in flight lands, is lost, or tears its slot; a slot
\* whose completed write is not yet stable (a volatile cache) keeps it,
\* loses it, or is torn by a partial write-back.  All memory is gone.
Crash ==
    /\ crashes < MaxCrash /\ wstate.phase # "down"
    /\ \E land \in [inflight -> {"new", "old", "torn"}],
          back \in [Unstable -> {"new", "old", "torn"}] :
          LET Landed(x, new, old) == CASE x = "new" -> new
                                       [] x = "old" -> old
                                       [] OTHER -> Torn
              Before(d, i) == IF <<d, i>> \in Unstable
                              THEN Landed(back[<<d, i>>], sbDisk[d][i], stable[d][i])
                              ELSE sbDisk[d][i]
          IN sbDisk' = [d \in Dev |-> [i \in Slots(d) |->
                          LET W == {w \in inflight : w.dev = d /\ w.slot = i}
                          IN IF W = {} THEN Before(d, i)
                             ELSE LET w == CHOOSE x \in W : TRUE
                                  IN Landed(land[w], w.img, Before(d, i))]]
    /\ stable' = sbDisk'
    /\ inflight' = {}
    /\ wstate' = [phase |-> "down", idx |-> 0, wrote |-> FALSE]
    /\ crashes' = crashes + 1
    /\ UNCHANGED <<diskSb, devSb, online, fsError, cached, failed>>

\* Variant: any readable copy is taken, not the newest.
MountCopyAny(up, b) == b \in up

\* The copy a mount starts from: bch2_fs_open (super.c, not in this tree)
\* takes the readable superblock with the highest seq.
MountCopy(up, b) == b \in up /\ \A d \in up : ReadSuper(d).seq <= ReadSuper(b).seq

\* Mount: bch2_read_super on every device; the newest superblock found
\* becomes c->disk_sb (bch2_sb_to_fs), devices with none stay offline.
\* Starting the filesystem then writes the superblock (mount time, member
\* state), so the next superblock step is bch2_write_super.
Mount ==
    /\ wstate.phase = "down"
    /\ LET up == {d \in Dev : ReadSuper(d) # Torn} IN
       /\ up # {}
       /\ \E b \in up :
            /\ MountCopy(up, b)
            /\ diskSb' = [ReadSuper(b) EXCEPT !.u64s = @ - JournalU64s[b]]
            /\ cached' = ReadSuper(b).seq
       /\ online' = up
       /\ devSb' = [d \in Dev |-> IF d \in up THEN ReadSuper(d) ELSE devSb[d]]
    /\ wstate' = [phase |-> "dirty", idx |-> 0, wrote |-> FALSE]
    /\ fsError' = FALSE
    /\ UNCHANGED <<sbDisk, stable, inflight, failed, crashes>>

Next ==
    \/ SbMutate
    \/ \E u \in Sizes : FsFieldResize(u)
    \/ WriteSuperInvalid \/ WriteSuperNoop \/ WriteSuperStart
    \/ IssueWave
    \/ \E w \in inflight : WriteEndioOk(w) \/ WriteEndioErr(w)
    \/ NextWave \/ WriteSuperDone
    \/ \E d \in Dev : DevOffline(d) \/ DevOnline(d)
    \/ Crash \/ Mount

Spec == Init /\ [][Next]_vars

\* The block layer completes every superblock bio it is given (BlockIO's
\* Terminates), so closure_sync returns; the thread holding sb_lock keeps
\* running the write path while it is enabled.
Endio == \E w \in inflight : WriteEndioOk(w) \/ WriteEndioErr(w)

FairSpec ==
    /\ Spec
    /\ WF_vars(IssueWave) /\ WF_vars(Endio)
    /\ WF_vars(NextWave) /\ WF_vars(WriteSuperDone)

(***************************************************************************)
(* Properties.                                                             *)
(***************************************************************************)

TypeOK ==
    /\ diskSb \in Image
    /\ devSb \in [Dev -> Image]
    /\ online \subseteq Dev
    /\ \A d \in Dev : \A i \in Slots(d) :
          sbDisk[d][i] \in Image \cup {Torn} /\ stable[d][i] \in Image \cup {Torn}
    /\ wstate.phase \in {"idle", "dirty", "issue", "sync", "down"}
    /\ fsError \in BOOLEAN /\ failed \subseteq Dev
    /\ cached \in 0 .. MaxSeq /\ crashes \in 0 .. MaxCrash

IntactSlots(d) == {i \in Slots(d) : ReadOne(sbDisk, d, i)}

\* Crash safety of the wave order: however bch2_write_super is cut short,
\* every device whose writes never failed still has a superblock that
\* bch2_read_super accepts.
SomeIntactCopy ==
    \A d \in Dev \ failed : ReadSuper(d) # Torn

\* The read path's order (default sector first, then the backups in
\* layout order) agrees with the write path's wave order: on a device
\* whose writes never failed, the copy bch2_read_super returns is the
\* newest intact copy on that device.
ReadFindsNewest ==
    \A d \in Dev \ failed :
        IntactSlots(d) # {} =>
            /\ ReadSuper(d) # Torn
            /\ ReadSuper(d).seq = Max({sbDisk[d][i].seq : i \in IntactSlots(d)})

\* Every superblock bio bch2_write_super has in flight carries the sequence
\* number it has just assigned: no device is written with a stale copy.
InflightCurrent ==
    \A w \in inflight : w.img.seq = diskSb.seq

\* A write that has started its waves finishes unless the machine crashes
\* first: every wave completes, the slot index runs past every layout, and
\* bch2_sb_update makes the version written visible in c->sb.
WriteCompletes ==
    wstate.phase = "issue" ~>
        \/ wstate.phase = "idle" /\ cached = diskSb.seq
        \/ wstate.phase = "down"

(***************************************************************************)
(* Refinement: the newest superblock a mount would find is the largest     *)
(* sequence number bch2_read_super returns over the devices.               *)
(***************************************************************************)
NewestOnDisk ==
    LET found == {ReadSuper(d) : d \in {x \in Dev : ReadSuper(x) # Torn}}
    IN IF found = {} THEN 0 ELSE Max({c.seq : c \in found})

Durable == INSTANCE SbDurable WITH
    mem  <- diskSb.seq,
    disk <- NewestOnDisk,
    up   <- wstate.phase # "down"

\* The write path implements the durable register: the version on disk
\* only ever becomes the one in memory, never an older one, and a mount
\* resumes from the newest version on disk.
Refines == Durable!Spec

=============================================================================
