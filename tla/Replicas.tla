------------------------------ MODULE Replicas ------------------------------
(***************************************************************************)
(* The replica index of libbcachefs/super-io.c: the replicas field of      *)
(* c->disk_sb, the in-memory index c->replicas derived from it, and the    *)
(* garbage-collection copy c->replicas_gc.                                 *)
(*                                                                         *)
(* Writers mark the (data type, device set) of an extent before they      *)
(* insert the extent: a lock-free check of the index, then, on a miss,     *)
(* bch2_check_mark_super_slowpath under sb_lock.  A GC caller, holding     *)
(* replicas_gc_lock, starts a GC with a data-type mask, re-marks every     *)
(* live extent of those types, and ends the GC, which replaces the index   *)
(* and the superblock field by the GC copy.                                *)
(*                                                                         *)
(* An entry is a record [type, devs]; the sorted arrays of the code are    *)
(* sets here, except the on-disk field, a sequence, where a duplicate is   *)
(* visible.  bch2_write_super is the assignment of the field to diskR.    *)
(***************************************************************************)
EXTENDS Naturals, FiniteSets, Sequences, SequencesExt, Bitwise

CONSTANTS
    DevIdx,       \* device indices
    DataTypes,    \* values of enum bch_data_types an extent may have
    Extents,      \* entries of the extents writers may create
    Masks,        \* typemasks bch2_replicas_gc_start may be called with
    Markers,      \* threads writing extents
    FieldBudget,  \* u64s the replicas field may take in the superblock
    NULL          \* model value: c->replicas_gc when no GC runs

Entry == [type : DataTypes, devs : SUBSET DevIdx]

ASSUME /\ Extents \subseteq Entry
       /\ \A e \in Extents : e.devs # {}
       /\ FieldBudget \in Nat

VARIABLES
    sbR,     \* replicas field of c->disk_sb, a sequence of entries
    cpuR,    \* c->replicas
    gcR,     \* c->replicas_gc, or NULL
    diskR,   \* replicas field as last written by bch2_write_super
    gc,      \* the GC caller: phase, mask, extents it has re-marked
    live,    \* extents that exist on disk
    pc       \* pc[m]: where marker m is, and the entry it marks

vars == <<sbR, cpuR, gcR, diskR, gc, live, pc>>

(***************************************************************************)
(* Field size.  An on-disk entry is data_type, nr and one byte per device. *)
(* bch2_sb_replicas_nr_entries counts the field header in bytes, and both *)
(* bch2_check_mark_super_slowpath and bch2_replicas_gc_end add it again    *)
(* when they convert bytes to u64s.                                        *)
(***************************************************************************)
EntryBytes(e) == 2 + Cardinality(e.devs)

FieldHeader == 8

FieldU64s(entryBytes) == (FieldHeader + FieldHeader + entryBytes + 7) \div 8

SeqEntryBytes(s) == FoldSeq(LAMBDA e, acc : EntryBytes(e) + acc, 0, s)

SetEntryBytes(S) == MapThenSumSet(EntryBytes, S)

(***************************************************************************)
(* Index lookups.                                                          *)
(***************************************************************************)

\* Variant: the conversion loop runs one entry past the end and picks up
\* the zeroed terminator.
ToCpuOverrun(s) ==
    IF s = <<>> THEN {} ELSE ToSet(s) \cup {[type |-> 0, devs |-> {}]}

\* bch2_sb_replicas_to_cpu_replicas: c->replicas rebuilt from the field.
ToCpu(s) == ToSet(s)

\* The lock-free check of bch2_check_mark_super: the entry is in the index
\* and, while a GC runs, in the GC copy too.
Marked(e) == e \in cpuR /\ (gcR = NULL \/ e \in gcR)

\* bch2_replicas_gc_start keeps an entry unless data_type & typemask.
GcDrops(e, mask) == (e.type & mask) # 0

\* The GC caller re-marks the extents whose type is in its mask.
InMask(e, mask) == ((2 ^ e.type) & mask) # 0

Init ==
    /\ sbR = <<>>
    /\ cpuR = {}
    /\ gcR = NULL
    /\ diskR = <<>>
    /\ gc = [phase |-> "idle", mask |-> 0, scanned |-> {}]
    /\ live = {}
    /\ pc = [m \in Markers |-> [at |-> "idle", e |-> NULL]]

(***************************************************************************)
(* bch2_check_mark_super_slowpath(e), under sb_lock.  It first adds the   *)
(* entry to a running GC's copy (bch2_update_gc_replicas), then rechecks  *)
(* the index, and on a miss appends the entry to the field, rebuilds the  *)
(* index and writes the superblock.  Each outcome is an action on the     *)
(* shared state; the marker and the GC caller wrap them.                  *)
(***************************************************************************)
GcUpdated(e) == IF gcR # NULL /\ e \notin gcR THEN gcR \cup {e} ELSE gcR

\* Recheck found the entry: another writer raced ahead.
SlowpathHit(e) ==
    /\ gcR' = GcUpdated(e)
    /\ e \in cpuR
    /\ UNCHANGED <<sbR, cpuR, diskR>>

\* The field cannot grow: -ENOSPC, the GC copy keeps the entry.
SlowpathNoSpace(e) ==
    /\ gcR' = GcUpdated(e)
    /\ e \notin cpuR
    /\ FieldU64s(SeqEntryBytes(sbR) + EntryBytes(e)) > FieldBudget
    /\ UNCHANGED <<sbR, cpuR, diskR>>

\* bch2_update_gc_replicas cannot allocate the grown GC copy: -ENOMEM
\* before the recheck, nothing changed.
SlowpathGcNoMem(e) ==
    /\ gcR # NULL /\ e \notin gcR
    /\ UNCHANGED <<sbR, cpuR, gcR, diskR>>

\* Variant: the new entry is not zeroed when the conversion fails.
SlowpathNoMemNoZero(e) ==
    /\ gcR' = GcUpdated(e)
    /\ e \notin cpuR
    /\ FieldU64s(SeqEntryBytes(sbR) + EntryBytes(e)) <= FieldBudget
    /\ sbR' = Append(sbR, e)
    /\ UNCHANGED <<cpuR, diskR>>

\* The field grew and the entry was written, but
\* bch2_sb_replicas_to_cpu_replicas cannot allocate: the entry is zeroed,
\* a zero data_type ends the field's entry walk, so the field holds its
\* old entries; -ENOMEM, nothing written, the GC copy keeps the entry.
SlowpathNoMem(e) ==
    /\ gcR' = GcUpdated(e)
    /\ e \notin cpuR
    /\ FieldU64s(SeqEntryBytes(sbR) + EntryBytes(e)) <= FieldBudget
    /\ UNCHANGED <<sbR, cpuR, diskR>>

\* Variant: the "recheck, might have raced" test left out.
SlowpathAppendNoRecheck(e) ==
    /\ gcR' = GcUpdated(e)
    /\ FieldU64s(SeqEntryBytes(sbR) + EntryBytes(e)) <= FieldBudget
    /\ sbR' = Append(sbR, e)
    /\ cpuR' = ToCpu(sbR')
    /\ diskR' = sbR'

\* Variant: the superblock not written after the append.
SlowpathAppendNoWrite(e) ==
    /\ gcR' = GcUpdated(e)
    /\ e \notin cpuR
    /\ FieldU64s(SeqEntryBytes(sbR) + EntryBytes(e)) <= FieldBudget
    /\ sbR' = Append(sbR, e)
    /\ cpuR' = ToCpu(sbR')
    /\ diskR' = diskR

SlowpathAppend(e) ==
    /\ gcR' = GcUpdated(e)
    /\ e \notin cpuR
    /\ FieldU64s(SeqEntryBytes(sbR) + EntryBytes(e)) <= FieldBudget
    /\ sbR' = Append(sbR, e)
    /\ cpuR' = ToCpu(sbR')
    /\ diskR' = sbR'

Slowpath(e) == SlowpathHit(e) \/ SlowpathAppend(e)

\* The slowpath's error exits: the extent is not marked.
SlowpathFails(e) == SlowpathNoSpace(e) \/ SlowpathNoMem(e) \/ SlowpathGcNoMem(e)

(***************************************************************************)
(* Writers.                                                                *)
(***************************************************************************)

\* A marker picks an extent to write and checks the index lock-free.
MarkStart(m, e) ==
    /\ pc[m].at = "idle"
    /\ pc' = [pc EXCEPT ![m] = [at |-> IF Marked(e) THEN "insert" ELSE "slow",
                                e |-> e]]
    /\ UNCHANGED <<sbR, cpuR, gcR, diskR, gc, live>>

MarkSlow(m) ==
    /\ pc[m].at = "slow"
    /\ \/ Slowpath(pc[m].e) /\ pc' = [pc EXCEPT ![m].at = "insert"]
       \/ SlowpathFails(pc[m].e) /\ pc' = [pc EXCEPT ![m] = [at |-> "idle", e |-> NULL]]
    /\ UNCHANGED <<gc, live>>

\* Marking succeeded: the extent is inserted.
Insert(m) ==
    /\ pc[m].at = "insert"
    /\ live' = live \cup {pc[m].e}
    /\ pc' = [pc EXCEPT ![m] = [at |-> "idle", e |-> NULL]]
    /\ UNCHANGED <<sbR, cpuR, gcR, diskR, gc>>

\* An extent is overwritten or deleted.
Drop(e) ==
    /\ e \in live
    /\ live' = live \ {e}
    /\ UNCHANGED <<sbR, cpuR, gcR, diskR, gc, pc>>

(***************************************************************************)
(* The GC caller, holding replicas_gc_lock.                                *)
(***************************************************************************)

\* bch2_replicas_gc_start: BUG_ON(c->replicas_gc); copy the index without
\* the entries the mask drops.
GcStart(mask) ==
    /\ gc.phase = "idle"
    /\ gcR = NULL
    /\ gcR' = {x \in cpuR : ~GcDrops(x, mask)}
    /\ gc' = [phase |-> "scan", mask |-> mask, scanned |-> {}]
    /\ UNCHANGED <<sbR, cpuR, diskR, live, pc>>

\* The GC caller re-marks a live extent of a type in its mask.  The entry
\* of a live extent is in c->replicas, so the slowpath ends at its recheck:
\* re-marking cannot run out of room.  (It reaches the slowpath at all
\* only when gc_start dropped a live entry; its -ENOMEM exit there is left
\* out.)
GcMark(e) ==
    /\ gc.phase = "scan"
    /\ e \in live /\ InMask(e, gc.mask) /\ e \notin gc.scanned
    /\ \/ Marked(e) /\ UNCHANGED <<sbR, cpuR, gcR, diskR>>
       \/ ~Marked(e) /\ Slowpath(e)
    /\ gc' = [gc EXCEPT !.scanned = @ \cup {e}]
    /\ UNCHANGED <<live, pc>>

ScanDone == \A e \in live : InMask(e, gc.mask) => e \in gc.scanned

\* bch2_replicas_gc_end(c, err) with err set (the caller's walk failed):
\* the GC copy is dropped.
GcEndError ==
    /\ gc.phase = "scan"
    /\ gcR' = NULL
    /\ gc' = [phase |-> "idle", mask |-> 0, scanned |-> {}]
    /\ UNCHANGED <<sbR, cpuR, diskR, live, pc>>

\* bch2_replicas_gc_end(c, 0): the field is resized to hold the GC copy;
\* when it cannot be, -ENOSPC and c->replicas_gc is left in place.
GcEndNoSpace ==
    /\ gc.phase = "scan" /\ ScanDone
    /\ FieldU64s(SetEntryBytes(gcR)) > FieldBudget
    /\ gc' = [phase |-> "idle", mask |-> 0, scanned |-> {}]
    /\ UNCHANGED <<sbR, cpuR, gcR, diskR, live, pc>>

\* Otherwise the field is rewritten from the GC copy, the copy becomes
\* c->replicas, and the superblock is written.
GcEndOk ==
    /\ gc.phase = "scan" /\ ScanDone
    /\ FieldU64s(SetEntryBytes(gcR)) <= FieldBudget
    /\ sbR' = SetToSeq(gcR)
    /\ cpuR' = gcR
    /\ gcR' = NULL
    /\ diskR' = sbR'
    /\ gc' = [phase |-> "idle", mask |-> 0, scanned |-> {}]
    /\ UNCHANGED <<live, pc>>

Next ==
    \/ \E m \in Markers :
          \/ \E e \in Extents : MarkStart(m, e)
          \/ MarkSlow(m) \/ Insert(m)
    \/ \E e \in Extents : Drop(e) \/ GcMark(e)
    \/ \E mask \in Masks : GcStart(mask)
    \/ GcEndError \/ GcEndNoSpace \/ GcEndOk

Spec == Init /\ [][Next]_vars

(***************************************************************************)
(* Properties.                                                             *)
(***************************************************************************)

TypeOK ==
    /\ sbR \in Seq(Entry) /\ diskR \in Seq(Entry)
    /\ cpuR \subseteq Entry
    /\ gcR = NULL \/ gcR \subseteq Entry
    /\ gc.phase \in {"idle", "scan"} /\ gc.scanned \subseteq Extents
    /\ live \subseteq Extents
    /\ \A m \in Markers : pc[m].at \in {"idle", "slow", "insert"}

\* Every extent on disk has its (type, devices) entry both in c->replicas
\* and in the replicas field last written to the superblock: no marking,
\* GC start or GC end, in any interleaving, loses one.
LiveCovered ==
    \A e \in live : e \in cpuR /\ e \in ToSet(diskR)

\* The replicas field never holds the same entry twice, which
\* bch2_sb_validate_replicas would reject ("duplicate replicas entry")
\* at the next bch2_write_super: two writers marking the same new entry
\* must append it once.
NoDuplicateEntries ==
    \A i, j \in DOMAIN sbR : i < j => sbR[i] # sbR[j]

\* When no GC is running, c->replicas_gc is NULL, so that the next
\* bch2_replicas_gc_start does not hit its BUG_ON.
GcIdleClean ==
    gc.phase = "idle" => gcR = NULL

=============================================================================
