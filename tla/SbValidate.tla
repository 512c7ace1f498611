----------------------------- MODULE SbValidate -----------------------------
(***************************************************************************)
(* The parts of bch2_sb_validate (libbcachefs/super-io.c) that check the   *)
(* superblock's variable-length and numeric contents: validate_sb_layout,  *)
(* the local member's bucket counts, bch2_sb_validate_journal and          *)
(* bch2_sb_validate_replicas.  Each check is an operator over the decoded  *)
(* field, compared with the definition of a valid field that the format   *)
(* states, over every input in a bounded domain.                           *)
(*                                                                         *)
(* Unsigned arithmetic keeps its wrap-around: u64 values are W-bit values  *)
(* here (TLC integers are 32 bits); the comparisons the code makes behave  *)
(* the same way at any width.                                              *)
(*                                                                         *)
(* The same harness checks the field directory's copies (SbFields):      *)
(* bch2_sb_from_fs and bch2_sb_to_fs over bounded pairs of images.         *)
(*                                                                         *)
(* The variable input is the field the validator is looking at.  Each     *)
(* action reads a superblock whose field of one kind has some value; the   *)
(* properties relate the validator's answer for it to the definition.     *)
(***************************************************************************)
EXTENDS Naturals, Sequences, FiniteSets, FiniteSetsExt, TLC, SbFields

CONSTANTS
    W,            \* width in bits of a u64 sector or bucket number
    MaxSb,        \* ARRAY_SIZE(layout->sb_offset)
    SizeBits,     \* values of layout.sb_max_size_bits
    MinBuckets,   \* 1 << 10: buckets a device needs past first_bucket
    PageSectors,  \* PAGE_SECTORS
    BucketSizes,  \* values of a member's bucket_size
    BlockSizes,   \* values of sb->block_size
    JournalLen,   \* most journal buckets in an input
    DataNr,       \* BCH_DATA_NR
    ReplicasMax,  \* BCH_REPLICAS_MAX
    EntryTypes,   \* data_type values of replicas entries in an input
    EntryDevs,    \* device indices in replicas entries of an input
    Exists,       \* devices for which bch2_dev_exists holds
    EntriesLen,   \* most replicas entries in an input
    DevsLen,      \* most devices in one replicas entry of an input
    FieldTypes,   \* types of the fields c->disk_sb holds (no journal)
    FieldSizes    \* u64s of a field in an input

VARIABLE input

U64 == 0 .. 2^W - 1
Wrap(x) == x % 2^W
LongMax == 2^(W - 1) - 1

SeqsUpTo(S, n) == UNION {[1 .. k -> S] : k \in 0 .. n}

(***************************************************************************)
(* validate_sb_layout.                                                     *)
(***************************************************************************)
Layouts ==
    [magic : BOOLEAN, type : {0, 1}, nr : 0 .. MaxSb + 1, bits : SizeBits,
     off : [0 .. MaxSb - 1 -> U64]]

\* The loop: every offset at least prev_offset + max_sectors, in u64.
RECURSIVE OverlapFrom(_, _, _)
OverlapFrom(l, i, prev) ==
    IF i >= l.nr THEN FALSE
    ELSE IF l.off[i] < Wrap(prev + 2^l.bits) THEN TRUE
    ELSE OverlapFrom(l, i + 1, l.off[i])

LayoutErr(l) ==
    CASE ~l.magic          -> "Not a bcachefs superblock layout"
      [] l.type # 0        -> "Invalid superblock layout type"
      [] l.nr = 0          -> "Invalid superblock layout: no superblocks"
      [] l.nr > MaxSb      -> "Invalid superblock layout: too many superblocks"
      [] OverlapFrom(l, 1, l.off[0])
                           -> "Invalid superblock layout: superblocks overlap"
      [] OTHER             -> "ok"

\* No two copies of a layout share a sector.
SlotsDisjoint(l) ==
    \A i, j \in 0 .. l.nr - 1 :
        i # j => (l.off[i] + 2^l.bits <= l.off[j] \/ l.off[j] + 2^l.bits <= l.off[i])

(***************************************************************************)
(* The local member's entry, as bch2_sb_validate checks it after           *)
(* bch2_sb_validate_members.                                               *)
(***************************************************************************)
Members ==
    [nbuckets : U64, first : U64, bucket : BucketSizes, block : BlockSizes,
     capacity : U64]

IsPow2(x) == x > 0 /\ \E k \in 0 .. W : x = 2^k

MemberErr(m) ==
    CASE m.nbuckets > LongMax -> "Too many buckets"
      [] Wrap(m.nbuckets - m.first) < MinBuckets -> "Not enough buckets"
      [] ~IsPow2(m.bucket) \/ m.bucket < PageSectors \/ m.bucket < m.block
                              -> "Bad bucket size"
      [] m.capacity < Wrap(m.bucket * m.nbuckets)
                              -> "Invalid superblock: device too small"
      [] OTHER -> "ok"

(***************************************************************************)
(* bch2_sb_validate_journal: sort a copy of the bucket list, then check    *)
(* its first and last bucket and adjacent pairs.                           *)
(***************************************************************************)
JournalInputs ==
    [buckets : SeqsUpTo(0 .. 2^W - 1, JournalLen), first : U64, nbuckets : U64]

\* Variant: the duplicate scan stops one pair early.
AdjacentDupSkipLast(s) == \E i \in 1 .. Len(s) - 2 : s[i] = s[i + 1]

AdjacentDup(s) == \E i \in 1 .. Len(s) - 1 : s[i] = s[i + 1]

JournalErr(j) ==
    LET nr == Len(j.buckets)
        b == SortSeq(j.buckets, <)
    IN CASE nr = 0             -> "ok"
         [] b[1] = 0           -> "journal bucket at sector 0"
         [] b[1] < j.first     -> "journal bucket before first bucket"
         [] b[nr] >= j.nbuckets -> "journal bucket past end of device"
         [] AdjacentDup(b)     -> "duplicate journal buckets"
         [] OTHER              -> "ok"

\* The format: no bucket 0, every bucket in [first_bucket, nbuckets), no
\* bucket twice.
JournalSpec(j) ==
    /\ \A i \in DOMAIN j.buckets :
          j.buckets[i] # 0 /\ j.first <= j.buckets[i] /\ j.buckets[i] < j.nbuckets
    /\ \A i, k \in DOMAIN j.buckets : i # k => j.buckets[i] # j.buckets[k]

(***************************************************************************)
(* bch2_sb_validate_replicas: check each on-disk entry, convert to the     *)
(* bitmap form, sort by memcmp and reject equal neighbours.               *)
(***************************************************************************)
DiskEntries == [type : EntryTypes, devs : SeqsUpTo(EntryDevs, DevsLen)]
ReplicasInputs == SeqsUpTo(DiskEntries, EntriesLen)

\* Variant: one device too many allowed per entry.
EntryErrOffByOne(e) ==
    CASE e.type >= DataNr                        -> "invalid data type"
      [] Len(e.devs) > ReplicasMax               -> "too many devices"
      [] \E i \in DOMAIN e.devs : e.devs[i] \notin Exists -> "invalid device"
      [] OTHER                                   -> "ok"

EntryErr(e) ==
    CASE e.type >= DataNr                        -> "invalid data type"
      [] Len(e.devs) >= ReplicasMax              -> "too many devices"
      [] \E i \in DOMAIN e.devs : e.devs[i] \notin Exists -> "invalid device"
      [] OTHER                                   -> "ok"

\* __bch2_sb_replicas_to_cpu_replicas: data_type and a device bitmap.
CpuEntry(e) == [type |-> e.type, devs |-> {e.devs[i] : i \in DOMAIN e.devs}]

\* bch2_sb_replicas_nr_entries: the largest device index in the field.
MaxDev(r) == Max({0} \cup UNION {CpuEntry(r[i]).devs : i \in DOMAIN r})

\* Variant: the bitmap sized for max_dev devices instead of max_dev + 1.
EntrySizeShort(r) == 1 + (MaxDev(r) + 7) \div 8

\* entry_size: the data_type byte, then DIV_ROUND_UP(max_dev + 1, 8) bytes.
EntrySize(r) == 1 + (MaxDev(r) + 1 + 7) \div 8

\* The flat array cpu_r->entries, entry i at byte i * entry_size: the
\* data_type byte, then replicas_set_dev of each device (bit dev & 7 of
\* byte dev >> 3) as far as the entry reaches.
CpuBytes(r) ==
    LET es == EntrySize(r)
    IN [k \in 0 .. Len(r) * es - 1 |->
          LET e == r[k \div es + 1]
              o == k % es
          IN IF o = 0 THEN e.type
             ELSE SumSet({2 ^ (d % 8) : d \in {x \in CpuEntry(e).devs : x \div 8 = o - 1}})]

\* memcmp order of the cpu entry at byte base.
CpuKey(bytes, base, es) ==
    MapThenSumSet(LAMBDA o : bytes[base + o] * 256 ^ (es - 1 - o), 0 .. es - 1)

ReplicasErr(r) ==
    LET bad == {i \in DOMAIN r : EntryErr(r[i]) # "ok"}
        es == EntrySize(r)
        cpu == CpuBytes(r)
        keys == [i \in DOMAIN r |-> CpuKey(cpu, (i - 1) * es, es)]
    IN IF bad # {} THEN EntryErr(r[Min(bad)])
       ELSE IF AdjacentDup(SortSeq(keys, <)) THEN "duplicate replicas entry"
       ELSE "ok"

(***************************************************************************)
(* bch2_replicas_gc_end turns a cpu array back into the field: it sizes    *)
(* the field by counting header bytes and bitmap bits (hweight8 over the  *)
(* entry_size - 1 bitmap bytes), then writes each entry by testing every   *)
(* device below replicas_dev_slots.                                        *)
(***************************************************************************)
Hweight8(x) == Cardinality({b \in 0 .. 7 : (x \div 2 ^ b) % 2 = 1})

TestDev(bytes, base, j) == (bytes[base + 1 + j \div 8] \div 2 ^ (j % 8)) % 2 = 1

GcEndSize(bytes, es, nr) ==
    8 + MapThenSumSet(
            LAMBDA i : 2 + MapThenSumSet(LAMBDA j : Hweight8(bytes[i * es + 1 + j]), 0 .. es - 2),
            0 .. nr - 1)

GcEndEntries(bytes, es, nr) ==
    {[type |-> bytes[i * es],
      devs |-> {j \in 0 .. (es - 1) * 8 - 1 : TestDev(bytes, i * es, j)}] : i \in 0 .. nr - 1}

\* The format: every entry has a known data type, fewer than
\* BCH_REPLICAS_MAX devices, all of them existing members, and no two
\* entries have the same data type and device set.
ReplicasSpec(r) ==
    /\ \A i \in DOMAIN r :
          r[i].type < DataNr /\ Len(r[i].devs) < ReplicasMax
          /\ \A k \in DOMAIN r[i].devs : r[i].devs[k] \in Exists
    /\ \A i, k \in DOMAIN r : i # k => CpuEntry(r[i]) # CpuEntry(r[k])

(***************************************************************************)
(* Images for the copies.  A device's copy has its journal field and the  *)
(* filesystem's fields as they were when it was last written; c->disk_sb  *)
(* has no journal field (bch2_sb_to_fs skips it) and at least the types  *)
(* the device's copy has.  Both have the members field that              *)
(* bch2_sb_validate_members requires, and both fit sb_max_size_bits.     *)
(***************************************************************************)
Types(s) == {s[i].type : i \in DOMAIN s}

Images(types, v) ==
    {s \in SeqsUpTo([type : types, u64s : FieldSizes, v : {v}], Cardinality(types)) :
        /\ FieldMembers \in Types(s)
        /\ IsInjective([i \in DOMAIN s |-> s[i].type])
        /\ SbReallocOk(SbU64s(s))}

DevImages == Images(FieldTypes \cup {FieldJournal}, "dev")

FsImages == Images(FieldTypes, "fs")

\* A device's buffer is at least of the order its copy needs.
Orders(dev) == {o \in 0 .. GetOrder(SbMaxU64s) : HdrU64s + SbU64s(dev) <= Capacity(o)}

(***************************************************************************)
(* The harness: bch2_sb_validate is called on a superblock whose field of *)
(* one kind takes any value of the domains, and returns before the next   *)
(* superblock is read.                                                     *)
(***************************************************************************)
Init == input = [kind |-> "none"]

Idle == input.kind = "none"

ReadLayout(l) == Idle /\ input' = [kind |-> "layout", v |-> l]
ReadMember(m) == Idle /\ input' = [kind |-> "member", v |-> m]
ReadJournal(j) == Idle /\ input' = [kind |-> "journal", v |-> j]
ReadReplicas(r) == Idle /\ input' = [kind |-> "replicas", v |-> r]

\* bch2_write_super refreshing an online device's copy from c->disk_sb.
ReadFromFs(dev, o, fs) ==
    Idle /\ input' = [kind |-> "from_fs", dev |-> dev, order |-> o, fs |-> fs]

\* Mount: c->disk_sb built from the newest device's copy.
ReadToFs(src) == Idle /\ input' = [kind |-> "to_fs", src |-> src]

Return == ~Idle /\ input' = [kind |-> "none"]

Next ==
    \/ Idle /\ \E l \in Layouts : ReadLayout(l)
    \/ Idle /\ \E m \in Members : ReadMember(m)
    \/ Idle /\ \E j \in JournalInputs : ReadJournal(j)
    \/ Idle /\ \E r \in ReplicasInputs : ReadReplicas(r)
    \/ Idle /\ \E dev \in DevImages, fs \in FsImages :
                 Types(dev) \ {FieldJournal} \subseteq Types(fs)
                 /\ \E o \in Orders(dev) : ReadFromFs(dev, o, fs)
    \/ Idle /\ \E src \in DevImages : ReadToFs(src)
    \/ Return

Spec == Init /\ [][Next]_input

(***************************************************************************)
(* Properties.                                                             *)
(***************************************************************************)

\* bch2_sb_validate accepts only images whose numbers describe real space
\* on the device: no two superblock copies share a sector (the read and
\* write paths rely on it for the backups), the member has MinBuckets
\* buckets after first_bucket, and its buckets fit in the device.  Each
\* check compares u64 sums, differences or products that can wrap.
ValidatorSound ==
    /\ input.kind = "layout" /\ LayoutErr(input.v) = "ok" => SlotsDisjoint(input.v)
    /\ input.kind = "member" /\ MemberErr(input.v) = "ok" =>
          /\ input.v.nbuckets >= input.v.first + MinBuckets
          /\ input.v.capacity >= input.v.bucket * input.v.nbuckets

\* Sorting a copy of the journal buckets and checking first, last and
\* neighbours accepts exactly the bucket lists the format allows.
JournalMatchesSpec ==
    input.kind = "journal" =>
        (JournalErr(input.v) = "ok" <=> JournalSpec(input.v))

\* A valid replicas field survives the round trip through the cpu form
\* that bch2_replicas_gc_end writes back: the same (data type, device set)
\* entries come out, and gc_end sizes the field for exactly the bytes its
\* write loop produces (a short count overruns the field).  The bitmap
\* width is DIV_ROUND_UP(max_dev + 1, 8) bytes, so the cases that matter
\* are device indices on either side of a multiple of 8.
CpuFormRoundTrip ==
    input.kind = "replicas" /\ ReplicasErr(input.v) = "ok" =>
        LET r == input.v
            es == EntrySize(r)
            out == GcEndEntries(CpuBytes(r), es, Len(r))
        IN /\ out = {CpuEntry(r[i]) : i \in DOMAIN r}
           /\ GcEndSize(CpuBytes(r), es, Len(r))
                = 8 + MapThenSumSet(LAMBDA e : 2 + Cardinality(e.devs), out)

\* Converting the replicas field, sorting it by memcmp and checking
\* neighbours accepts exactly the replicas fields the format allows.
ReplicasMatchesSpec ==
    input.kind = "replicas" =>
        (ReplicasErr(input.v) = "ok" <=> ReplicasSpec(input.v))

(***************************************************************************)
(* What a copy of the superblock means, from the format: the device's     *)
(* copy ends with the filesystem's fields and its own journal field, each *)
(* field where it was and new ones after them; at mount c->disk_sb gets   *)
(* every field of the device's copy but the journal.                      *)
(***************************************************************************)
CopySpec(dst, src) ==
    [i \in DOMAIN dst |-> IF dst[i].type = FieldJournal THEN dst[i]
                          ELSE src[FieldGet(src, dst[i].type)]]
    \o SelectSeq(src, LAMBDA f : f.type # FieldJournal /\ FieldGet(dst, f.type) = 0)

\* __copy_super, run field by field with get, resize and memcpy, gives
\* what the format means by the copy: bch2_sb_from_fs leaves the device
\* its journal field and sizes the buffer for exactly the image it ends
\* with, and bch2_sb_to_fs keeps every device's journal out of
\* c->disk_sb.
CopyMatchesSpec ==
    /\ input.kind = "from_fs" =>
          LET r == SbFromFs(input.dev, input.order, input.fs)
          IN r.ok => /\ r.sb = CopySpec(input.dev, input.fs)
                     /\ SbU64s(r.sb) = SbU64s(input.fs) + JournalU64s(input.dev)
    /\ input.kind = "to_fs" =>
          SbToFs(input.src).sb = CopySpec(<<>>, input.src)

\* The buffer bch2_sb_from_fs and bch2_sb_to_fs size holds the copy at
\* every step of __copy_super, not only at its end: each memmove of
\* __bch2_sb_field_resize stays inside the pages.
CopyFits ==
    LET r == CASE input.kind = "from_fs" -> SbFromFs(input.dev, input.order, input.fs)
               [] input.kind = "to_fs" -> SbToFs(input.src)
               [] OTHER -> [ok |-> FALSE]
    IN r.ok => HdrU64s + r.peak <= Capacity(r.order)

=============================================================================
