------------------------------ MODULE SbFields ------------------------------
(***************************************************************************)
(* The superblock's field directory (libbcachefs/super-io.c): the typed    *)
(* fields after the fixed header, found by bch2_sb_field_get, resized in  *)
(* place by __bch2_sb_field_resize, and copied between c->disk_sb and a    *)
(* device's copy by __copy_super, after bch2_sb_realloc or                 *)
(* bch2_fs_sb_realloc has sized the destination buffer.                    *)
(*                                                                         *)
(* A superblock image is the sequence of its fields.  A field is          *)
(* [type, u64s, v]: its type, its size in u64s counting its own header    *)
(* (vstruct_bytes), and v, which stands for its bytes.  A buffer is a      *)
(* page order; sizes are in u64s.                                          *)
(***************************************************************************)
EXTENDS Naturals, Sequences, SequencesExt

CONSTANTS
    HdrU64s,      \* the fixed part of struct bch_sb before the fields
    PageU64s,     \* PAGE_SIZE
    SbMaxU64s     \* 512 << layout.sb_max_size_bits

FieldJournal == 0    \* BCH_SB_FIELD_journal
FieldMembers == 1    \* BCH_SB_FIELD_members

\* le32_to_cpu(sb->u64s): the fields' sizes summed.
SbU64s(sb) == FoldLeft(LAMBDA acc, f : acc + f.u64s, 0, sb)

\* bch2_sb_field_get: the first field of the type, 0 standing for NULL.
FieldGet(sb, type) == SelectInSeq(sb, LAMBDA f : f.type = type)

\* __bch2_sb_field_resize: with no field, a zeroed field of type 0 is put
\* at vstruct_last; otherwise the field's u64s is set and the fields after
\* it move with memmove.  sb->u64s follows from the fields.
FieldResize(sb, i, u64s) ==
    IF i = 0 THEN Append(sb, [type |-> 0, u64s |-> u64s, v |-> "zero"])
    ELSE [sb EXCEPT ![i].u64s = u64s]

\* get_order of a size: the least page order whose buffer holds it.
GetOrder(u64s) == Min({o \in 0 .. u64s : PageU64s * 2 ^ o >= u64s})

Capacity(order) == PageU64s * 2 ^ order

\* bch2_sb_realloc: -ENOSPC past the layout's maximum superblock size;
\* otherwise __bch2_super_realloc keeps a buffer of at least that order
\* and allocates one of the new size's order if it is smaller.
SbReallocOk(u64s) == HdrU64s + u64s <= SbMaxU64s

SbReallocOrder(order, u64s) == Max({order, GetOrder(HdrU64s + u64s)})

\* bch2_fs_sb_realloc when c->disk_sb is still NULL: a zeroed buffer of
\* the size's order, with no limit on the size.
FsSbRealloc(u64s) == GetOrder(HdrU64s + u64s)

JournalU64s(sb) ==
    LET i == FieldGet(sb, FieldJournal) IN IF i = 0 THEN 0 ELSE sb[i].u64s

(***************************************************************************)
(* __copy_super's loop over the source's fields.  The journal field is     *)
(* skipped; every other field is looked up in dst, resized there to the    *)
(* source field's size, and memcpy'd over, header included.  peak is the   *)
(* largest size dst reaches on the way, which is what its buffer must      *)
(* hold.                                                                   *)
(***************************************************************************)

\* Variant: the journal field is copied like the others.
RECURSIVE CopyFieldsNoSkip(_, _, _)
CopyFieldsNoSkip(dst, src, peak) ==
    IF src = <<>> THEN [sb |-> dst, peak |-> peak]
    ELSE LET f == Head(src)
             i == FieldGet(dst, f.type)
             grown == FieldResize(dst, i, f.u64s)
             j == IF i = 0 THEN Len(grown) ELSE i
         IN CopyFieldsNoSkip([grown EXCEPT ![j] = f], Tail(src),
                             Max({peak, SbU64s(grown)}))

RECURSIVE CopyFields(_, _, _)
CopyFields(dst, src, peak) ==
    IF src = <<>> THEN [sb |-> dst, peak |-> peak]
    ELSE LET f == Head(src)
             i == FieldGet(dst, f.type)
             grown == FieldResize(dst, i, f.u64s)
             j == IF i = 0 THEN Len(grown) ELSE i
         IN IF f.type = FieldJournal THEN CopyFields(dst, Tail(src), peak)
            ELSE CopyFields([grown EXCEPT ![j] = f], Tail(src),
                            Max({peak, SbU64s(grown)}))

CopySuper(dst, src) == CopyFields(dst, src, SbU64s(dst))

\* bch2_sb_from_fs: the device's buffer is sized for c->disk_sb plus the
\* device's own journal field, then c->disk_sb is copied over the device's
\* copy.  The result: whether it succeeded, the copy, its buffer order, and
\* the largest size the copy reached.
SbFromFs(dev, order, fs) ==
    LET u64s == SbU64s(fs) + JournalU64s(dev)
        c == CopySuper(dev, fs)
    IN IF ~SbReallocOk(u64s)
       THEN [ok |-> FALSE, sb |-> dev, order |-> order, peak |-> SbU64s(dev)]
       ELSE [ok |-> TRUE, sb |-> c.sb, order |-> SbReallocOrder(order, u64s),
             peak |-> c.peak]

\* bch2_sb_to_fs at mount: c->disk_sb is NULL, bch2_fs_sb_realloc allocates
\* a zeroed buffer for the source less its journal field, and the source
\* is copied into it.
SbToFs(src) ==
    LET c == CopySuper(<<>>, src)
    IN [ok |-> TRUE, sb |-> c.sb,
        order |-> FsSbRealloc(SbU64s(src) - JournalU64s(src)),
        peak |-> c.peak]

=============================================================================
