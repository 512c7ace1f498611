---------------------------- MODULE MCSbValidate ----------------------------
(***************************************************************************)
(* SbValidate at 3-bit width.  The scaled constants keep the relations of  *)
(* the real ones: MinBuckets (1 << 10) is below LONG_MAX, PAGE_SECTORS is  *)
(* a power of two no larger than some bucket sizes, and bucket_size times  *)
(* a bucket count can exceed the width as the u64 product can.             *)
(* The field copies use a 1-u64 header in 4-u64 pages and an 8-u64        *)
(* superblock maximum, which keeps the real proportions: a header is a    *)
(* fraction of a page, and a superblock spans a few pages.                *)
(***************************************************************************)
EXTENDS SbValidate

MCBucketSizes == {1, 2, 3, 4}
MCBlockSizes == {1, 2}
MCSizeBits == {0, 1, 2}
MCEntryTypes == {4, 6}
MCEntryDevs == {0, 7, 8, 9}
MCExists == {0, 7, 8}

=============================================================================
