--------------------------- MODULE ReplicasStatus ---------------------------
(***************************************************************************)
(* The queries on the replica index (libbcachefs/super-io.c):              *)
(* __bch2_replicas_status, bch2_replicas_online and bch2_dev_has_data,     *)
(* evaluated on c->replicas while writers and a GC change it (the          *)
(* Replicas module) and member devices go offline and come back.           *)
(*                                                                         *)
(* The queries read c->replicas under rcu_read_lock only, so each one sees *)
(* the index of one state of Replicas.                                     *)
(***************************************************************************)
EXTENDS Naturals, FiniteSets, FiniteSetsExt

CONSTANTS
    DevIdx, DataTypes, Extents, Masks, Markers, FieldBudget, NULL,
    NrDevices,    \* c->sb.nr_devices
    DataNr,       \* BCH_DATA_NR: size of replicas_status.replicas[]
    DataJournal,  \* BCH_DATA_JOURNAL
    DataBtree,    \* BCH_DATA_BTREE
    DataUser,     \* BCH_DATA_USER
    UintMax       \* UINT_MAX; any value above NrDevices compares the same

ASSUME /\ DevIdx \subseteq 0 .. NrDevices - 1
       /\ DataTypes \subseteq 1 .. DataNr - 1
       /\ UintMax > NrDevices

VARIABLES sbR, cpuR, gcR, diskR, gc, live, pc,
          online    \* devices for which bch2_dev_is_online holds

R == INSTANCE Replicas

rvars == <<sbR, cpuR, gcR, diskR, gc, live, pc>>
vars == <<rvars, online>>

(***************************************************************************)
(* __bch2_replicas_status(c, dev_to_offline).                              *)
(***************************************************************************)

\* replicas_dev_slots: bitmap bits of an entry of width
\* DIV_ROUND_UP(max_dev + 1, 8) bytes.
\* Variant: the bitmap sized for max_dev devices instead of max_dev + 1.
DevSlotsShort(r) ==
    LET maxDev == IF r = {} THEN 0 ELSE Max(UNION {e.devs : e \in r})
    IN 8 * ((maxDev + 7) \div 8)

DevSlots(r) ==
    LET maxDev == IF r = {} THEN 0 ELSE Max(UNION {e.devs : e \in r})
    IN 8 * ((maxDev + 1 + 7) \div 8)

\* The devices the loop looks at: dev < min(dev_slots, nr_devices).
Scanned(r) == 0 .. Min({DevSlots(r), NrDevices}) - 1

\* Variant: the device to offline counted like any other.
CountOnlineNoExcl(e, excl) ==
    Cardinality({d \in e.devs \cap Scanned(cpuR) : d \in online})

\* Devices of entry e counted online: online and not the one to offline.
CountOnline(e, excl) ==
    Cardinality({d \in e.devs \cap Scanned(cpuR) : d \in online /\ d # excl})

CountOffline(e, excl) ==
    Cardinality({d \in e.devs \cap Scanned(cpuR) : d \notin online \/ d = excl})

\* Per data type: the least online count and the greatest offline count
\* over the entries of that type; UINT_MAX online when there is none.
Status(excl) ==
    [t \in 0 .. DataNr - 1 |->
        LET es == {e \in cpuR : e.type = t} IN
        [nr_online  |-> Min({UintMax} \cup {CountOnline(e, excl) : e \in es}),
         nr_offline |-> Max({0} \cup {CountOffline(e, excl) : e \in es})]]

\* Variant: metadata and user data swapped.
ReplicasOnlineSwapped(meta) ==
    LET s == Status(NULL) IN
    IF meta THEN s[DataUser].nr_online
    ELSE Min({s[DataJournal].nr_online, s[DataBtree].nr_online})

\* bch2_replicas_online(c, meta).
ReplicasOnline(meta) ==
    LET s == Status(NULL) IN
    IF meta THEN Min({s[DataJournal].nr_online, s[DataBtree].nr_online})
    ELSE s[DataUser].nr_online

\* bch2_dev_has_data(c, ca): the loop stops at the first entry (in the
\* index's eytzinger order) that has the device, so the result is the
\* type bit of one of those entries; which one depends on the order.
DevHasData(ca) ==
    LET has == {e \in cpuR : ca \in e.devs} IN
    IF ca >= DevSlots(cpuR) \/ has = {} THEN {0}
    ELSE {2 ^ e.type : e \in has}

Init == R!Init /\ online = DevIdx

DevOffline(d) ==
    /\ d \in online
    /\ online' = online \ {d}
    /\ UNCHANGED rvars

DevOnline(d) ==
    /\ d \in DevIdx \ online
    /\ online' = online \cup {d}
    /\ UNCHANGED rvars

Next ==
    \/ R!Next /\ UNCHANGED online
    \/ \E d \in DevIdx : DevOffline(d) \/ DevOnline(d)

Spec == Init /\ [][Next]_vars

(***************************************************************************)
(* Properties.                                                             *)
(***************************************************************************)

TypeOK == R!TypeOK /\ online \subseteq DevIdx

\* The index properties of Replicas hold with devices going offline too
\* (they are stated and explained in Replicas).
LiveCovered == R!LiveCovered

NoDuplicateEntries == R!NoDuplicateEntries

Meta(t) == t \in {DataJournal, DataBtree}

\* The status gates device removal: when __bch2_replicas_status(c, ca)
\* reports at least one online device for every data type, taking ca away
\* leaves every extent on disk with a device that is online.
RemovalGateSound ==
    \A ca \in DevIdx :
        (\A t \in DataTypes : Status(ca)[t].nr_online >= 1) =>
            \A e \in live : \E d \in e.devs : d \in online /\ d # ca

\* bch2_replicas_online reports 0 for metadata (journal, btree) or for user
\* data whenever an extent of that kind has no device online.
UnavailableReported ==
    \A e \in live :
        (e.devs \cap online = {}) => ReplicasOnline(Meta(e.type)) = 0

\* bch2_dev_has_data, as device removal uses it: a device that some
\* extent on disk lives on is reported to hold data (a nonzero mask),
\* whichever entry the loop meets first and at every point of a GC and of
\* concurrent marks.
DevHasDataSound ==
    \A e \in live : \A ca \in e.devs : 0 \notin DevHasData(ca)

=============================================================================
