------------------------------ MODULE LfhtMm -------------------------------
(***************************************************************************)
(* The memory of rculfhash's bucket nodes: _cds_lfht_new(), which chooses  *)
(* a backend and the sizes, and the three backends (src/rculfhash-mm-      *)
(* order.c, -chunk.c and -mmap.c).  Each maps the index of a bucket to a   *)
(* cell of an array, and gives and takes back the memory of the buckets of *)
(* one order at a time, while the buckets of lower orders are in use.      *)
(*                                                                         *)
(* A cell is a table (an entry of tbl_order or tbl_chunk; the mapping of   *)
(* tbl_mmap is table 0) and an offset in it.                               *)
(***************************************************************************)
EXTENDS Naturals, FiniteSets, FiniteSetsExt

CONSTANTS
    MAX_TABLE_ORDER,    \* the entries of tbl_order: the width of a long
    MAX_CHUNK_TABLE,    \* the entries of tbl_chunk at most
    PageBuckets,        \* page_bucket_size: the buckets of a page
    MmSizes,            \* the sizes that callers ask for, powers of two or not
    MmUserTypes         \* the backends they ask for: "null" is the default

ASSUME LfhtMmAssumption ==
    /\ MAX_TABLE_ORDER \in Nat \ {0, 1}
    /\ MmUserTypes \subseteq {"null", "order", "chunk", "mmap"}
    /\ MmSizes \subseteq 0..2^(MAX_TABLE_ORDER - 1)

VARIABLES
    mm_ht,       \* the table: its backend, min_nr_alloc_buckets,
                 \* max_nr_buckets and the size of tbl_chunk
    mm_order,    \* the order of its size
    mm_state,    \* "new", "refused", "created", "used", "destroyed"
    mm_cells     \* the cells that have memory

mmvars == <<mm_ht, mm_order, mm_state, mm_cells>>

PowersOfTwo == {2^i : i \in 0..(MAX_TABLE_ORDER - 1)}

(* cds_lfht_get_count_order_ulong() of a power of two.                     *)
OrderOf(size) == CHOOSE i \in 0..(MAX_TABLE_ORDER - 1) : 2^i = size

(* cds_lfht_fls_ulong(): the position of the most significant bit.         *)
cds_lfht_fls_ulong(x) == CHOOSE i \in 1..MAX_TABLE_ORDER :
                             2^(i - 1) <= x /\ x < 2^i

(* The backend: mmap if the table is bounded (the bound of 2^32 buckets is *)
(* beyond every size here), else order.                                    *)
DefaultMm(mm, max) == IF mm # "null" THEN mm
                      ELSE IF max # 0 THEN "mmap" ELSE "order"

(* The alloc_cds_lfht() of a backend raises min_nr_alloc_buckets.          *)
AllocBuckets(mm, min, max) ==
    CASE mm = "order" -> min
      [] mm = "chunk" -> Max({min, max \div MAX_CHUNK_TABLE})
      [] mm = "mmap"  -> IF max <= PageBuckets THEN max
                         ELSE Max({min, PageBuckets})

MinOrder == OrderOf(mm_ht.min)

(* cds_lfht_alloc_bucket_table() and cds_lfht_free_bucket_table(): the     *)
(* cells of an order.  Order 0 stands for all orders up to that of         *)
(* min_nr_alloc_buckets.                                                   *)
OrderArea(i) ==
    IF i = 0 THEN {0} \X (0..(mm_ht.min - 1))
    ELSE IF i > MinOrder THEN {i} \X (0..(2^(i - 1) - 1))
    ELSE {}

ChunkArea(i) ==
    LET len == 2^(i - 1 - MinOrder) IN
    IF i = 0 THEN {0} \X (0..(mm_ht.min - 1))
    ELSE IF i > MinOrder THEN (len..(2 * len - 1)) \X (0..(mm_ht.min - 1))
    ELSE {}

MmapArea(i) ==
    IF i = 0 THEN {0} \X (0..(mm_ht.min - 1))
    ELSE IF i > MinOrder THEN {0} \X (2^(i - 1)..(2^i - 1))
    ELSE {}

bucket_table(i) ==
    CASE mm_ht.mm = "order" -> OrderArea(i)
      [] mm_ht.mm = "chunk" -> ChunkArea(i)
      [] mm_ht.mm = "mmap"  -> MmapArea(i)

(* Mutant: the order of an index is that of the size below it.             *)
OrderBucketBelow(index) ==
    IF index < mm_ht.min THEN <<0, index>>
    ELSE LET order == cds_lfht_fls_ulong(index) - 1
         IN  <<order, index % 2^order>>

(* bucket_at() of the three backends.                                      *)
OrderBucket(index) ==
    IF index < mm_ht.min THEN <<0, index>>
    ELSE LET order == cds_lfht_fls_ulong(index)
         IN  <<order, index % 2^(order - 1)>>

ChunkBucket(index) == <<index \div 2^MinOrder, index % mm_ht.min>>

bucket_at(index) ==
    CASE mm_ht.mm = "order" -> OrderBucket(index)
      [] mm_ht.mm = "chunk" -> ChunkBucket(index)
      [] mm_ht.mm = "mmap"  -> <<0, index>>

-----------------------------------------------------------------------------
LfhtMmInit ==
    /\ mm_ht = [mm |-> "null", min |-> 1, max |-> 1, chunks |-> 0]
    /\ mm_order = 0 /\ mm_state = "new" /\ mm_cells = {}

(* _cds_lfht_new(init_size, min_nr_alloc_buckets, max_nr_buckets, mm)      *)
(* refuses sizes that are not powers of two; 0 buckets at most means as    *)
(* many as there may be, for the order backend only.                       *)
cds_lfht_new(init, min, max0, mm0) ==
    LET mm == DefaultMm(mm0, max0)
        max == IF mm = "order" /\ max0 = 0 THEN 2^(MAX_TABLE_ORDER - 1) ELSE max0
        bound == Max({max, min})
        alloc == AllocBuckets(mm, min, bound)
    IN
    /\ mm_state = "new"
    /\ \/ /\ ~({init, min, max} \subseteq PowersOfTwo)
          /\ mm_state' = "refused"
          /\ UNCHANGED <<mm_ht, mm_order, mm_cells>>
       \/ /\ {init, min, max} \subseteq PowersOfTwo
          /\ mm_ht' = [mm |-> mm, min |-> alloc, max |-> bound,
                       chunks |-> IF mm = "chunk" THEN bound \div alloc ELSE 0]
          /\ mm_order' = OrderOf(Min({init, bound}))
          /\ mm_state' = "created"
          /\ UNCHANGED mm_cells

(* cds_lfht_create_bucket(): the tables of all orders up to the first.     *)
cds_lfht_create_buckets ==
    /\ mm_state = "created"
    /\ mm_cells' = UNION {bucket_table(i) : i \in 0..mm_order}
    /\ mm_state' = "used"
    /\ UNCHANGED <<mm_ht, mm_order>>

(* init_table() and fini_table() for one order.                            *)
cds_lfht_alloc_bucket_table ==
    /\ mm_state = "used" /\ 2^mm_order < mm_ht.max
    /\ mm_cells' = mm_cells \cup bucket_table(mm_order + 1)
    /\ mm_order' = mm_order + 1
    /\ UNCHANGED <<mm_ht, mm_state>>

cds_lfht_free_bucket_table ==
    /\ mm_state = "used" /\ mm_order > 0
    /\ mm_cells' = mm_cells \ bucket_table(mm_order)
    /\ mm_order' = mm_order - 1
    /\ UNCHANGED <<mm_ht, mm_state>>

(* cds_lfht_delete_bucket(): every order, down to 0.  For mmap that unmaps *)
(* the whole table.                                                        *)
cds_lfht_delete_bucket ==
    /\ mm_state = "used"
    /\ mm_cells' = IF mm_ht.mm = "mmap" THEN {}
                   ELSE mm_cells \ UNION {bucket_table(i) : i \in 0..mm_order}
    /\ mm_state' = "destroyed"
    /\ UNCHANGED <<mm_ht, mm_order>>

LfhtMmNext ==
    \/ \E init, min, max \in MmSizes, mm \in MmUserTypes :
          cds_lfht_new(init, min, max, mm)
    \/ cds_lfht_create_buckets \/ cds_lfht_alloc_bucket_table
    \/ cds_lfht_free_bucket_table \/ cds_lfht_delete_bucket

LfhtMmSpec == LfhtMmInit /\ [][LfhtMmNext]_mmvars

-----------------------------------------------------------------------------
(* Whatever sizes a table was created with and however it was resized:     *)
(* bucket_at() gives every bucket of the table a cell of its own that has  *)
(* memory and lies inside tbl_order or tbl_chunk; the memory of the next   *)
(* order is not that of a bucket in use; and a destroyed table leaves no   *)
(* memory behind.                                                          *)
LfhtMmBucketsHaveMemory ==
    LET used == {bucket_at(i) : i \in 0..(2^mm_order - 1)} IN
    /\ mm_state = "used" =>
          /\ used \subseteq mm_cells
          /\ Cardinality(used) = 2^mm_order
          /\ bucket_table(mm_order + 1) \cap used = {}
          /\ \A c \in mm_cells :
                /\ mm_ht.mm = "order" => c[1] < MAX_TABLE_ORDER
                /\ mm_ht.mm = "chunk" =>
                      c[1] < mm_ht.chunks /\ c[1] < MAX_CHUNK_TABLE
                /\ mm_ht.mm = "mmap" => c[2] < mm_ht.max
    /\ mm_state = "destroyed" => mm_cells = {}

=============================================================================
