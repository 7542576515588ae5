----------------------------- MODULE BinaryPool -----------------------------
(***************************************************************************)
(* The memory for generated code and its constants                         *)
(* (src/src/BinaryPool.cpp).  The region is reserved as a whole; code      *)
(* grows upwards from its start, constants downwards from its end, and     *)
(* pages are made accessible one at a time.  Addresses are relative to     *)
(* mmapStart.                                                              *)
(***************************************************************************)
EXTENDS Integers

CONSTANTS PageSize,     \* ARCH_PAGE_SIZE
          BlockAlign,   \* ARCH_BLOCK_ALIGN
          MmapSize      \* the size of the region

(* The checks of the constructor; a page holds whole blocks.               *)
ASSUME PoolAssumption ==
    /\ PageSize \in Nat \ {0, 1} /\ BlockAlign \in Nat \ {0} /\ MmapSize \in Nat
    /\ PageSize % BlockAlign = 0
    /\ MmapSize % PageSize = 0 /\ MmapSize >= 2 * PageSize

AlignDown(x, a) == x - (x % a)
AlignUp(x, a) == AlignDown(x + a - 1, a)

(* mmap(MAP_FIXED) wants the address of a page.                            *)
CanMap(addr) == addr % PageSize = 0

(* resetCodePool(), resetConstantPool(): error is what was thrown.         *)
ResetCodePool(pool) == [pool EXCEPT !.instrPage = 0, !.nextInstr = 0]
NewPool == [instrPage |-> 0, nextInstr |-> 0,
            constPage |-> MmapSize - PageSize, nextConst |-> MmapSize - 1, error |-> "none"]

(* allocCode(): the next page is looked for one byte, not one page, away.  *)
NextInstrPage(pool) == pool.instrPage + 1
AllocCode_Start(pool, size) ==
    IF AlignDown(pool.nextInstr, PageSize) = pool.instrPage THEN [pool EXCEPT !.nextInstr = @ + size]
    ELSE [pool EXCEPT !.error = "memory"]
AllocCode(pool, size) ==
    LET moved == [pool EXCEPT !.nextInstr = @ + size]
        page  == NextInstrPage(pool)
    IN  CASE AlignDown(pool.nextInstr + size - 1, PageSize) = pool.instrPage -> moved
          [] AlignDown(pool.nextInstr + size - 1, PageSize) # pool.instrPage /\ page = pool.constPage ->
                [pool EXCEPT !.error = "full"]
          [] AlignDown(pool.nextInstr + size - 1, PageSize) # pool.instrPage /\ page # pool.constPage /\ ~CanMap(page) ->
                [pool EXCEPT !.error = "memory"]
          [] OTHER -> [moved EXCEPT !.instrPage = page]

(* newBlock()                                                              *)
NewBlock(pool) == [pool EXCEPT !.nextInstr = AlignUp(@, BlockAlign)]

(* allocConstant(): where the constant comes to lie.                       *)
NextConstPage(pool) == pool.constPage - 1
ConstantAt(pool, size) == AlignDown(pool.nextConst - size + 1, size)
AllocConstant_Touching(pool, size) == [pool EXCEPT !.nextConst = ConstantAt(pool, size)]
AllocConstant(pool, size) ==
    LET current == ConstantAt(pool, size)
        moved   == [pool EXCEPT !.nextConst = current - 1]
        page    == NextConstPage(pool)
    IN  CASE AlignDown(current, PageSize) = pool.constPage -> moved
          [] AlignDown(current, PageSize) # pool.constPage /\ page = pool.instrPage ->
                [pool EXCEPT !.error = "full"]
          [] AlignDown(current, PageSize) # pool.constPage /\ page # pool.instrPage /\ ~CanMap(page) ->
                [pool EXCEPT !.error = "memory"]
          [] OTHER -> [moved EXCEPT !.constPage = page]

=============================================================================
