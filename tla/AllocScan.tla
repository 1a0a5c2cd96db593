------------------------------ MODULE AllocScan ------------------------------
(***************************************************************************)
(* pmm.c with its loops: the search of alloc_pages round by round, and     *)
(* free_pages page by page, on the state of PhysMem.  It implements        *)
(* PhysMem, whose AllocPages states what the search should return.         *)
(*                                                                         *)
(* The end of the bitmap is tested after the increment and with `>', so    *)
(* the search reads bits behind it.  What it finds there is unknown: any   *)
(* byte of Beyond, and behind that one that is not 0xFF.                   *)
(***************************************************************************)
EXTENDS PhysMem

CONSTANTS
    Beyond,     \* bytes that may lie behind pmm_bitmap
    MaxFree     \* bound on the pages given to free_pages

ASSUME AllocScanAssumption ==
    /\ Beyond \subseteq SUBSET Bits
    /\ MaxFree \in Nat

VARIABLES
    pc,             \* "idle", the loop the call is in, or how it ends
    beyond,         \* the byte behind the bitmap
    count, dma,     \* the request: pages, and flags & MM_DMA
    index,
    start_index,
    dma_pos

scanVars == <<pc, beyond, count, dma, index, start_index, dma_pos>>

\* The call returns; its locals are gone.
Return ==
    /\ pc' = "idle"
    /\ beyond' = {}
    /\ count' = 0
    /\ dma' = FALSE
    /\ index' = 0
    /\ start_index' = 0
    /\ dma_pos' = 0

-----------------------------------------------------------------------------
(* alloc_pages *)

\* The checks before the search.  When one fails, NULL is returned at once.
EnterAllocPages(size, d) ==
    /\ pc = "idle"
    /\ available_mem >= size \div 1024
    /\ d => size <= 64 * 1024
    /\ pc' = "outer"
    /\ beyond' \in Beyond
    /\ count' = PageCount(size)
    /\ dma' = d
    /\ UNCHANGED <<vars, index, start_index, dma_pos>>

ByteAt(pos) ==
    IF pos < Bytes THEN bitmap[pos] ELSE IF pos = Bytes THEN beyond ELSE {}

Reserved(p) == (p % 8) \in ByteAt(p \div 8)

\* The first byte from pos that is not 0xFF.
FirstNotFull(pos) ==
    CHOOSE q \in pos..(Bytes + 2) :
        /\ ByteAt(q) # Full
        /\ \A r \in pos..(q - 1) : ByteAt(r) = Full

\* The first page from p that is not reserved.
FirstFree(p) ==
    CHOOSE q \in p..(Limit + 16) :
        /\ ~Reserved(q)
        /\ \A r \in p..(q - 1) : Reserved(r)

\* One round of the outer loop up to the inner one.
Outer ==
    LET pos == FirstNotFull(index \div 8)
        from == IF pos = index \div 8 THEN index ELSE pos * 8
    IN  /\ pc = "outer"
        /\ pc' = "inner"
        /\ dma_pos' = pos - (pos % 2)
        /\ index' = FirstFree(from)
        /\ start_index' = FirstFree(from)
        /\ UNCHANGED <<vars, beyond, count, dma>>

\* Mutant: the end of memory compared with >=.
MutAtEnd(i) == i >= Limit

AtEnd(i) == i > Limit

\* Mutant: back to the 64 KB block just tried.
MutNextBlock(pos) == pos * 8

NextBlock(pos) == (pos + 2) * 8

\* One round of the inner loop.
Inner ==
    LET next == index + 1
        long_enough == next - start_index >= count
        crosses == (next - 1) \div 8 - dma_pos > 1
    IN  /\ pc = "inner"
        /\ \/ /\ Reserved(index)
              /\ pc' = "outer"
              /\ UNCHANGED index
           \/ /\ ~Reserved(index)
              /\ \/ /\ AtEnd(next)
                    /\ pc' = "null"
                    /\ index' = next
                 \/ /\ ~AtEnd(next) /\ ~long_enough
                    /\ index' = next
                    /\ UNCHANGED pc
                 \/ /\ ~AtEnd(next) /\ long_enough
                    /\ dma /\ crosses
                    /\ pc' = "outer"
                    /\ index' = NextBlock(dma_pos)
                 \/ /\ ~AtEnd(next) /\ long_enough
                    /\ ~(dma /\ crosses)
                    /\ pc' = "done"
                    /\ index' = next
        /\ UNCHANGED <<vars, beyond, count, dma, start_index, dma_pos>>

\* Mutant: the loop begins at index instead of index - 1.
MutDone ==
    /\ pc = "done"
    /\ bitmap' = [i \in 0..(Bytes - 1) |->
                    bitmap[i] \cup ByteOf(start_index..index, i)]
    /\ owned' = owned \cup start_index..(index - 1)
    /\ available_mem' = available_mem - count * PAGE_KB
    /\ overrun' = (overrun \/ start_index = 0)
    /\ UNCHANGED cached_pos
    /\ Return

\* The pages from index - 1 down to start_index are reserved.
Done ==
    /\ pc = "done"
    /\ bitmap' = [i \in 0..(Bytes - 1) |->
                    bitmap[i] \cup ByteOf(start_index..(index - 1), i)]
    /\ owned' = owned \cup start_index..(index - 1)
    /\ available_mem' = available_mem - count * PAGE_KB
    /\ overrun' = (overrun \/ start_index = 0)
    /\ UNCHANGED cached_pos
    /\ Return

Null ==
    /\ pc = "null"
    /\ Return
    /\ UNCHANGED vars

-----------------------------------------------------------------------------
(* The other calls *)

\* free_pages of pages the caller owns.
EnterFreePages(p, n) ==
    /\ pc = "idle"
    /\ p..(p + n - 1) \subseteq owned
    /\ pc' = "free"
    /\ index' = p
    /\ count' = n
    /\ UNCHANGED <<vars, beyond, dma, start_index, dma_pos>>

\* One round of its loop.
FreeRound ==
    /\ pc = "free"
    /\ FreePage(index)
    /\ \/ /\ count > 1
          /\ count' = count - 1
          /\ index' = index + 1
          /\ UNCHANGED <<pc, beyond, dma, start_index, dma_pos>>
       \/ /\ count = 1
          /\ Return

CallAllocPage == pc = "idle" /\ AllocPage /\ UNCHANGED scanVars

CallFreePage(p) == pc = "idle" /\ FreePage(p) /\ UNCHANGED scanVars

ScanInit ==
    /\ Init
    /\ pc = "idle"
    /\ beyond = {}
    /\ count = 0
    /\ dma = FALSE
    /\ index = 0
    /\ start_index = 0
    /\ dma_pos = 0

ScanStep == Outer \/ Inner \/ Done \/ Null \/ FreeRound

ScanNext ==
    \/ CallAllocPage
    \/ \E p \in Pages : CallFreePage(p)
    \/ \E size \in Sizes, d \in BOOLEAN : EnterAllocPages(size, d)
    \/ \E p \in Pages, n \in 2..MaxFree : EnterFreePages(p, n)
    \/ ScanStep

\* The CPU goes on inside a call.
ScanSpec ==
    /\ ScanInit
    /\ [][ScanNext]_<<vars, scanVars>>
    /\ WF_<<vars, scanVars>>(ScanStep)

-----------------------------------------------------------------------------
(* Properties *)

\* alloc_pages gives up only if the block fits nowhere, and otherwise finds
\* the lowest place: whatever lies behind the bitmap, with runs of free pages
\* that cross a 64 KB boundary, and although dma_pos may be stale when the
\* search moves on within a byte.
LowestFit ==
    /\ pc = "done" =>
          /\ Fits(start_index, count, dma)
          /\ \A s \in 0..(start_index - 1) : ~Fits(s, count, dma)
    /\ pc = "null" => \A s \in Pages : ~Fits(s, count, dma)

\* Every call ends: the jump to the next 64 KB block makes progress.
ScanEnds == pc # "idle" ~> pc = "idle"

\* The loops do to the bitmap, the counter and the callers' pages what PhysMem
\* says, in one step and with nothing half done in between that another step
\* could see; free_pages is a sequence of calls of free_page.
ImplementsPhysMem == Spec

=============================================================================
