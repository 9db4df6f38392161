-------------------------------- MODULE Dos ---------------------------------
(* core/dosblock.c: DOS's memory control blocks, the loading of the        *)
(* program, and int 21h, AH = 4Ah, by which the program resizes its block. *)
(*                                                                         *)
(* Memory counts in paragraphs (segments).  A control block lies in the    *)
(* paragraph before the block it describes, and the next one follows the   *)
(* block: mcb maps the addresses of the control blocks in the chain to     *)
(* them.  Segments and sizes are 16 bit words; Words, MemStart and MemEnd  *)
(* scale the memory down.  A walk along the chain is a function of the     *)
(* rounds of its loop, and stays where the loop ends.                      *)
EXTENDS Integers, FiniteSets, Functions, FiniteSetsExt

CONSTANTS
  Words,        \* 65536 in the code
  MemStart,     \* DP_DOS_MEM_START
  MemEnd,       \* DP_DOS_MEM_END, the last paragraph of the last block
  MaxPages,     \* 0x7ff in the code
  Files         \* headers of the files to load

\* The internal blocks leave room for the program; a file's header is not
\* longer than the file.
ASSUME DosAssumption ==
  /\ {Words, MemStart, MemEnd, MaxPages} \subseteq Nat
  /\ MemStart + 24 < MemEnd
  /\ MemEnd < Words - 1
  /\ \A f \in Files : /\ {f.pages, f.header, f.read, f.min, f.max} \subseteq Nat
                      /\ f.header < 32 * Max({f.pages, 1})

VARIABLES
  mcb,          \* the chain of control blocks
  current_psp,  \* the program's segment prefix; no block is at 0
  file,         \* which of Files is the program
  phase,        \* "loading", "running", "overrun" or "stopped"
  answer        \* what the last resize answered: granted, and BX

dosVars == <<mcb, current_psp, file, phase, answer>>

Wrapped(x) == x % Words

FREE == 0       \* DP_MCB_PSP_FREE
DOS == 8        \* DP_MCB_PSP_DOS

Block(type, psp, size) == [type |-> type, psp |-> psp, size |-> size]
Cont(psp, size) == Block("CONT", psp, size)

\* What is left of a block when one of `size` and its control block go.
RemainderUnwrapped(total, size) == total - 1 - size
RemainderWithHeader(total, size) == Wrapped(total - size)
Remainder(total, size) == Wrapped(total - 1 - size)

NextBlock(chain, s) == Wrapped(s + chain[s].size + 1)
IsFree(chain, s) == chain[s].psp = FREE

-----------------------------------------------------------------------------
(* The operations on the chain.                                            *)

\* dp_dosblock_init_mem: three internal blocks, and the rest is free.  The
\* third is marked as the BIOS data area's.
InitialChain ==
  LET free == MemStart + 24
  IN  [s \in {MemStart, MemStart + 2, MemStart + 7, free} |->
        CASE s = MemStart -> Cont(DOS, 1)
          [] s = MemStart + 2 -> Cont(DOS, 4)
          [] s = MemStart + 7 -> Cont(64, 16)
          [] s = free -> Block("END", FREE, MemEnd - free)]

\* A control block written to memory.
Put(chain, s, block) == [t \in DOMAIN chain \cup {s} |-> IF t = s THEN block ELSE chain[t]]

\* Bound: a round of a walk takes a block out of the chain or goes on to the
\* next one.
Rounds(chain) == Cardinality(DOMAIN chain)

\* dp_dosblock_compact_mcbs: two free blocks become one, or the walk goes on.
CompactOnce(walk) ==
  LET chain == walk.chain
      s == walk.at
      next == NextBlock(chain, s)
      joined == Block(chain[next].type, FREE, Wrapped(chain[s].size + chain[next].size + 1))
  IN  IF chain[s].type = "END" THEN walk
      ELSE IF IsFree(chain, s) /\ IsFree(chain, next)
      THEN [chain |-> Put(Restrict(chain, DOMAIN chain \ {next}), s, joined), at |-> s]
      ELSE [chain |-> chain, at |-> next]

CompactNever(chain) == chain

Compact(chain) ==
  LET walk[n \in 0 .. Rounds(chain)] ==
        IF n = 0 THEN [chain |-> chain, at |-> MemStart] ELSE CompactOnce(walk[n - 1])
  IN  walk[Rounds(chain)].chain

\* dp_dosblock_mem_get_largest_block.
Largest(chain) ==
  Max({chain[s].size : s \in {t \in DOMAIN chain : IsFree(chain, t)}} \cup {0})

\* dp_dosblock_mem_allocate for no program in particular: the first block
\* that is large enough is split, and owned by its own control block.
Fits(chain, s, size) == IsFree(chain, s) /\ size <= chain[s].size

SearchOnce(chain, size, s) ==
  IF Fits(chain, s, size) \/ chain[s].type = "END" THEN s ELSE NextBlock(chain, s)

Search(chain, size) ==
  LET walk[n \in 0 .. Rounds(chain)] ==
        IF n = 0 THEN MemStart ELSE SearchOnce(chain, size, walk[n - 1])
  IN  walk[Rounds(chain)]

AllocatedAt(chain, s, size) ==
  LET old == chain[s]
  IN  IF size = old.size THEN [chain EXCEPT ![s].psp = s]
      ELSE Put(Put(chain, s, Cont(s, size)), Wrapped(s + 1 + size),
               Block(old.type, FREE, Remainder(old.size, size)))

Allocate(chain, size) ==
  LET compacted == Compact(chain)
      s == Search(compacted, size)
  IN  IF Fits(compacted, s, size)
      THEN [seg |-> Wrapped(s + 1), chain |-> AllocatedAt(compacted, s, size)]
      ELSE [seg |-> 0, chain |-> compacted]

\* What a block can grow to: its own size and the free blocks that follow.
GatherOnce(chain, size, walk) ==
  LET s == walk.at
      next == NextBlock(chain, s)
      own == chain[s].size + (IF walk.blocks = {} THEN 0 ELSE 1)
      here == [walk EXCEPT !.total = Wrapped(@ + own), !.blocks = @ \cup {s}]
  IN  IF walk.done \/ size <= walk.total THEN walk
      ELSE IF chain[s].type = "END" \/ ~IsFree(chain, next) THEN [here EXCEPT !.done = TRUE]
      ELSE [here EXCEPT !.at = next, !.type = chain[next].type]

Gather(chain, size, s) ==
  LET walk[n \in 0 .. Rounds(chain)] ==
        IF n = 0 THEN [at |-> s, total |-> 0, blocks |-> {}, type |-> chain[s].type, done |-> FALSE]
        ELSE GatherOnce(chain, size, walk[n - 1])
  IN  walk[Rounds(chain)]

\* dp_dosblock_mem_resize.  A block of the size asked for is left as it is;
\* another one becomes the current program's, and a free block is split off
\* behind it, even if nothing is left.
Resized(compacted, seg, size, owner) ==
  LET s == Wrapped(seg - 1)
      old == compacted[s]
      all == Gather(compacted, size, s)
      split(total, type, kept) ==
        Put(Put(Restrict(compacted, kept), s, Cont(owner, size)), Wrapped(seg + size),
            Block(type, FREE, Remainder(total, size)))
  IN  IF size = old.size THEN [ok |-> TRUE, bx |-> size, chain |-> compacted]
      ELSE IF size < old.size
      THEN [ok |-> TRUE, bx |-> size, chain |-> split(old.size, old.type, DOMAIN compacted)]
      ELSE IF all.total < size THEN [ok |-> FALSE, bx |-> all.total, chain |-> compacted]
      ELSE [ok |-> TRUE, bx |-> size,
            chain |-> split(all.total, all.type, DOMAIN compacted \ all.blocks)]

-----------------------------------------------------------------------------
(* The steps.                                                              *)

DosInit ==
  /\ mcb = InitialChain
  /\ current_psp = 0
  /\ file \in Files
  /\ phase = "loading"
  /\ answer = [ok |-> TRUE, bx |-> 0]

\* dp_dosblock_load: the size of the image in memory, of which the file has
\* file.read paragraphs, and of the block for it.  The image is put behind the
\* segment prefix of 16 paragraphs.  If it passes the end of the block, the
\* next control block is lost: what happens then is not modelled.  A file that
\* is too long, or would go to the top of memory, is fatal before anything is
\* allocated, one with relocations only when it has been read.
Image == (32 * Max({file.pages, 1})) - file.header
WantedWithoutMax == Min({Image, Largest(mcb)})
Wanted == Min({Image + file.max, Largest(mcb)})

Refused == file.pages > MaxPages \/ file.min + file.max = 0

RefuseProgram ==
  /\ phase = "loading"
  /\ Refused
  /\ phase' = "stopped"
  /\ UNCHANGED <<mcb, current_psp, file, answer>>

LoadProgram ==
  /\ phase = "loading"
  /\ ~Refused
  /\ LET block == Allocate(mcb, Wanted)
         loads == file.read < Image /\ ~file.relocations
     IN  /\ mcb' = block.chain
         /\ current_psp' = IF loads THEN block.seg ELSE current_psp
         /\ phase' = IF ~loads THEN "stopped"
                     ELSE IF 16 + file.read <= Wanted THEN "running" ELSE "overrun"
  /\ UNCHANGED <<file, answer>>

\* dp_dosblock_int21_resize_memory_block, of the program's own block.
Resize(size) ==
  LET done == Resized(Compact(mcb), current_psp, size, current_psp)
  IN  /\ phase = "running"
      /\ mcb' = done.chain
      /\ answer' = [ok |-> done.ok, bx |-> done.bx]
      /\ UNCHANGED <<current_psp, file, phase>>

\* dp_dosblock_int21_terminate.
Terminate ==
  /\ phase = "running"
  /\ phase' = "stopped"
  /\ UNCHANGED <<mcb, current_psp, file, answer>>

DosNext ==
  \/ RefuseProgram
  \/ LoadProgram
  \/ \E size \in 0 .. Words - 1 : Resize(size)
  \/ Terminate

DosSpec == DosInit /\ [][DosNext]_dosVars

-----------------------------------------------------------------------------
(* Properties.                                                             *)

\* A block is free, DOS's, the data area's, the program's or its own.
DosTypeOK ==
  /\ \A s \in DOMAIN mcb :
       /\ s \in 0 .. Words - 1
       /\ mcb[s].type \in {"CONT", "END"}
       /\ mcb[s].size \in 0 .. Words - 1
       /\ mcb[s].psp \in {FREE, DOS, 64, current_psp, s}
  /\ current_psp \in 0 .. MemEnd
  /\ phase \in {"loading", "running", "overrun", "stopped"}
  /\ answer.bx \in 0 .. Words - 1

\* The chain has no gap and no overlap, however often the program resizes its
\* block: a block ends where the next one's control block is, and the last
\* one ends with the memory.  All of its walks (compaction, the search for
\* free memory) therefore end.
ChainTilesMemory ==
  /\ MemStart \in DOMAIN mcb
  /\ \A s \in DOMAIN mcb :
       LET later == {t \in DOMAIN mcb : t > s}
       IN  /\ NextBlock(mcb, s) = IF later = {} THEN MemEnd + 1 ELSE Min(later)
           /\ mcb[s].type = IF later = {} THEN "END" ELSE "CONT"

\* Memory the program gave back it can have again, all of it: a resize is
\* granted if and only if the size fits between the block's start and the end
\* of memory, and a refusal tells the size that would have been.
ResizeGrantsWhatThereIs ==
  phase = "running" =>
    LET room == (MemEnd + 1) - current_psp
    IN  \A size \in 0 .. Words - 1 :
          LET done == Resized(Compact(mcb), current_psp, size, current_psp)
          IN  /\ done.ok = (size <= room)
              /\ done.bx = IF size <= room THEN size ELSE room
              /\ done.ok => done.chain[current_psp - 1].size = size

\* What is loaded lies in the program's block and spares the next control
\* block, if the file asks for as much more memory as the segment prefix
\* takes (the size of the block leaves it out) and there is as much.
ImageInItsBlock ==
  phase = "overrun" => file.max < 16 \/ Image + 16 > Largest(InitialChain)

=============================================================================
