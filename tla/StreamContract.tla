--------------------------- MODULE StreamContract ---------------------------
(***************************************************************************)
(* What the firmware promises of the data stream of one CMD_BLOCK_READ     *)
(* (src/protocol.h) as long as the card does not fail: the stream carries  *)
(* exactly the packets of count blocks, whole blocks and never a mixture   *)
(* of two, only blocks of the range asked for, and never goes backwards.   *)
(*                                                                         *)
(* It does NOT promise that every block comes exactly once: see InOrder of *)
(* BlockRead, which the code does not keep.                                *)
(***************************************************************************)
EXTENDS Naturals, Sequences

CONSTANTS MaxCount, Lbas, Chunks

VARIABLES open,   \* a request is being streamed
          lba,    \* its first block
          count,  \* its number of blocks
          out     \* the packets given to the host so far

cvars == <<open, lba, count, out>>

Complete == Len(out) = count * Chunks

Init == open = FALSE /\ lba = 0 /\ count = 0 /\ out = << >>

Open(l, n) ==
  /\ Complete
  /\ open' = TRUE
  /\ lba' = l
  /\ count' = n
  /\ out' = << >>

\* The next packet: the next part of the block under way, or the first part of
\* a block of the request that is not before the last one.
Emit(block) ==
  LET part == Len(out) % Chunks IN
  /\ open /\ ~Complete
  /\ block \in lba .. lba + count - 1
  /\ out # << >> =>
       LET last == out[Len(out)][1]
       IN  IF part = 0 THEN block >= last ELSE block = last
  /\ out' = Append(out, <<block, part>>)
  /\ UNCHANGED <<open, lba, count>>

Close == open /\ Complete /\ open' = FALSE /\ UNCHANGED <<lba, count, out>>

Next == \/ \E l \in Lbas, n \in 0 .. MaxCount : Open(l, n)
        \/ \E block \in lba .. lba + count : Emit(block)
        \/ Close

Spec == Init /\ [][Next]_cvars
=============================================================================
