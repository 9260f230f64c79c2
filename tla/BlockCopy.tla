------------------------------ MODULE BlockCopy ------------------------------
(***************************************************************************)
(* ChainCompress and ChainDecompress without a pool: block after block is  *)
(* read, converted and written, and the first error ends the call.  The    *)
(* version on a pool, ChainPipeline, implements this one.                  *)
(***************************************************************************)
EXTENDS Integers, Sequences

CONSTANT NumBlocks

VARIABLES written,   \* the blocks in dest, by their number in the source
          outcome    \* "running", "ok" (the call returned) or "error" (it threw)

vars == <<written, outcome>>

Init == written = <<>> /\ outcome = "running"

Convert == /\ outcome = "running"
           /\ Len(written) < NumBlocks
           /\ written' = Append(written, Len(written) + 1)
           /\ UNCHANGED outcome

Return == /\ outcome = "running"
          /\ Len(written) = NumBlocks
          /\ outcome' = "ok"
          /\ UNCHANGED written

Throw == /\ outcome = "running"
         /\ outcome' = "error"
         /\ UNCHANGED written

Next == Convert \/ Return \/ Throw

Safety == Init /\ [][Next]_vars
Spec == Safety /\ WF_vars(Next)
=============================================================================
