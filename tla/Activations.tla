---------------------------- MODULE Activations ----------------------------
(***************************************************************************)
(* What the call machinery of VM.cs promises: a stack of activations, of   *)
(* which only the topmost one runs.  A suspended activation stands exactly *)
(* where its call left it until that call returns.  VMFrames, which keeps  *)
(* the same information split over the callStack array and the locals of   *)
(* Run, implements this specification.                                     *)
(***************************************************************************)
EXTENDS Naturals, Sequences

CONSTANTS Funcs, Main

VARIABLE frames   \* from @main to the running one: [func, base, pc]

Top  == frames[Len(frames)]
Rest == SubSeq(frames, 1, Len(frames) - 1)

Init == frames = <<[func |-> Main, base |-> 0, pc |-> 0]>>

\* The running activation moves on within its code.
Step ==
  /\ Len(frames') = Len(frames)
  /\ Rest' = Rest
  /\ Top'.func = Top.func /\ Top'.base = Top.base /\ Top'.pc \in Nat

\* A call: the caller's pc moves behind it, the callee starts at its first
\* instruction in a window that begins no lower than the caller's.
Enter ==
  /\ Len(frames') = Len(frames) + 1
  /\ SubSeq(frames', 1, Len(frames) - 1) = Rest
  /\ LET caller == frames'[Len(frames)]
     IN  caller.func = Top.func /\ caller.base = Top.base /\ caller.pc > Top.pc
  /\ Top'.func \in Funcs /\ Top'.base >= Top.base /\ Top'.pc = 0

\* A return: the caller is found just as the call left it.
Return == Len(frames) > 1 /\ frames' = Rest

Next == Step \/ Enter \/ Return

Spec == Init /\ [][Next]_frames
=============================================================================
