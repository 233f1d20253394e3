-------------------------------- MODULE MCGC --------------------------------
(***************************************************************************)
(* Small heaps for the collector.                                          *)
(***************************************************************************)
EXTENDS GC, TLC

\* An array is larger than the object that owns it.
Bytes == "string" :> 2 @@ "list" :> 2 @@ "map" :> 1 @@ "entries" :> 2
           @@ "funcref" :> 1 @@ "vardata" :> 1 @@ "array" :> 1

\* Addresses and locals are interchangeable.
AnyAddress == Permutations(Addrs) \cup Permutations(Locals)
=============================================================================
