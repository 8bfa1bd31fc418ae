---------------------------- MODULE MCModelAdmin ----------------------------
(* One model name with two versions that compare and one whose number is   *)
(* too large for int; two handlers can meet between any two steps.         *)
EXTENDS ModelAdmin, TLC

MCParts == [v \in Version |->
  CASE v = "1" -> <<1>>
    [] v = "2" -> <<2>>
    [] OTHER   -> <<9>>]

MCOverlong == Version \cap {"99999999999"}

MCStatic == {<<n, "2">> : n \in Name}

ThreadSymmetry == Permutations(Thread)

(* Calls overlap before the restart; after it they come one at a time. *)
OverlapOnlyBefore ==
  starts > 1 => \A t, u \in Thread : t # u => pc[t] = "idle" \/ pc[u] = "idle"
=============================================================================
