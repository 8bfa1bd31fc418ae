---------------------------- MODULE ModelRegistry ----------------------------
(***************************************************************************)
(* ModelFactory: the loaded models by name and version, and for every name *)
(* the version a request without one gets.  models_, metadata_ and         *)
(* fullMeta_ always change together, so one map to the model's path stands *)
(* for the three.  Each operation holds mutex_ and is one step.            *)
(*                                                                         *)
(* A version is compared by the numbers in it.  One with a number too      *)
(* large for int (Overlong) makes the comparison throw, after the maps of  *)
(* registerModel and unloadModel have been changed.                        *)
(***************************************************************************)
EXTENDS Naturals, Sequences

CONSTANTS
  Name,      \* model names
  Version,   \* version strings
  Path,      \* model files
  Parts,     \* Parts[v]: the numbers in v, in order
  Overlong   \* the versions std::stoi refuses

ASSUME RegistryAssumption ==
  /\ Parts \in [Version -> Seq(Nat)]
  /\ Overlong \subseteq Version

VARIABLES
  models,    \* <<name, version>> -> path of the model loaded under it
  latest     \* name -> version

registry == <<models, latest>>

Key == Name \X Version

Loaded(n) == {v \in Version : <<n, v>> \in DOMAIN models}

Empty == [x \in {} |-> {}]

Put(f, x, y) == [z \in DOMAIN f \cup {x} |-> IF z = x THEN y ELSE f[z]]

Without(f, x) == [z \in DOMAIN f \ {x} |-> f[z]]

-----------------------------------------------------------------------------
(* compareVersions: position by position, a missing part counts as 0. *)

Part(v, i) == IF i \in DOMAIN Parts[v] THEN Parts[v][i] ELSE 0

Newer(a, b) ==
  \E i \in DOMAIN Parts[a] :
    /\ Part(a, i) > Part(b, i)
    /\ \A j \in 1..(i - 1) : Part(a, j) = Part(b, j)

Greatest(S) == {v \in S : \A w \in S : ~Newer(w, v)}

Incomparable(a, b) == a \in Overlong \/ b \in Overlong

-----------------------------------------------------------------------------
RegisterThrows(n, v) == n \in DOMAIN latest /\ Incomparable(v, latest[n])

registerModel_lastWins(n, v, p) ==   \* mutant: the last one loaded is the latest
  /\ models' = Put(models, <<n, v>>, p)
  /\ latest' = Put(latest, n, v)

registerModel(n, v, p) ==
  /\ models' = Put(models, <<n, v>>, p)
  /\ latest' = IF \/ n \notin DOMAIN latest
                  \/ ~RegisterThrows(n, v) /\ Newer(v, latest[n])
                 THEN Put(latest, n, v)
                 ELSE latest

(* The loop over the remaining versions compares only if there are two. *)
UnloadThrows(n, v) ==
  \E a, b \in Loaded(n) \ {v} : a # b /\ Incomparable(a, b)

unloadModel_emptyName(n, v) ==       \* mutant: the name stays when its last version goes
  /\ v \in Loaded(n)
  /\ models' = Without(models, <<n, v>>)
  /\ \E w \in Greatest(Loaded(n) \ {v}) \cup {""} : latest' = Put(latest, n, w)

(* Among equal versions the loop keeps the one std::map lists first; the *)
(* model lets it be any of them.                                         *)
unloadModel(n, v) ==
  LET rest == Loaded(n) \ {v} IN
  /\ v \in Loaded(n)
  /\ models' = Without(models, <<n, v>>)
  /\ \/ rest = {} /\ latest' = Without(latest, n)
     \/ rest # {} /\ UnloadThrows(n, v) /\ UNCHANGED latest
     \/ /\ ~UnloadThrows(n, v)
        /\ \E w \in Greatest(rest) : latest' = Put(latest, n, w)

-----------------------------------------------------------------------------
(* A name has a latest version exactly while one of its versions is        *)
(* loaded, and that version is loaded and none is newer, except while a    *)
(* version that cannot be compared is loaded: the damage done by the       *)
(* exception it causes in registerModel or unloadModel ends with it.       *)
(* (ModelFactory.cpp, registerModel, unloadModel, getModel by bare name)   *)
LatestIsNewest ==
  \A n \in Name :
    /\ n \in DOMAIN latest <=> Loaded(n) # {}
    /\ Loaded(n) # {} /\ Loaded(n) \cap Overlong = {}
         => latest[n] \in Greatest(Loaded(n))
=============================================================================
