-------------------------- MODULE ModelAdminProofs --------------------------
(***************************************************************************)
(* Proofs about the model registry as its handlers and the restore loop    *)
(* use it, for any number of IO threads, names, versions and model files:  *)
(* the latest version of a name is its newest, and, while calls do not     *)
(* overlap and none fails half way, registry, configuration file and model *)
(* files agree across loads, unloads, deletions, profiles and restarts.    *)
(***************************************************************************)
EXTENDS ModelAdmin, TLAPS

-----------------------------------------------------------------------------
(* compareVersions is a strict order on versions: no version is newer than *)
(* itself, and newer is transitive.                                        *)

LEMMA PartIsNat == ASSUME NEW v \in Version, NEW i PROVE Part(v, i) \in Nat
  BY RegistryAssumption DEF Part

LEMMA NewerIrreflexive == ASSUME NEW v \in Version PROVE ~Newer(v, v)
  <1>1. \A i \in DOMAIN Parts[v] : Part(v, i) \in Nat
    BY PartIsNat
  <1> QED BY <1>1 DEF Newer

LEMMA NewerTransitive ==
  ASSUME NEW a \in Version, NEW b \in Version, NEW c \in Version,
         Newer(a, b), Newer(b, c)
  PROVE  Newer(a, c)
  <1>0. \A v \in Version : \A i \in DOMAIN Parts[v] : i \in Nat /\ i >= 1
    BY RegistryAssumption
  <1>1. PICK i \in DOMAIN Parts[a] :
          /\ Part(a, i) > Part(b, i)
          /\ \A j \in 1..(i - 1) : Part(a, j) = Part(b, j)
    BY DEF Newer
  <1>2. PICK k \in DOMAIN Parts[b] :
          /\ Part(b, k) > Part(c, k)
          /\ \A j \in 1..(k - 1) : Part(b, j) = Part(c, j)
    BY DEF Newer
  <1>3. i \in Nat /\ i >= 1 /\ k \in Nat /\ k >= 1
    BY <1>0
  <1>4. \A j : Part(a, j) \in Nat /\ Part(b, j) \in Nat /\ Part(c, j) \in Nat
    BY PartIsNat
  <1>5. CASE i <= k
    <2>1. Part(a, i) > Part(c, i)
      <3>1. CASE i = k
        BY <1>1, <1>2, <1>3, <1>4, <3>1
      <3>2. CASE i < k
        <4>1. i \in 1..(k - 1)
          BY <1>3, <3>2
        <4> QED BY <1>1, <1>2, <4>1
      <3> QED BY <1>3, <1>5, <3>1, <3>2
    <2>2. \A j \in 1..(i - 1) : Part(a, j) = Part(c, j)
      <3>1. \A j \in 1..(i - 1) : j \in 1..(k - 1)
        BY <1>3, <1>5
      <3> QED BY <1>1, <1>2, <3>1
    <2> QED BY <2>1, <2>2 DEF Newer
  <1>6. CASE k < i
    <2>1. k \in 1..(i - 1)
      BY <1>3, <1>6
    <2>2. Part(a, k) > Part(c, k)
      BY <1>1, <1>2, <2>1
    <2>3. \A j \in 1..(k - 1) : Part(a, j) = Part(c, j)
      <3>1. \A j \in 1..(k - 1) : j \in 1..(i - 1)
        BY <1>3, <1>6
      <3> QED BY <1>1, <1>2, <3>1
    <2>4. k \in DOMAIN Parts[a]
      <3>1. Part(a, k) > 0
        BY <1>3, <1>4, <2>2
      <3> QED BY <3>1 DEF Part
    <2> QED BY <2>2, <2>3, <2>4 DEF Newer
  <1> QED BY <1>3, <1>5, <1>6

-----------------------------------------------------------------------------
(* LatestIsNewest is inductive once the versions it speaks of have their   *)
(* type, because the operations of the registry are atomic.                *)

LatestType ==
  /\ DOMAIN models \subseteq Key
  /\ DOMAIN latest \subseteq Name
  /\ \A n \in DOMAIN latest : latest[n] \in Version

RegistryInv == LatestType /\ LatestIsNewest

NewestOf(n) ==
  /\ n \in DOMAIN latest <=> Loaded(n) # {}
  /\ Loaded(n) # {} /\ Loaded(n) \cap Overlong = {}
       => latest[n] \in Greatest(Loaded(n))

LEMMA RegisterKeepsInv ==
  ASSUME RegistryInv, NEW m \in Name, NEW v \in Version, NEW p,
         registerModel(m, v, p)
  PROVE  RegistryInv'
  <1>1. DOMAIN models' = DOMAIN models \cup {<<m, v>>}
    BY DEF registerModel, Put
  <1>2. Loaded(m)' = Loaded(m) \cup {v}
    BY <1>1 DEF Loaded
  <1>3. \A n \in Name \ {m} : Loaded(n)' = Loaded(n)
    BY <1>1 DEF Loaded
  <1>4. \/ /\ m \notin DOMAIN latest \/ (~RegisterThrows(m, v) /\ Newer(v, latest[m]))
           /\ latest' = Put(latest, m, v)
        \/ /\ m \in DOMAIN latest
           /\ RegisterThrows(m, v) \/ ~Newer(v, latest[m])
           /\ latest' = latest
    BY DEF registerModel
  <1>5. LatestType'
    <2>1. DOMAIN latest' \subseteq DOMAIN latest \cup {m}
      BY <1>4 DEF Put
    <2>2. \A n \in DOMAIN latest' : latest'[n] \in Version
      BY <1>4 DEF Put, RegistryInv, LatestType
    <2> QED BY <1>1, <2>1, <2>2 DEF RegistryInv, LatestType, Key
  <1>6. \A n \in Name \ {m} : NewestOf(n)'
    <2>1. \A n \in Name \ {m} :
            /\ n \in DOMAIN latest' <=> n \in DOMAIN latest
            /\ n \in DOMAIN latest => latest'[n] = latest[n]
      BY <1>4 DEF Put
    <2> QED BY <1>3, <2>1 DEF NewestOf, Greatest, RegistryInv, LatestIsNewest
  <1>7. NewestOf(m)'
    <2>1. m \in DOMAIN latest' /\ Loaded(m)' # {}
      BY <1>2, <1>4 DEF Put
    <2>2. ASSUME Loaded(m)' \cap Overlong = {}
          PROVE  latest'[m] \in Greatest(Loaded(m)')
      <3>1. v \notin Overlong /\ Loaded(m) \cap Overlong = {}
        BY <1>2, <2>2
      <3>2. CASE m \notin DOMAIN latest
        <4>1. Loaded(m)' = {v} /\ latest'[m] = v
          BY <1>2, <1>4, <3>2 DEF Put, RegistryInv, LatestIsNewest
        <4> QED BY <4>1, NewerIrreflexive DEF Greatest
      <3>3. CASE m \in DOMAIN latest
        <4>1. /\ latest[m] \in Loaded(m)
              /\ \A w \in Loaded(m) : ~Newer(w, latest[m])
          BY <3>1, <3>3 DEF Greatest, RegistryInv, LatestIsNewest
        <4>2. latest[m] \in Version /\ Loaded(m) \subseteq Version
          BY <4>1 DEF Loaded
        <4>3. ~RegisterThrows(m, v)
          BY <3>1, <4>1 DEF RegisterThrows, Incomparable
        <4>4. CASE Newer(v, latest[m])
          <5>1. latest'[m] = v
            BY <1>4, <4>4, <4>3 DEF Put
          <5>2. \A w \in Loaded(m) : ~Newer(w, v)
            BY <4>1, <4>2, <4>4, NewerTransitive
          <5> QED BY <1>2, <5>1, <5>2, NewerIrreflexive DEF Greatest
        <4>5. CASE ~Newer(v, latest[m])
          <5>1. latest' = latest
            BY <1>4, <4>5, <3>3
          <5> QED BY <1>2, <4>1, <4>5, <5>1 DEF Greatest
        <4> QED BY <4>4, <4>5
      <3> QED BY <3>2, <3>3
    <2> QED BY <2>1, <2>2 DEF NewestOf
  <1> QED BY <1>5, <1>6, <1>7 DEF RegistryInv, LatestIsNewest, NewestOf

LEMMA UnloadKeepsInv ==
  ASSUME RegistryInv, NEW m \in Name, NEW v \in Version, unloadModel(m, v)
  PROVE  RegistryInv'
  <1> DEFINE rest == Loaded(m) \ {v}
  <1>1. DOMAIN models' = DOMAIN models \ {<<m, v>>}
    BY DEF unloadModel, Without
  <1>2. Loaded(m)' = rest
    BY <1>1 DEF Loaded
  <1>3. \A n \in Name \ {m} : Loaded(n)' = Loaded(n)
    BY <1>1 DEF Loaded
  <1>4. \/ rest = {} /\ latest' = Without(latest, m)
        \/ rest # {} /\ UnloadThrows(m, v) /\ latest' = latest
        \/ \E w \in Greatest(rest) : latest' = Put(latest, m, w)
    BY DEF unloadModel
  <1>5. m \in DOMAIN latest
    BY DEF unloadModel, RegistryInv, LatestIsNewest
  <1>6. LatestType'
    <2>1. Greatest(rest) \subseteq Version
      BY DEF Greatest, Loaded
    <2>2. DOMAIN latest' \subseteq DOMAIN latest \cup {m}
      BY <1>4 DEF Put, Without
    <2>3. \A n \in DOMAIN latest' : latest'[n] \in Version
      BY <1>4, <2>1 DEF Put, Without, RegistryInv, LatestType
    <2> QED BY <1>1, <2>2, <2>3 DEF RegistryInv, LatestType
  <1>7. \A n \in Name \ {m} : NewestOf(n)'
    <2>1. \A n \in Name \ {m} :
            /\ n \in DOMAIN latest' <=> n \in DOMAIN latest
            /\ n \in DOMAIN latest => latest'[n] = latest[n]
      BY <1>4 DEF Put, Without
    <2> QED BY <1>3, <2>1 DEF NewestOf, Greatest, RegistryInv, LatestIsNewest
  <1>8. NewestOf(m)'
    <2>1. CASE rest = {} /\ latest' = Without(latest, m)
      BY <1>2, <2>1 DEF NewestOf, Without
    <2>2. CASE rest # {} /\ UnloadThrows(m, v) /\ latest' = latest
      BY <1>2, <1>5, <2>2 DEF NewestOf, UnloadThrows, Incomparable
    <2>3. CASE \E w \in Greatest(rest) : latest' = Put(latest, m, w)
      <3>1. m \in DOMAIN latest' /\ latest'[m] \in Greatest(rest)
        BY <2>3 DEF Put
      <3>2. rest # {}
        BY <2>3 DEF Greatest
      <3> QED BY <1>2, <3>1, <3>2 DEF NewestOf
    <2> QED BY <1>4, <2>1, <2>2, <2>3
  <1> QED BY <1>6, <1>7, <1>8 DEF RegistryInv, LatestIsNewest, NewestOf

-----------------------------------------------------------------------------
(* Partial functions. *)

LEMMA PartialIntro ==
  ASSUME NEW S, NEW T, NEW D \in SUBSET S, NEW f \in [D -> T]
  PROVE  f \in Partial(S, T)
  BY DEF Partial

LEMMA PartialElim ==
  ASSUME NEW S, NEW T, NEW f \in Partial(S, T)
  PROVE  DOMAIN f \subseteq S /\ f \in [DOMAIN f -> T]
  BY DEF Partial

LEMMA PartialPut ==
  ASSUME NEW S, NEW T, NEW f \in Partial(S, T), NEW x \in S, NEW y \in T
  PROVE  Put(f, x, y) \in Partial(S, T)
  <1>1. DOMAIN f \cup {x} \in SUBSET S /\ f \in [DOMAIN f -> T]
    BY PartialElim
  <1>2. Put(f, x, y) \in [DOMAIN f \cup {x} -> T]
    BY <1>1 DEF Put
  <1> QED BY <1>1, <1>2, PartialIntro

LEMMA PartialRestrict ==
  ASSUME NEW S, NEW T, NEW f \in Partial(S, T), NEW D \in SUBSET DOMAIN f
  PROVE  [x \in D |-> f[x]] \in Partial(S, T)
  <1>1. D \in SUBSET S /\ f \in [DOMAIN f -> T]
    BY PartialElim
  <1>2. [x \in D |-> f[x]] \in [D -> T]
    BY <1>1
  <1> QED BY <1>1, <1>2, PartialIntro

LEMMA PartialEmpty == ASSUME NEW S, NEW T PROVE Empty \in Partial(S, T)
  <1>1. Empty \in [{} -> T]
    BY DEF Empty
  <1> QED BY <1>1, PartialIntro

LEMMA DocumentsTyped ==
  /\ Blank \in Documents /\ Fresh \in Documents
  /\ \A d \in Partial(Key, Path), s \in BOOLEAN : Document(d, s) \in Documents
  BY PartialEmpty DEF Blank, Fresh, Document, Documents

(* The operations of the registry keep its type. *)
RegistryType == models \in Partial(Key, Path) /\ latest \in Partial(Name, Version)

LEMMA RegisterTyped ==
  ASSUME RegistryType, NEW m \in Name, NEW v \in Version, NEW p \in Path,
         registerModel(m, v, p)
  PROVE  RegistryType'
  <1>1. <<m, v>> \in Key
    BY DEF Key
  <1>2. models' \in Partial(Key, Path)
    BY <1>1, PartialPut DEF registerModel, RegistryType
  <1>3. Put(latest, m, v) \in Partial(Name, Version)
    BY PartialPut DEF RegistryType
  <1> QED BY <1>2, <1>3 DEF registerModel, RegistryType

LEMMA UnloadTyped ==
  ASSUME RegistryType, NEW m \in Name, NEW v \in Version, unloadModel(m, v)
  PROVE  RegistryType'
  <1>1. models' \in Partial(Key, Path)
    <2>1. DOMAIN models \ {<<m, v>>} \in SUBSET DOMAIN models
      OBVIOUS
    <2> QED BY <2>1, PartialRestrict DEF unloadModel, RegistryType, Without
  <1>2. Without(latest, m) \in Partial(Name, Version)
    <2>1. DOMAIN latest \ {m} \in SUBSET DOMAIN latest
      OBVIOUS
    <2> QED BY <2>1, PartialRestrict DEF RegistryType, Without
  <1>3. \A w \in Greatest(Loaded(m) \ {v}) : Put(latest, m, w) \in Partial(Name, Version)
    <2>1. Greatest(Loaded(m) \ {v}) \subseteq Version
      BY DEF Greatest, Loaded
    <2> QED BY <2>1, PartialPut DEF RegistryType
  <1> QED BY <1>1, <1>2, <1>3 DEF unloadModel, RegistryType

LEMMA DynamicTyped == ASSUME RegistryType PROVE Dynamic \in Partial(Key, Path)
  <1>1. DOMAIN models \ StaticKeys \in SUBSET DOMAIN models
    OBVIOUS
  <1> QED BY <1>1, PartialRestrict DEF RegistryType, Dynamic

-----------------------------------------------------------------------------
(* The inductive invariant: types, a load that has not answered yet has a  *)
(* load in call, and the invariant of the registry.                        *)

Loads == {"load"} \X Key \X Path

CallMatches ==
  \A t \in Thread \cup {Main} : pc[t] \in {"create", "register"} => call[t] \in Loads

LEMMA AcknowledgeTyped ==
  ASSUME TypeOK, NEW t \in Thread \cup {Main}, Acknowledge(t)
  PROVE  owed' \subseteq Key \X Path /\ lost' \subseteq Key \X Path
  <1>1. call[t] \in Calls
    BY DEF TypeOK
  <1>2. CASE call[t][1] = "load"
    <2>1. call[t] \in Loads
      BY <1>1, <1>2 DEF Calls, Loads
    <2> QED BY <1>2, <2>1 DEF Loads, Acknowledge, Granted, TypeOK
  <1>3. CASE call[t][1] # "load"
    BY <1>3 DEF Acknowledge, Granted, TypeOK
  <1> QED BY <1>2, <1>3

TypeInv == TypeOK /\ CallMatches

LEMMA InitTyped == Init => TypeInv
  <1> SUFFICES ASSUME Init PROVE TypeInv
    OBVIOUS
  <1>1. TypeOK
    <2>1. models \in Partial(Key, Path) /\ latest \in Partial(Name, Version)
      BY PartialEmpty DEF Init
    <2>2. file \in Documents /\ conf \in Documents
      BY DocumentsTyped, PartialEmpty DEF Init
    <2>3. call \in [Thread \cup {Main} -> Calls]
      BY DEF Init, Calls
    <2>4. buf \in [Thread \cup {Main} -> Documents]
      BY DocumentsTyped DEF Init
    <2>5. starts \in 1..MaxStarts
      BY AdminAssumption DEF Init
    <2> QED BY <2>1, <2>2, <2>3, <2>4, <2>5 DEF Init, TypeOK
  <1>2. CallMatches
    BY DEF Init, CallMatches
  <1> QED BY <1>1, <1>2 DEF TypeInv

(* A call that begins, moves or is answered keeps pc, call and buf typed. *)
Locations == {"idle", "restore", "create", "register", "remove",
              "read", "list", "open", "write"}

CallType ==
  /\ pc \in [Thread \cup {Main} -> Locations]
  /\ call \in [Thread \cup {Main} -> Calls]
  /\ CallMatches

LEMMA BeginTyped ==
  ASSUME CallType, NEW t \in Thread, NEW c \in Calls, NEW l \in Locations,
         l \in {"create", "register"} => c \in Loads, Begin(t, c, l)
  PROVE  CallType' /\ disturbed' \in BOOLEAN
  <1>1. pc' = [pc EXCEPT ![t] = l] /\ call' = [call EXCEPT ![t] = c]
    BY DEF Begin, Goto
  <1>2. disturbed' \in BOOLEAN
    BY DEF Begin
  <1> QED BY <1>1, <1>2 DEF CallType, CallMatches

LEMMA GotoTyped ==
  ASSUME CallType, NEW t \in Thread \cup {Main}, NEW l \in Locations,
         l \in {"create", "register"} => call[t] \in Loads,
         Goto(t, l), call' = call
  PROVE  CallType'
  BY DEF CallType, CallMatches, Goto

LEMMA AnswerTyped ==
  ASSUME CallType, buf \in [Thread \cup {Main} -> Documents],
         NEW t \in Thread \cup {Main}, Answer(t)
  PROVE  CallType' /\ buf' \in [Thread \cup {Main} -> Documents]
  <1>1. <<"none">> \in Calls
    BY DEF Calls
  <1>2. CallType'
    BY <1>1 DEF CallType, CallMatches, Answer, Goto, Locations
  <1>3. buf' \in [Thread \cup {Main} -> Documents]
    BY DocumentsTyped DEF Answer
  <1> QED BY <1>2, <1>3

(* The other variables. *)
RestType ==
  /\ files \subseteq Path
  /\ file \in Documents /\ conf \in Documents
  /\ todo \subseteq DOMAIN conf.dyn
  /\ buf \in [Thread \cup {Main} -> Documents]
  /\ starts \in 1..MaxStarts
  /\ disturbed \in BOOLEAN
  /\ owed \subseteq Key \X Path /\ lost \subseteq Key \X Path

LEMMA TypeStep == TypeInv /\ [Next]_vars => TypeInv'
  <1> SUFFICES ASSUME TypeInv, [Next]_vars PROVE TypeInv'
    OBVIOUS
  <1> DEFINE All == Thread \cup {Main}
  <1>1. CallType /\ RegistryType /\ RestType /\ TypeOK /\ CallMatches
    BY DEF TypeInv, TypeOK, CallType, RegistryType, RestType, Locations
  <1>2. CallType' /\ RegistryType' /\ RestType' => TypeInv'
    BY DEF TypeInv, TypeOK, CallType, RegistryType, RestType, Locations
  <1>3. /\ files \subseteq Path
        /\ file \in Documents /\ conf \in Documents
        /\ todo \subseteq DOMAIN conf.dyn
        /\ buf \in [All -> Documents]
        /\ starts \in 1..MaxStarts
        /\ disturbed \in BOOLEAN
        /\ owed \subseteq Key \X Path /\ lost \subseteq Key \X Path
    BY <1>1 DEF RestType
  <1>4. ASSUME NEW t \in Thread, LoadBegins(t) PROVE TypeInv'
    <2>1. PICK k \in Key, q \in Path : Begin(t, <<"load", k, q>>, "create")
      BY <1>4 DEF LoadBegins
    <2>2. <<"load", k, q>> \in Calls /\ <<"load", k, q>> \in Loads
      BY DEF Calls, Loads
    <2>3. CallType' /\ disturbed' \in BOOLEAN
      BY <1>1, <2>1, <2>2, BeginTyped DEF Locations
    <2> QED BY <1>1, <1>2, <1>3, <1>4, <2>3
         DEF LoadBegins, registry, disk, RegistryType, RestType
  <1>5. ASSUME NEW t \in Thread, CreateBackend(t) PROVE TypeInv'
    <2>1. CallType' /\ buf' \in [All -> Documents]
      <3>1. CASE Answer(t)
        BY <1>1, <1>3, <3>1, AnswerTyped
      <3>2. CASE Goto(t, "register") /\ UNCHANGED <<call, buf>>
        <4>1. call[t] \in Loads
          BY <1>1, <1>5 DEF CallMatches, CreateBackend
        <4> QED BY <1>1, <1>3, <3>2, <4>1, GotoTyped DEF Locations
      <3> QED BY <1>5, <3>1, <3>2 DEF CreateBackend
    <2> QED BY <1>1, <1>2, <1>3, <1>5, <2>1
         DEF CreateBackend, registry, disk, RegistryType, RestType
  <1>6. ASSUME NEW t \in Thread, RegisterModel(t) PROVE TypeInv'
    <2>1. call[t] \in Loads
      BY <1>1, <1>6 DEF CallMatches, RegisterModel
    <2>2. call[t][2][1] \in Name /\ call[t][2][2] \in Version /\ call[t][3] \in Path
      BY <2>1 DEF Loads, Key
    <2>3. RegistryType'
      BY <1>1, <1>6, <2>2, RegisterTyped DEF RegisterModel
    <2>4. CallType' /\ buf' \in [All -> Documents] /\ disturbed' \in BOOLEAN
      <3>1. CASE Answer(t) /\ disturbed' = TRUE
        BY <1>1, <1>3, <3>1, AnswerTyped
      <3>2. CASE Goto(t, "read") /\ UNCHANGED <<call, buf, disturbed>>
        BY <1>1, <1>3, <3>2, GotoTyped DEF Locations
      <3> QED BY <1>6, <3>1, <3>2 DEF RegisterModel
    <2> QED BY <1>1, <1>2, <1>3, <1>6, <2>3, <2>4
         DEF RegisterModel, disk, RestType
  <1>7. ASSUME NEW t \in Thread, UnloadBegins(t) PROVE TypeInv'
    <2>1. PICK n \in Name, v \in Version :
            /\ unloadModel(n, v)
            /\ owed' = {o \in owed : o[1] # <<n, v>>}
            /\ \/ Begin(t, <<"unload", <<n, v>>>>, "read")
               \/ disturbed' = TRUE /\ UNCHANGED <<pc, call>>
      BY <1>7 DEF UnloadBegins
    <2>2. RegistryType'
      BY <1>1, <2>1, UnloadTyped
    <2>3. <<"unload", <<n, v>>>> \in Calls
      BY DEF Calls, Key
    <2>4. CallType' /\ disturbed' \in BOOLEAN
      <3>1. CASE Begin(t, <<"unload", <<n, v>>>>, "read")
        BY <1>1, <2>3, <3>1, BeginTyped DEF Locations
      <3>2. CASE disturbed' = TRUE /\ UNCHANGED <<pc, call>>
        BY <1>1, <3>2 DEF CallType, CallMatches
      <3> QED BY <2>1, <3>1, <3>2
    <2>5. owed' \subseteq Key \X Path
      BY <1>3, <2>1
    <2> QED BY <1>2, <1>3, <1>7, <2>2, <2>4, <2>5 DEF UnloadBegins, disk, RestType
  <1>8. ASSUME NEW t \in Thread, DeleteBegins(t) PROVE TypeInv'
    <2>1. PICK q \in Path : Begin(t, <<"delete", q>>, "remove")
      BY <1>8 DEF DeleteBegins
    <2>2. <<"delete", q>> \in Calls
      BY DEF Calls
    <2>3. CallType' /\ disturbed' \in BOOLEAN
      BY <1>1, <2>1, <2>2, BeginTyped DEF Locations
    <2> QED BY <1>1, <1>2, <1>3, <1>8, <2>3
         DEF DeleteBegins, registry, disk, RegistryType, RestType
  <1>9. ASSUME NEW t \in Thread, RemoveFile(t) PROVE TypeInv'
    <2>1. CallType' /\ buf' \in [All -> Documents]
      BY <1>1, <1>3, <1>9, AnswerTyped DEF RemoveFile
    <2> QED BY <1>1, <1>2, <1>3, <1>9, <2>1
         DEF RemoveFile, registry, RegistryType, RestType
  <1>10. ASSUME NEW t \in Thread, ApplyBegins(t) PROVE TypeInv'
    <2>1. <<"apply">> \in Calls
      BY DEF Calls
    <2>2. CallType' /\ disturbed' \in BOOLEAN
      BY <1>1, <1>10, <2>1, BeginTyped DEF ApplyBegins, Locations
    <2> QED BY <1>1, <1>2, <1>3, <1>10, <2>2
         DEF ApplyBegins, registry, disk, RegistryType, RestType
  <1>11. ASSUME NEW t \in All, ReadConfig(t) PROVE TypeInv'
    <2>1. /\ CallType' /\ buf' \in [All -> Documents]
          /\ owed' \subseteq Key \X Path /\ lost' \subseteq Key \X Path
      <3>1. CASE /\ buf' = [buf EXCEPT ![t] = file]
                 /\ Goto(t, IF Saves(t) THEN "list" ELSE "open")
                 /\ UNCHANGED <<call, owed, lost>>
        <4>1. CallType'
          BY <1>1, <3>1, GotoTyped DEF Locations
        <4> QED BY <1>3, <3>1, <4>1
      <3>2. CASE /\ buf' = [buf EXCEPT ![t] = Fresh]
                 /\ Goto(t, "open")
                 /\ UNCHANGED <<call, owed, lost>>
        <4>1. CallType'
          BY <1>1, <3>2, GotoTyped DEF Locations
        <4> QED BY <1>3, <3>2, <4>1, DocumentsTyped
      <3>3. CASE Answer(t) /\ Acknowledge(t)
        BY <1>1, <1>3, <3>3, AnswerTyped, AcknowledgeTyped
      <3> QED BY <1>11, <3>1, <3>2, <3>3 DEF ReadConfig
    <2> QED BY <1>1, <1>2, <1>3, <1>11, <2>1
         DEF ReadConfig, registry, disk, RegistryType, RestType
  <1>12. ASSUME NEW t \in All, ListModels(t) PROVE TypeInv'
    <2>1. CallType'
      BY <1>1, <1>12, GotoTyped DEF ListModels, Locations
    <2>2. buf[t].sections \in BOOLEAN
      BY <1>3 DEF Documents
    <2>3. Document(Dynamic, buf[t].sections) \in Documents
      BY <1>1, <2>2, DynamicTyped, DocumentsTyped
    <2>4. buf' \in [All -> Documents]
      BY <1>3, <1>12, <2>3 DEF ListModels
    <2> QED BY <1>1, <1>2, <1>3, <1>12, <2>1, <2>4
         DEF ListModels, registry, disk, RegistryType, RestType
  <1>13. ASSUME NEW t \in All, OpenConfig(t) PROVE TypeInv'
    <2>1. CallType'
      BY <1>1, <1>13, GotoTyped DEF OpenConfig, Locations
    <2> QED BY <1>1, <1>2, <1>3, <1>13, <2>1, DocumentsTyped
         DEF OpenConfig, registry, RegistryType, RestType
  <1>14. ASSUME NEW t \in All, WriteConfig(t) PROVE TypeInv'
    <2>1. CallType' /\ buf' \in [All -> Documents]
      BY <1>1, <1>3, <1>14, AnswerTyped DEF WriteConfig
    <2>2. owed' \subseteq Key \X Path /\ lost' \subseteq Key \X Path
      BY <1>1, <1>14, AcknowledgeTyped DEF WriteConfig
    <2>3. file' \in Documents
      BY <1>3, <1>14 DEF WriteConfig
    <2> QED BY <1>1, <1>2, <1>3, <1>14, <2>1, <2>2, <2>3
         DEF WriteConfig, registry, RegistryType, RestType
  <1>15. CASE Restore
    <2>1. PICK k \in todo :
            /\ todo' = todo \ {k}
            /\ \/ /\ registerModel(k[1], k[2], conf.dyn[k])
                  /\ UNCHANGED disturbed
               \/ disturbed' = TRUE /\ UNCHANGED registry
      BY <1>15 DEF Restore
    <2>2. k[1] \in Name /\ k[2] \in Version /\ conf.dyn[k] \in Path
      <3>1. conf.dyn \in Partial(Key, Path)
        BY <1>3 DEF Documents
      <3> QED BY <1>3, <2>1, <3>1, PartialElim DEF Key
    <2>3. RegistryType'
      BY <1>1, <2>1, <2>2, RegisterTyped DEF registry, RegistryType
    <2>4. CallType'
      BY <1>1, <1>15 DEF Restore, CallType, CallMatches
    <2> QED BY <1>2, <1>3, <1>15, <2>1, <2>3, <2>4 DEF Restore, disk, RestType
  <1>16. CASE Advise
    <2>1. CallType'
      BY <1>1, <1>16, GotoTyped DEF Advise, Locations
    <2> QED BY <1>1, <1>2, <1>3, <1>16, <2>1
         DEF Advise, registry, disk, RegistryType, RestType
  <1>17. CASE Restart
    <2>1. RegistryType'
      BY <1>17, PartialEmpty DEF Restart, RegistryType
    <2>2. CallType'
      <3>1. <<"none">> \in Calls /\ <<"start">> \in Calls
        BY DEF Calls
      <3> QED BY <1>1, <1>17, <3>1 DEF Restart, CallType, CallMatches, Locations
    <2>3. conf' \in Documents /\ todo' \subseteq DOMAIN conf'.dyn
      <3>1. CASE file.ok
        BY <1>3, <1>17, <3>1 DEF Restart
      <3>2. CASE ~file.ok
        <4>1. conf' = Fresh
          BY <1>17, <3>2 DEF Restart
        <4>2. todo' \subseteq DOMAIN conf'.dyn
          BY <1>17 DEF Restart
        <4> QED BY <4>1, <4>2, DocumentsTyped
      <3> QED BY <3>1, <3>2
    <2>4. buf' \in [All -> Documents]
      BY <1>1, <1>17, DocumentsTyped DEF Restart, CallType
    <2>5. starts' \in 1..MaxStarts
      BY <1>3, <1>17, AdminAssumption DEF Restart
    <2> QED BY <1>2, <1>3, <1>17, <2>1, <2>2, <2>3, <2>4, <2>5 DEF Restart, disk, RestType
  <1>18. CASE Deploy
    BY <1>1, <1>2, <1>3, <1>18
    DEF Deploy, registry, RegistryType, CallType, CallMatches, RestType
  <1>19. CASE UNCHANGED vars
    BY <1>1, <1>2, <1>3, <1>19
    DEF vars, RegistryType, CallType, CallMatches, RestType
  <1> QED BY <1>4, <1>5, <1>6, <1>7, <1>8, <1>9, <1>10, <1>11, <1>12, <1>13, <1>14,
             <1>15, <1>16, <1>17, <1>18, <1>19
       DEF Next, Handle, Rewrite

-----------------------------------------------------------------------------
(* Only registering, unloading, restoring and a restart touch the registry. *)

RegistryMoves ==
  \/ \E m \in Name, v \in Version : (\E p \in Path : registerModel(m, v, p)) \/ unloadModel(m, v)
  \/ models' = Empty /\ latest' = Empty
  \/ UNCHANGED registry

LEMMA OnlyTheseMove == TypeInv /\ [Next]_vars => RegistryMoves
  <1> SUFFICES ASSUME TypeInv, [Next]_vars PROVE RegistryMoves
    OBVIOUS
  <1>1. CASE \E t \in Thread : RegisterModel(t)
    <2>1. PICK t \in Thread : RegisterModel(t)
      BY <1>1
    <2>2. call[t] \in Loads
      BY <2>1 DEF TypeInv, CallMatches, RegisterModel
    <2>3. call[t][2][1] \in Name /\ call[t][2][2] \in Version /\ call[t][3] \in Path
      BY <2>2 DEF Loads, Key
    <2> QED BY <2>1, <2>3 DEF RegisterModel, RegistryMoves
  <1>2. CASE \E t \in Thread : UnloadBegins(t)
    BY <1>2 DEF UnloadBegins, RegistryMoves
  <1>3. CASE Restore
    <2>1. conf.dyn \in Partial(Key, Path) /\ todo \subseteq DOMAIN conf.dyn
      BY DEF TypeInv, TypeOK, Documents
    <2>2. \A k \in todo : k[1] \in Name /\ k[2] \in Version /\ conf.dyn[k] \in Path
      BY <2>1, PartialElim DEF Key
    <2> QED BY <1>3, <2>2 DEF Restore, RegistryMoves
  <1>4. CASE Restart
    BY <1>4 DEF Restart, RegistryMoves
  <1>5. CASE \/ \E t \in Thread : \/ LoadBegins(t) \/ CreateBackend(t) \/ DeleteBegins(t)
                                  \/ RemoveFile(t) \/ ApplyBegins(t)
             \/ \E t \in Thread \cup {Main} : Rewrite(t)
             \/ Advise \/ Deploy
    BY <1>5 DEF LoadBegins, CreateBackend, DeleteBegins, RemoveFile, ApplyBegins, Rewrite,
       ReadConfig, ListModels, OpenConfig, WriteConfig, Advise, Deploy, RegistryMoves, registry
  <1>6. CASE UNCHANGED vars
    BY <1>6 DEF vars, RegistryMoves, registry
  <1> QED BY <1>1, <1>2, <1>3, <1>4, <1>5, <1>6 DEF Next, Handle

LEMMA InitNewest == Init => RegistryInv
  BY DEF Init, Empty, Loaded, RegistryInv, LatestType, LatestIsNewest

LEMMA RegistryStep == TypeInv /\ RegistryInv /\ [Next]_vars => RegistryInv'
  <1> SUFFICES ASSUME TypeInv, RegistryInv, [Next]_vars PROVE RegistryInv'
    OBVIOUS
  <1>1. RegistryMoves
    BY OnlyTheseMove
  <1>2. CASE \E m \in Name, v \in Version :
               (\E p \in Path : registerModel(m, v, p)) \/ unloadModel(m, v)
    BY <1>2, RegisterKeepsInv, UnloadKeepsInv
  <1>3. CASE models' = Empty /\ latest' = Empty
    BY <1>3 DEF Empty, Loaded, RegistryInv, LatestType, LatestIsNewest
  <1>4. CASE UNCHANGED registry
    BY <1>4 DEF registry, Loaded, Greatest, RegistryInv, LatestType, LatestIsNewest
  <1> QED BY <1>1, <1>2, <1>3, <1>4 DEF RegistryMoves

-----------------------------------------------------------------------------
(* The state of the handlers, the registry and the configuration file has  *)
(* its type; in particular every model still to be restored is one the     *)
(* file listed at the start.  (InferenceServer.cpp, ModelLoadHandler.cpp)  *)
THEOREM AdminTypeCorrect == Spec => []TypeOK
  <1>1. TypeInv => TypeOK
    BY DEF TypeInv
  <1> QED BY <1>1, InitTyped, TypeStep, PTL DEF Spec

(* Whatever models are loaded, unloaded and restored, by however many      *)
(* threads and whatever the version strings: a name has a latest version   *)
(* exactly while it has a loaded one, and no loaded version is newer,      *)
(* unless one of them is beyond int.  (ModelFactory.cpp)                   *)
THEOREM LatestIsCorrect == Spec => []LatestIsNewest
  <1>1. RegistryInv => LatestIsNewest
    BY DEF RegistryInv
  <1>2. Init => TypeInv /\ RegistryInv
    BY InitTyped, InitNewest
  <1>3. TypeInv /\ RegistryInv /\ [Next]_vars => (TypeInv /\ RegistryInv)'
    BY TypeStep, RegistryStep
  <1> QED BY <1>1, <1>2, <1>3, PTL DEF Spec

-----------------------------------------------------------------------------
(* What relates the file, the registry and the model files.  First what    *)
(* holds of every state, disturbed or not: the documents that are in use   *)
(* parse, none has sections that the start did not see, and none lists a   *)
(* static key beside them; the main thread only ever starts the server.    *)

SoundDocument(d) ==
  d.sections => conf.sections /\ \A k \in DOMAIN d.dyn : k \notin Static

DocumentInv ==
  /\ file.ok \/ file = Blank
  /\ SoundDocument(file) /\ SoundDocument(conf)
  /\ \A t \in Thread \cup {Main} :
       /\ SoundDocument(buf[t])
       /\ pc[t] \in {"list", "open", "write"} => buf[t].ok

StartInv ==
  /\ pc[Main] \in {"idle", "restore", "read", "open", "write"}
  /\ pc[Main] # "idle" => call[Main] = <<"start">>
  /\ \A t \in Thread : pc[t] # "restore"

(* The rest holds until calls overlap or one fails half way.  One call at  *)
(* a time is in progress, and its place tells what it has tested or done.  *)
OneAtATime ==
  \A t, u \in Thread \cup {Main} : pc[t] # "idle" /\ pc[u] # "idle" => t = u

Quiet == {"idle", "create", "register", "remove"}

(* The file lags behind the registry from a load or unload to its write.   *)
FileInv ==
  /\ (\A t \in Thread \cup {Main} : pc[t] \in Quiet) => file.ok /\ file.dyn = Dynamic
  /\ \A t \in Thread \cup {Main} :
       /\ pc[t] = "read" /\ ~Saves(t) =>
            IF file.ok THEN file.dyn = Dynamic ELSE Dynamic = Empty
       /\ pc[t] \in {"read", "list"} /\ Saves(t) => file.ok
       /\ pc[t] \in {"open", "write"} => buf[t].dyn = Dynamic

(* Restoring goes through what the file listed. *)
RestoreInv ==
  pc[Main] = "restore" =>
    /\ conf = IF file.ok THEN file ELSE Fresh
    /\ DOMAIN models = DOMAIN conf.dyn \ todo
    /\ \A k \in DOMAIN models : models[k] = conf.dyn[k]

(* No registered model is without its file: a load has seen it, a delete   *)
(* has seen that no model needs it.                                        *)
PresenceInv ==
  /\ \A k \in DOMAIN models : models[k] \in files
  /\ \A t \in Thread \cup {Main} :
       /\ pc[t] \in {"create", "register"} => call[t][2] \notin DOMAIN models
       /\ pc[t] = "register" => call[t][3] \in files
       /\ pc[t] = "remove" => \A k \in DOMAIN models : models[k] # call[t][2]

Lists(d, o) == o[1] \in DOMAIN d.dyn /\ d.dyn[o[1]] = o[2]

(* What was acknowledged is registered, or about to be restored, and on    *)
(* the disk; what is about to be acknowledged is registered.               *)
OwedInv ==
  /\ \A o \in owed \ lost : o[1] \notin Static =>
       /\ file.ok => Lists(file, o)
       /\ IF pc[Main] = "restore" THEN Lists(conf, o) ELSE IsLoaded(o)
  /\ \A t \in Thread \cup {Main} :
       pc[t] \in {"read", "list", "open", "write"} /\ call[t][1] = "load"
         => IsLoaded(<<call[t][2], call[t][3]>>)

UndisturbedInv ==
  ~disturbed => OneAtATime /\ FileInv /\ RestoreInv /\ PresenceInv /\ OwedInv

AdminInv == TypeInv /\ DocumentInv /\ StartInv /\ UndisturbedInv

-----------------------------------------------------------------------------
(* The parts that hold of every state.                                     *)

LEMMA InitAdmin == Init => DocumentInv /\ StartInv /\ UndisturbedInv
  <1> SUFFICES ASSUME Init PROVE DocumentInv /\ StartInv /\ UndisturbedInv
    OBVIOUS
  <1>1. /\ \A t \in Thread : pc[t] = "idle"
        /\ pc[Main] = "restore" /\ call[Main] = <<"start">>
        /\ \A t \in Thread \cup {Main} : buf[t] = Blank
    BY AdminAssumption DEF Init
  <1>2. /\ DOMAIN Empty = {}
        /\ ~Blank.ok /\ ~Blank.sections
        /\ conf = file /\ file.ok /\ file.dyn = Empty
    BY DEF Empty, Blank, Init, Document
  <1>3. DocumentInv /\ StartInv
    BY <1>1, <1>2 DEF DocumentInv, StartInv, SoundDocument
  <1>4. OneAtATime /\ OwedInv /\ PresenceInv
    BY <1>1, <1>2, AdminAssumption DEF Init, OneAtATime, OwedInv, PresenceInv
  <1>5. FileInv /\ RestoreInv
    BY <1>1, <1>2, AdminAssumption DEF Init, FileInv, RestoreInv, Quiet
  <1> QED BY <1>3, <1>4, <1>5 DEF UndisturbedInv

LEMMA StartStep == TypeInv /\ StartInv /\ [Next]_vars => StartInv'
  <1> SUFFICES ASSUME TypeInv, StartInv, [Next]_vars PROVE StartInv'
    OBVIOUS
  <1>1. /\ pc \in [Thread \cup {Main} -> Locations]
        /\ call \in [Thread \cup {Main} -> Calls]
        /\ Main \notin Thread
    BY AdminAssumption DEF TypeInv, TypeOK, Locations
  <1>2. ASSUME NEW t \in Thread, Handle(t) PROVE StartInv'
    BY <1>1, <1>2 DEF StartInv, Handle, LoadBegins, CreateBackend, RegisterModel, UnloadBegins,
       DeleteBegins, RemoveFile, ApplyBegins, Begin, Answer, Goto
  <1>3. ASSUME NEW t \in Thread, Rewrite(t) PROVE StartInv'
    BY <1>1, <1>3 DEF StartInv, Rewrite, ReadConfig, ListModels, OpenConfig, WriteConfig,
       Answer, Goto
  <1>4. CASE Rewrite(Main)
    <2>1. pc[Main] # "idle" => ~Saves(Main)
      BY DEF StartInv, Saves
    <2> QED BY <1>1, <1>4, <2>1 DEF StartInv, Rewrite, ReadConfig, ListModels, OpenConfig,
         WriteConfig, Answer, Goto
  <1>5. CASE Restore \/ Deploy \/ UNCHANGED vars
    BY <1>5 DEF StartInv, Restore, Deploy, vars
  <1>6. CASE Advise \/ Restart
    BY <1>1, <1>6 DEF StartInv, Advise, Restart, Goto
  <1> QED BY <1>2, <1>3, <1>4, <1>5, <1>6 DEF Next

LEMMA DynamicIsSound ==
  ASSUME DocumentInv, NEW t \in Thread \cup {Main}
  PROVE  SoundDocument(Document(Dynamic, buf[t].sections))
  BY DEF DocumentInv, SoundDocument, Document, Dynamic, StaticKeys

LEMMA NoDocumentIsSound == SoundDocument(Blank) /\ SoundDocument(Fresh)
  BY DEF SoundDocument, Blank, Fresh, Document

LEMMA DocumentStep == TypeInv /\ DocumentInv /\ [Next]_vars => DocumentInv'
  <1> SUFFICES ASSUME TypeInv, DocumentInv, [Next]_vars PROVE DocumentInv'
    OBVIOUS
  <1>1. /\ pc \in [Thread \cup {Main} -> Locations]
        /\ buf \in [Thread \cup {Main} -> Documents]
        /\ Fresh.ok /\ ~Blank.ok
    BY DEF TypeInv, TypeOK, Locations, Fresh, Blank, Document
  <1> DEFINE Good(t) == /\ SoundDocument(buf[t])
                        /\ pc[t] \in {"list", "open", "write"} => buf[t].ok
  <1>2. /\ file.ok \/ file = Blank
        /\ SoundDocument(file) /\ SoundDocument(conf)
        /\ \A t \in Thread \cup {Main} : Good(t)
    BY DEF DocumentInv
  <1>3. ASSUME conf' = conf PROVE \A d : SoundDocument(d)' <=> SoundDocument(d')
    BY <1>3 DEF SoundDocument
  <1>4. ASSUME NEW t \in Thread, Handle(t) PROVE DocumentInv'
    <2>1. /\ conf' = conf /\ file' = file
          /\ \A u \in Thread \cup {Main} :
               (buf'[u] = buf[u] /\ pc'[u] \in {pc[u], "create", "register", "read", "remove"})
                 \/ (buf'[u] = Blank /\ pc'[u] = "idle")
      BY <1>1, <1>4 DEF Handle, LoadBegins, CreateBackend, RegisterModel, UnloadBegins,
         DeleteBegins, RemoveFile, ApplyBegins, Begin, Answer, Goto, disk
    <2> QED BY <1>2, <2>1, NoDocumentIsSound DEF DocumentInv, SoundDocument
  <1>5. ASSUME NEW t \in Thread \cup {Main}, ReadConfig(t) PROVE DocumentInv'
    <2>1. /\ conf' = conf /\ file' = file
          /\ \A u \in Thread \cup {Main} :
               \/ buf'[u] = buf[u] /\ pc'[u] = pc[u]
               \/ buf'[u] = Blank /\ pc'[u] = "idle"
               \/ buf'[u] = file /\ file.ok
               \/ buf'[u] = Fresh
      BY <1>1, <1>5 DEF ReadConfig, Answer, Goto, disk
    <2> QED BY <1>1, <1>2, <2>1, NoDocumentIsSound DEF DocumentInv, SoundDocument
  <1>6. ASSUME NEW t \in Thread \cup {Main}, ListModels(t) PROVE DocumentInv'
    <2>1. /\ conf' = conf /\ file' = file
          /\ \A u \in Thread \cup {Main} :
               \/ buf'[u] = buf[u] /\ pc'[u] = pc[u]
               \/ buf'[u] = Document(Dynamic, buf[t].sections)
      BY <1>1, <1>6 DEF ListModels, Goto, disk
    <2>2. Document(Dynamic, buf[t].sections).ok
      BY DEF Document
    <2> QED BY <1>2, <2>1, <2>2, DynamicIsSound DEF DocumentInv, SoundDocument
  <1>7. ASSUME NEW t \in Thread \cup {Main}, OpenConfig(t) PROVE DocumentInv'
    <2>1. /\ conf' = conf /\ file' = Blank /\ buf' = buf
          /\ \A u \in Thread \cup {Main} : pc'[u] = pc[u] \/ pc[u] = "open"
      BY <1>1, <1>7 DEF OpenConfig, Goto
    <2> QED BY <1>2, <2>1, NoDocumentIsSound DEF DocumentInv, SoundDocument
  <1>8. ASSUME NEW t \in Thread \cup {Main}, WriteConfig(t) PROVE DocumentInv'
    <2>1. /\ conf' = conf /\ file' = buf[t] /\ pc[t] = "write"
          /\ \A u \in Thread \cup {Main} :
               \/ buf'[u] = buf[u] /\ pc'[u] = pc[u]
               \/ buf'[u] = Blank /\ pc'[u] = "idle"
      BY <1>1, <1>8 DEF WriteConfig, Answer, Goto
    <2> QED BY <1>2, <2>1, NoDocumentIsSound DEF DocumentInv, SoundDocument
  <1>9. CASE Restore \/ Advise \/ Deploy \/ UNCHANGED vars
    <2>1. /\ conf' = conf /\ file' = file /\ buf' = buf
          /\ \A u \in Thread \cup {Main} : pc'[u] \in {pc[u], "read"}
      BY <1>1, <1>9 DEF Restore, Advise, Deploy, vars, disk, Goto
    <2> QED BY <1>2, <2>1 DEF DocumentInv, SoundDocument
  <1>10. CASE Restart
    <2>1. /\ file' = file /\ conf' = IF file.ok THEN file ELSE Fresh
          /\ \A u \in Thread \cup {Main} :
               buf'[u] = Blank /\ pc'[u] \in {"idle", "restore"}
      BY <1>1, <1>10 DEF Restart, disk
    <2>2. file.ok \/ ~file.sections
      BY <1>2 DEF Blank
    <2>3. ~Blank.sections /\ ~Fresh.sections
      BY DEF Blank, Fresh, Document
    <2> QED BY <1>2, <2>1, <2>2, <2>3 DEF DocumentInv, SoundDocument
  <1> QED BY <1>4, <1>5, <1>6, <1>7, <1>8, <1>9, <1>10 DEF Next, Rewrite

-----------------------------------------------------------------------------
(* The undisturbed part, one action at a time.                             *)

Calm == OneAtATime /\ FileInv /\ RestoreInv /\ PresenceInv /\ OwedInv

LEMMA DynamicKept ==
  ASSUME models' = models, conf' = conf PROVE Dynamic' = Dynamic
  BY DEF Dynamic, StaticKeys

LEMMA ListedIfDynamic ==
  ASSUME NEW d, d.dyn = Dynamic, NEW o, o[1] \notin Static, IsLoaded(o)
  PROVE  Lists(d, o)
  BY DEF Lists, IsLoaded, Dynamic, StaticKeys

(* A call that begins without disturbing finds everybody idle. *)
LEMMA Begun ==
  ASSUME TypeInv, NEW t \in Thread, NEW c, NEW l, Begin(t, c, l), ~disturbed'
  PROVE  /\ ~disturbed
         /\ \A u \in Thread \cup {Main} : pc[u] = "idle"
         /\ \A u \in Thread \cup {Main} : u # t => pc'[u] = "idle" /\ call'[u] = call[u]
         /\ pc'[t] = l /\ call'[t] = c
  <1>1. /\ pc \in [Thread \cup {Main} -> Locations]
        /\ call \in [Thread \cup {Main} -> Calls]
        /\ Main \notin Thread
    BY AdminAssumption DEF TypeInv, TypeOK, Locations
  <1> QED BY <1>1 DEF Begin, Up, Goto

(* One that is answered leaves everybody idle. *)
LEMMA Answered ==
  ASSUME TypeInv, OneAtATime, NEW t \in Thread \cup {Main}, pc[t] # "idle", Answer(t)
  PROVE  \A u \in Thread \cup {Main} : pc'[u] = "idle"
  <1>1. pc \in [Thread \cup {Main} -> Locations]
    BY DEF TypeInv, TypeOK, Locations
  <1> QED BY <1>1 DEF OneAtATime, Answer, Goto

(* One that goes on stays the only one. *)
LEMMA Gone ==
  ASSUME TypeInv, OneAtATime, NEW t \in Thread \cup {Main}, pc[t] # "idle",
         NEW l, Goto(t, l)
  PROVE  /\ \A u \in Thread \cup {Main} : u # t => pc[u] = "idle" /\ pc'[u] = "idle"
         /\ pc'[t] = l
         /\ OneAtATime'
  <1>1. pc \in [Thread \cup {Main} -> Locations]
    BY DEF TypeInv, TypeOK, Locations
  <1> QED BY <1>1 DEF OneAtATime, Goto

LEMMA LoadBeginsCalm ==
  ASSUME TypeInv, StartInv, Calm, NEW t \in Thread, LoadBegins(t), ~disturbed'
  PROVE  Calm'
  <1>1. PICK k \in Key \ DOMAIN models, p \in Path : Begin(t, <<"load", k, p>>, "create")
    BY DEF LoadBegins
  <1>2. /\ \A u \in Thread \cup {Main} : pc[u] = "idle"
        /\ \A u \in Thread \cup {Main} : u # t => pc'[u] = "idle"
        /\ pc'[t] = "create" /\ call'[t] = <<"load", k, p>>
    BY <1>1, Begun
  <1>3. /\ models' = models /\ conf' = conf /\ file' = file /\ files' = files
        /\ owed' = owed /\ lost' = lost /\ Dynamic' = Dynamic /\ Main # t
    BY AdminAssumption, DynamicKept DEF LoadBegins, registry, disk
  <1> QED BY <1>2, <1>3 DEF Calm, OneAtATime, FileInv, RestoreInv, PresenceInv, OwedInv,
       Quiet, Lists, IsLoaded

LEMMA CreateBackendCalm ==
  ASSUME TypeInv, StartInv, Calm, NEW t \in Thread, CreateBackend(t)
  PROVE  Calm'
  <1>1. /\ models' = models /\ conf' = conf /\ file' = file /\ files' = files
        /\ owed' = owed /\ lost' = lost /\ Dynamic' = Dynamic /\ Main # t
    BY AdminAssumption, DynamicKept DEF CreateBackend, registry, disk
  <1>2. pc[t] = "create" /\ OneAtATime
    BY DEF CreateBackend, Calm
  <1>3. \A u \in Thread \cup {Main} : pc[u] \in Quiet
    BY <1>2 DEF OneAtATime, Quiet
  <1>4. /\ file.ok /\ file.dyn = Dynamic /\ pc[Main] # "restore"
    BY <1>3, Zenon DEF Calm, FileInv, Quiet
  <1>5. CASE Answer(t)
    <2>1. \A u \in Thread \cup {Main} : pc'[u] = "idle"
      BY <1>2, <1>5, Answered
    <2> QED BY <1>1, <1>4, <2>1 DEF Calm, OneAtATime, FileInv, RestoreInv, PresenceInv, OwedInv,
         Quiet, Lists, IsLoaded
  <1>6. CASE call[t][3] \in files /\ Goto(t, "register") /\ UNCHANGED <<call, buf>>
    <2>1. /\ \A u \in Thread \cup {Main} : u # t => pc'[u] = "idle"
          /\ pc'[t] = "register" /\ OneAtATime'
      BY <1>2, <1>6, Gone
    <2> QED BY <1>1, <1>2, <1>4, <1>6, <2>1 DEF Calm, FileInv, RestoreInv, PresenceInv, OwedInv,
         Quiet, Lists, IsLoaded
  <1> QED BY <1>5, <1>6 DEF CreateBackend

LEMMA RegisterModelCalm ==
  ASSUME TypeInv, StartInv, Calm, NEW t \in Thread, RegisterModel(t), ~disturbed'
  PROVE  Calm'
  <1> DEFINE k == call[t][2]
  <1>1. call[t] \in Loads /\ pc[t] = "register" /\ OneAtATime /\ Main # t
    BY AdminAssumption DEF TypeInv, CallMatches, RegisterModel, Calm
  <1>2. k = <<k[1], k[2]>> /\ call[t][1] = "load"
    BY <1>1 DEF Loads, Key
  <1>3. /\ models' = Put(models, k, call[t][3])
        /\ Goto(t, "read") /\ call' = call
        /\ conf' = conf /\ file' = file /\ files' = files /\ owed' = owed /\ lost' = lost
    BY <1>2 DEF RegisterModel, registerModel, disk
  <1>4. \A u \in Thread \cup {Main} : pc[u] \in Quiet
    BY <1>1 DEF OneAtATime, Quiet
  <1>5. /\ file.ok /\ pc[Main] = "idle" /\ k \notin DOMAIN models /\ call[t][3] \in files
    BY <1>1, <1>4 DEF Calm, OneAtATime, FileInv, PresenceInv
  <1>6. /\ \A u \in Thread \cup {Main} : u # t => pc'[u] = "idle"
        /\ pc'[t] = "read" /\ OneAtATime'
    BY <1>1, <1>3, Gone
  <1>7. /\ DOMAIN models' = DOMAIN models \cup {k}
        /\ \A x \in DOMAIN models' : models'[x] = IF x = k THEN call[t][3] ELSE models[x]
    BY <1>3 DEF Put
  <1>8. FileInv' /\ RestoreInv' /\ PresenceInv'
    BY <1>1, <1>2, <1>3, <1>5, <1>6, <1>7
    DEF Calm, FileInv, RestoreInv, PresenceInv, Quiet, Saves
  <1>9. OwedInv'
    BY <1>1, <1>3, <1>5, <1>6, <1>7 DEF Calm, OwedInv, Lists, IsLoaded
  <1> QED BY <1>6, <1>8, <1>9 DEF Calm

LEMMA UnloadBeginsCalm ==
  ASSUME TypeInv, StartInv, Calm, NEW t \in Thread, UnloadBegins(t), ~disturbed'
  PROVE  Calm'
  <1>1. PICK n \in Name, v \in Version :
          /\ unloadModel(n, v)
          /\ owed' = {o \in owed : o[1] # <<n, v>>} /\ lost' = lost
          /\ Begin(t, <<"unload", <<n, v>>>>, "read")
    BY DEF UnloadBegins
  <1>2. /\ \A u \in Thread \cup {Main} : pc[u] = "idle"
        /\ \A u \in Thread \cup {Main} : u # t => pc'[u] = "idle"
        /\ pc'[t] = "read" /\ call'[t] = <<"unload", <<n, v>>>>
    BY <1>1, Begun
  <1>3. /\ models' = Without(models, <<n, v>>)
        /\ conf' = conf /\ file' = file /\ files' = files /\ Main # t
    BY <1>1, AdminAssumption DEF UnloadBegins, disk, unloadModel
  <1>4. /\ DOMAIN models' = DOMAIN models \ {<<n, v>>}
        /\ \A x \in DOMAIN models' : models'[x] = models[x]
    BY <1>3 DEF Without
  <1>5. OneAtATime' /\ RestoreInv' /\ PresenceInv'
    BY <1>2, <1>3, <1>4 DEF Calm, OneAtATime, RestoreInv, PresenceInv
  <1>6. FileInv'
    BY <1>2, <1>3 DEF Calm, FileInv, Quiet, Saves
  <1>7. OwedInv'
    BY <1>1, <1>2, <1>3, <1>4 DEF Calm, OwedInv, Lists, IsLoaded
  <1> QED BY <1>5, <1>6, <1>7 DEF Calm

LEMMA DeleteBeginsCalm ==
  ASSUME TypeInv, StartInv, Calm, NEW t \in Thread, DeleteBegins(t), ~disturbed'
  PROVE  Calm'
  <1>1. PICK p \in Path :
          /\ \A k \in DOMAIN models : models[k] # p
          /\ Begin(t, <<"delete", p>>, "remove")
    BY DEF DeleteBegins
  <1>2. /\ \A u \in Thread \cup {Main} : pc[u] = "idle"
        /\ \A u \in Thread \cup {Main} : u # t => pc'[u] = "idle"
        /\ pc'[t] = "remove" /\ call'[t] = <<"delete", p>>
    BY <1>1, Begun
  <1>3. /\ models' = models /\ conf' = conf /\ file' = file /\ files' = files
        /\ owed' = owed /\ lost' = lost /\ Dynamic' = Dynamic /\ Main # t
    BY AdminAssumption, DynamicKept DEF DeleteBegins, registry, disk
  <1> QED BY <1>1, <1>2, <1>3
       DEF Calm, OneAtATime, FileInv, RestoreInv, PresenceInv, OwedInv, Quiet, Lists, IsLoaded

LEMMA RemoveFileCalm ==
  ASSUME TypeInv, StartInv, Calm, NEW t \in Thread, RemoveFile(t)
  PROVE  Calm'
  <1>1. /\ models' = models /\ conf' = conf /\ file' = file /\ owed' = owed /\ lost' = lost
        /\ files' = files \ {call[t][2]} /\ Dynamic' = Dynamic /\ Main # t
    BY AdminAssumption, DynamicKept DEF RemoveFile, registry
  <1>2. pc[t] = "remove" /\ OneAtATime
    BY DEF RemoveFile, Calm
  <1>3. \A u \in Thread \cup {Main} : pc[u] \in Quiet
    BY <1>2 DEF OneAtATime, Quiet
  <1>4. file.ok /\ file.dyn = Dynamic /\ pc[Main] # "restore"
    BY <1>3, Zenon DEF Calm, FileInv, Quiet
  <1>5. \A u \in Thread \cup {Main} : pc'[u] = "idle"
    BY <1>2, Answered DEF RemoveFile
  <1>6. \A k \in DOMAIN models : models[k] \in files'
    BY <1>1, <1>2 DEF Calm, PresenceInv
  <1> QED BY <1>1, <1>4, <1>5, <1>6
       DEF Calm, OneAtATime, FileInv, RestoreInv, PresenceInv, OwedInv, Quiet, Lists, IsLoaded

LEMMA ApplyBeginsCalm ==
  ASSUME TypeInv, StartInv, Calm, NEW t \in Thread, ApplyBegins(t), ~disturbed'
  PROVE  Calm'
  <1>1. Begin(t, <<"apply">>, "read")
    BY DEF ApplyBegins
  <1>2. /\ \A u \in Thread \cup {Main} : pc[u] = "idle"
        /\ \A u \in Thread \cup {Main} : u # t => pc'[u] = "idle"
        /\ pc'[t] = "read" /\ call'[t] = <<"apply">>
    BY <1>1, Begun
  <1>3. /\ models' = models /\ conf' = conf /\ file' = file /\ files' = files
        /\ owed' = owed /\ lost' = lost /\ Dynamic' = Dynamic /\ Main # t
    BY AdminAssumption, DynamicKept DEF ApplyBegins, registry, disk
  <1> QED BY <1>2, <1>3
       DEF Calm, OneAtATime, FileInv, RestoreInv, PresenceInv, OwedInv, Quiet, Saves,
           Lists, IsLoaded

LEMMA ReadConfigCalm ==
  ASSUME TypeInv, StartInv, Calm, NEW t \in Thread \cup {Main}, ReadConfig(t)
  PROVE  Calm'
  <1>1. /\ models' = models /\ conf' = conf /\ file' = file /\ files' = files
        /\ Dynamic' = Dynamic
    BY DynamicKept DEF ReadConfig, registry, disk
  <1>2. pc[t] = "read" /\ OneAtATime /\ buf \in [Thread \cup {Main} -> Documents]
    BY DEF ReadConfig, Calm, TypeInv, TypeOK
  <1>3. /\ Saves(t) => file.ok
        /\ ~Saves(t) => IF file.ok THEN file.dyn = Dynamic ELSE Dynamic = Empty
    BY <1>2 DEF Calm, FileInv
  <1>4. PICK l \in {"list", "open"} :
          /\ Goto(t, l) /\ call' = call /\ owed' = owed /\ lost' = lost
          /\ l = "list" => Saves(t)
          /\ buf' = [buf EXCEPT ![t] = IF file.ok THEN file ELSE Fresh]
          /\ l = "open" => ~Saves(t)
    BY <1>3 DEF ReadConfig
  <1>5. /\ \A u \in Thread \cup {Main} : u # t => pc[u] = "idle" /\ pc'[u] = "idle"
        /\ pc'[t] = l /\ OneAtATime'
    BY <1>2, <1>4, Gone
  <1>6. buf'[t].dyn = Dynamic \/ l = "list"
    BY <1>2, <1>3, <1>4 DEF Fresh, Document
  <1>7. FileInv' /\ RestoreInv' /\ PresenceInv'
    BY <1>1, <1>2, <1>3, <1>4, <1>5, <1>6
    DEF Calm, FileInv, RestoreInv, PresenceInv, Quiet, Saves
  <1>8. OwedInv'
    BY <1>1, <1>2, <1>4, <1>5 DEF Calm, OwedInv, Lists, IsLoaded
  <1> QED BY <1>5, <1>7, <1>8 DEF Calm

LEMMA ListModelsCalm ==
  ASSUME TypeInv, StartInv, Calm, NEW t \in Thread \cup {Main}, ListModels(t)
  PROVE  Calm'
  <1>1. /\ models' = models /\ conf' = conf /\ file' = file /\ files' = files
        /\ owed' = owed /\ lost' = lost /\ call' = call /\ Dynamic' = Dynamic
    BY DynamicKept DEF ListModels, registry, disk
  <1>2. pc[t] = "list" /\ OneAtATime /\ buf \in [Thread \cup {Main} -> Documents]
    BY DEF ListModels, Calm, TypeInv, TypeOK
  <1>3. /\ \A u \in Thread \cup {Main} : u # t => pc[u] = "idle" /\ pc'[u] = "idle"
        /\ pc'[t] = "open" /\ OneAtATime'
    BY <1>2, Gone DEF ListModels
  <1>4. buf'[t].dyn = Dynamic
    BY <1>2 DEF ListModels, Document
  <1>5. FileInv' /\ RestoreInv' /\ PresenceInv'
    BY <1>1, <1>2, <1>3, <1>4 DEF Calm, FileInv, RestoreInv, PresenceInv, Quiet
  <1>6. OwedInv'
    BY <1>1, <1>2, <1>3 DEF Calm, OwedInv, Lists, IsLoaded
  <1> QED BY <1>3, <1>5, <1>6 DEF Calm

LEMMA OpenConfigCalm ==
  ASSUME TypeInv, StartInv, Calm, NEW t \in Thread \cup {Main}, OpenConfig(t)
  PROVE  Calm'
  <1>1. /\ models' = models /\ conf' = conf /\ file' = Blank /\ files' = files
        /\ owed' = owed /\ lost' = lost /\ call' = call /\ buf' = buf /\ Dynamic' = Dynamic /\ ~Blank.ok
    BY DynamicKept DEF OpenConfig, registry, Blank
  <1>2. pc[t] = "open" /\ OneAtATime
    BY DEF OpenConfig, Calm
  <1>3. /\ \A u \in Thread \cup {Main} : u # t => pc[u] = "idle" /\ pc'[u] = "idle"
        /\ pc'[t] = "write" /\ OneAtATime'
    BY <1>2, Gone DEF OpenConfig
  <1>4. FileInv' /\ RestoreInv' /\ PresenceInv'
    BY <1>1, <1>2, <1>3 DEF Calm, FileInv, RestoreInv, PresenceInv, Quiet
  <1>5. OwedInv'
    BY <1>1, <1>2, <1>3 DEF Calm, OwedInv, Lists, IsLoaded
  <1> QED BY <1>3, <1>4, <1>5 DEF Calm

LEMMA WriteConfigCalm ==
  ASSUME TypeInv, DocumentInv, Calm, NEW t \in Thread \cup {Main}, WriteConfig(t)
  PROVE  Calm'
  <1>1. /\ models' = models /\ conf' = conf /\ file' = buf[t] /\ files' = files
        /\ Dynamic' = Dynamic
    BY DynamicKept DEF WriteConfig, registry
  <1>2. pc[t] = "write" /\ OneAtATime
    BY DEF WriteConfig, Calm
  <1>3. \A u \in Thread \cup {Main} : pc'[u] = "idle"
    BY <1>2, Answered DEF WriteConfig
  <1>4. buf[t].ok /\ buf[t].dyn = Dynamic
    BY <1>2 DEF DocumentInv, Calm, FileInv
  <1>5. \A o \in (owed \ lost)' : o[1] \notin Static => IsLoaded(o)
    <2>1. \A o \in owed \ lost : o[1] \notin Static => IsLoaded(o)
      BY <1>2 DEF Calm, OwedInv, OneAtATime
    <2>2. call[t][1] = "load" => IsLoaded(<<call[t][2], call[t][3]>>)
      BY <1>2 DEF Calm, OwedInv
    <2> QED BY <2>1, <2>2 DEF WriteConfig, Acknowledge, Granted
  <1>6. \A o \in (owed \ lost)' : o[1] \notin Static => IsLoaded(o)'
    BY <1>1, <1>5 DEF IsLoaded
  <1>7. \A k \in DOMAIN models : models[k] \in files
    BY DEF Calm, PresenceInv
  <1>8. \A o \in (owed \ lost)' : o[1] \notin Static => Lists(file', o)
    BY <1>1, <1>4, <1>5, ListedIfDynamic
  <1>9. OneAtATime' /\ FileInv' /\ RestoreInv' /\ PresenceInv'
    BY <1>1, <1>3, <1>4, <1>7 DEF OneAtATime, FileInv, RestoreInv, PresenceInv
  <1>10. OwedInv'
    BY <1>3, <1>6, <1>8 DEF OwedInv, Lists
  <1> QED BY <1>9, <1>10 DEF Calm

LEMMA RestoreCalm ==
  ASSUME TypeInv, StartInv, Calm, Restore, ~disturbed'
  PROVE  Calm'
  <1>1. PICK k \in todo :
          /\ todo' = todo \ {k} /\ conf.dyn[k] \in files
          /\ registerModel(k[1], k[2], conf.dyn[k])
    BY DEF Restore
  <1>2. /\ pc' = pc /\ call' = call /\ buf' = buf /\ conf' = conf /\ file' = file
        /\ files' = files /\ owed' = owed /\ lost' = lost /\ pc[Main] = "restore"
    BY DEF Restore, disk
  <1>3. k \in DOMAIN conf.dyn /\ k = <<k[1], k[2]>>
    <2>1. conf.dyn \in Partial(Key, Path) /\ todo \subseteq DOMAIN conf.dyn
      BY DEF TypeInv, TypeOK, Documents
    <2> QED BY <1>1, <2>1, PartialElim DEF Key
  <1>4. /\ DOMAIN models' = DOMAIN models \cup {k}
        /\ \A x \in DOMAIN models' : models'[x] = IF x = k THEN conf.dyn[k] ELSE models[x]
    BY <1>1, <1>3 DEF registerModel, Put
  <1>5. \A t \in Thread \cup {Main} : t # Main => pc[t] = "idle"
    BY <1>2 DEF Calm, OneAtATime
  <1>6. RestoreInv'
    BY <1>1, <1>2, <1>3, <1>4 DEF Calm, RestoreInv
  <1>7. OneAtATime' /\ FileInv' /\ PresenceInv' /\ OwedInv'
    BY <1>1, <1>2, <1>4, <1>5
    DEF Calm, OneAtATime, FileInv, PresenceInv, OwedInv, Quiet, Lists
  <1> QED BY <1>6, <1>7 DEF Calm

(* After the restore loop the registry is what the file lists, and none of *)
(* it is static.                                                           *)
LEMMA AdviseCalm ==
  ASSUME TypeInv, DocumentInv, StartInv, Calm, Advise
  PROVE  Calm'
  <1>1. /\ models' = models /\ conf' = conf /\ file' = file /\ files' = files
        /\ owed' = owed /\ lost' = lost /\ call' = call /\ buf' = buf /\ Dynamic' = Dynamic
    BY DynamicKept DEF Advise, registry, disk
  <1>2. pc[Main] = "restore" /\ todo = {} /\ OneAtATime /\ call[Main] = <<"start">>
    BY DEF Advise, Calm, StartInv
  <1>3. /\ \A u \in Thread \cup {Main} : u # Main => pc[u] = "idle" /\ pc'[u] = "idle"
        /\ pc'[Main] = "read" /\ OneAtATime'
    BY <1>2, Gone DEF Advise
  <1>4. /\ conf = IF file.ok THEN file ELSE Fresh
        /\ DOMAIN models = DOMAIN conf.dyn
        /\ \A k \in DOMAIN models : models[k] = conf.dyn[k]
    BY <1>2 DEF Calm, RestoreInv
  <1>5. Dynamic = conf.dyn
    <2>1. DOMAIN models \cap StaticKeys = {}
      BY <1>4 DEF DocumentInv, SoundDocument, StaticKeys
    <2>2. Dynamic = [k \in DOMAIN conf.dyn |-> conf.dyn[k]]
      BY <1>4, <2>1 DEF Dynamic
    <2>3. \A D : \A f \in [D -> Path] : f = [k \in DOMAIN f |-> f[k]]
      OBVIOUS
    <2>4. \E D : conf.dyn \in [D -> Path]
      BY PartialElim DEF TypeInv, TypeOK, Documents
    <2> QED BY <2>2, <2>3, <2>4
  <1>6. IF file.ok THEN file.dyn = Dynamic ELSE Dynamic = Empty
    BY <1>4, <1>5 DEF Fresh, Document
  <1>7. ~Saves(Main)
    BY <1>2 DEF Saves
  <1>8. FileInv' /\ RestoreInv' /\ PresenceInv'
    BY <1>1, <1>3, <1>6, <1>7 DEF Calm, FileInv, RestoreInv, PresenceInv, Quiet, Saves
  <1>9. OwedInv'
    BY <1>1, <1>2, <1>3, <1>4 DEF Calm, OwedInv, Lists, IsLoaded
  <1> QED BY <1>3, <1>8, <1>9 DEF Calm

(* A restart that restores models begins undisturbed, whatever was going   *)
(* on; what it owes and has not lost is what the file lists.               *)
LEMMA RestartCalm ==
  ASSUME TypeInv, DocumentInv, UndisturbedInv, Restart, ~disturbed'
  PROVE  Calm'
  <1>1. /\ models' = Empty /\ DOMAIN Empty = {}
        /\ conf' = IF file.ok THEN file ELSE Fresh
        /\ todo' = DOMAIN conf'.dyn /\ file' = file
        /\ owed' = IF disturbed THEN {} ELSE owed
        /\ lost' = IF file.ok THEN lost ELSE owed'
    BY DEF Restart, disk, Empty
  <1>2. /\ \A u \in Thread \cup {Main} : u # Main => pc'[u] = "idle"
        /\ pc'[Main] = "restore" /\ call'[Main] = <<"start">>
    BY DEF Restart, TypeInv, TypeOK
  <1>3. \A o \in (owed \ lost)' : o[1] \notin Static => file.ok /\ Lists(file, o)
    BY <1>1 DEF UndisturbedInv, OwedInv
  <1>4. OneAtATime' /\ RestoreInv' /\ PresenceInv'
    BY <1>1, <1>2 DEF OneAtATime, RestoreInv, PresenceInv
  <1>5. FileInv'
    BY <1>2 DEF FileInv, Quiet
  <1>6. OwedInv'
    BY <1>1, <1>2, <1>3 DEF OwedInv, Lists
  <1> QED BY <1>4, <1>5, <1>6 DEF Calm

LEMMA DeployCalm == ASSUME Calm, Deploy \/ UNCHANGED vars PROVE Calm'
  <1>1. /\ models' = models /\ conf' = conf /\ file' = file /\ files \subseteq files'
        /\ owed' = owed /\ lost' = lost /\ call' = call /\ buf' = buf /\ pc' = pc /\ todo' = todo
        /\ Dynamic' = Dynamic
    BY DynamicKept DEF Deploy, registry, vars
  <1> QED BY <1>1
       DEF Calm, OneAtATime, FileInv, RestoreInv, PresenceInv, OwedInv, Quiet, Saves,
           Lists, IsLoaded

LEMMA AdminStep == AdminInv /\ [Next]_vars => AdminInv'
  <1> SUFFICES ASSUME AdminInv, [Next]_vars PROVE AdminInv'
    OBVIOUS
  <1>1. TypeInv /\ DocumentInv /\ StartInv /\ (disturbed \/ Calm)
    BY DEF AdminInv, UndisturbedInv, Calm
  <1>2. TypeInv' /\ DocumentInv' /\ StartInv'
    BY <1>1, TypeStep, DocumentStep, StartStep
  <1> SUFFICES ASSUME ~disturbed' PROVE Calm'
    BY <1>2 DEF AdminInv, UndisturbedInv, Calm
  <1>3. CASE Restart
    BY <1>1, <1>3, RestartCalm DEF AdminInv
  <1>4. ~Restart => ~disturbed
    BY DEF Next, Handle, Rewrite, LoadBegins, CreateBackend, RegisterModel, UnloadBegins,
       DeleteBegins, RemoveFile, ApplyBegins, ReadConfig, ListModels, OpenConfig, WriteConfig,
       Restore, Advise, Deploy, Begin, vars
  <1>5. CASE ~Restart
    <2>1. Calm
      BY <1>1, <1>4, <1>5
    <2>2. ASSUME NEW t \in Thread, Handle(t) PROVE Calm'
      BY <1>1, <2>1, <2>2, LoadBeginsCalm, CreateBackendCalm, RegisterModelCalm,
         UnloadBeginsCalm, DeleteBeginsCalm, RemoveFileCalm, ApplyBeginsCalm DEF Handle
    <2>3. ASSUME NEW t \in Thread \cup {Main}, Rewrite(t) PROVE Calm'
      BY <1>1, <2>1, <2>3, ReadConfigCalm, ListModelsCalm, OpenConfigCalm, WriteConfigCalm
      DEF Rewrite
    <2>4. CASE Restore \/ Advise \/ Deploy \/ UNCHANGED vars
      BY <1>1, <2>1, <2>4, RestoreCalm, AdviseCalm, DeployCalm
    <2> QED BY <1>5, <2>2, <2>3, <2>4 DEF Next
  <1> QED BY <1>3, <1>5

THEOREM AdminInvariant == Spec => []AdminInv
  <1>1. Init => AdminInv
    BY InitTyped, InitAdmin DEF AdminInv
  <1> QED BY <1>1, AdminStep, PTL DEF Spec

(* For any number of IO threads, models and restarts: unless calls have    *)
(* overlapped or failed half way since the start, the file parses whenever *)
(* no call is in progress and lists exactly the loaded models that are not *)
(* static.  (InferenceServer.cpp, saveConfig and the restore loop)         *)
THEOREM TheFileListsWhatIsLoaded == Spec => []SavedIsLoaded
  <1>1. AdminInv => SavedIsLoaded
    BY DEF AdminInv, UndisturbedInv, FileInv, SavedIsLoaded, Settled, Quiet
  <1> QED BY <1>1, AdminInvariant, PTL

(* Under the same condition the file of a registered model exists: the     *)
(* test in /models/delete and the one in the load handler are enough when  *)
(* they do not interleave.  (InferenceServer.cpp, ModelLoadHandler.cpp)    *)
THEOREM NoLoadedModelLosesItsFile == Spec => []LoadedHaveFiles
  <1>1. AdminInv => LoadedHaveFiles
    BY DEF AdminInv, UndisturbedInv, PresenceInv, LoadedHaveFiles
  <1> QED BY <1>1, AdminInvariant, PTL

(* A load answered with 200 survives every restart and crash until it is   *)
(* unloaded, if its key is not a static one, no model was skipped by the   *)
(* restore loop and the process has not, since the answer, ended between   *)
(* opening the file and writing it.  (ModelLoadHandler.cpp, saveConfig,    *)
(* the restore loop)                                                       *)
THEOREM WhatWasAcknowledgedStaysLoaded == Spec => []AcknowledgedStaysLoaded
  <1>1. AdminInv => AcknowledgedStaysLoaded
    BY DEF AdminInv, UndisturbedInv, OwedInv, AcknowledgedStaysLoaded, Up
  <1> QED BY <1>1, AdminInvariant, PTL
=============================================================================
