------------------------------ MODULE ModelAdmin ------------------------------
(***************************************************************************)
(* The administration of models: POST /models/load, DELETE /models/..,     *)
(* POST /models/delete and POST /system/apply, handled by the IO threads,  *)
(* the configuration file they rewrite without a lock, and the restart     *)
(* that restores the models the file lists.                                *)
(*                                                                         *)
(* The file is a document of which three things matter: whether it parses  *)
(* (opening it for writing empties it), the models in dynamic_engines, and *)
(* whether the other sections are still there.  Replies, authentication    *)
(* and malformed requests change nothing and are left out; so is a model   *)
(* whose version is the empty string.  The file is one: the container      *)
(* reads a copy that its entrypoint makes at every start, and writes the   *)
(* original (-c and -P).                                                   *)
(***************************************************************************)
EXTENDS ModelRegistry

CONSTANTS
  Thread,    \* the IO threads
  Main,      \* the main thread, which starts the server
  Static,    \* the keys of models.engines in the configuration file
  RestoreOnStartup,  \* restore_dynamic_on_startup
  MaxStarts  \* bound on how often the server is started

ASSUME AdminAssumption ==
  /\ Main \notin Thread
  /\ Static \subseteq Key
  /\ RestoreOnStartup \in BOOLEAN
  /\ MaxStarts \in Nat \ {0}

VARIABLES
  files,     \* the model files that exist
  file,      \* the configuration file
  conf,      \* the document loadConfig read at the last start
  todo,      \* entries of conf.dyn still to restore
  pc,        \* where each thread is
  call,      \* the request it handles
  buf,       \* its json j
  starts,    \* how often the server was started
  disturbed, \* since the start: two calls overlapped, one failed half way, or a
             \* model the file lists was not restored
  owed,      \* <<key, path>> of loads answered with 200 and not unloaded since
  lost       \* those of them answered before the process ended with the file open

vars == <<models, latest, files, file, conf, todo, pc, call, buf, starts,
          disturbed, owed, lost>>

disk == <<files, file>>

Document(d, s) == [ok |-> TRUE, dyn |-> d, sections |-> s]
Blank == [ok |-> FALSE, dyn |-> Empty, sections |-> FALSE]
Fresh == Document(Empty, FALSE)

Calls ==
  {<<"none">>, <<"start">>, <<"apply">>}
    \cup ({"load"} \X Key \X Path)
    \cup ({"unload"} \X Key)
    \cup ({"delete"} \X Path)

StaticKeys_byName ==       \* mutant: the version is not compared
  {k \in Key : conf.sections /\ \E s \in Static : s[1] = k[1]}

(* The keys saveConfig takes for static ones: config_.models. *)
StaticKeys == IF conf.sections THEN Static ELSE {}

Dynamic == [k \in DOMAIN models \ StaticKeys |-> models[k]]

Init ==
  /\ models = Empty /\ latest = Empty
  /\ files = Path
  /\ file = Document(Empty, TRUE)
  /\ conf = file
  /\ todo = {}
  /\ pc = [t \in Thread \cup {Main} |-> IF t = Main THEN "restore" ELSE "idle"]
  /\ call = [t \in Thread \cup {Main} |-> IF t = Main THEN <<"start">> ELSE <<"none">>]
  /\ buf = [t \in Thread \cup {Main} |-> Blank]
  /\ starts = 1
  /\ disturbed = FALSE
  /\ owed = {} /\ lost = {}

-----------------------------------------------------------------------------
(* The frame of a call. *)

Up == pc[Main] = "idle"

Goto(t, l) == pc' = [pc EXCEPT ![t] = l]

Begin(t, c, l) ==
  /\ t # Main /\ Up /\ pc[t] = "idle"
  /\ Goto(t, l)
  /\ call' = [call EXCEPT ![t] = c]
  /\ disturbed' = (disturbed \/ \E u \in Thread \ {t} : pc[u] # "idle")

Answer(t) ==
  /\ Goto(t, "idle")
  /\ call' = [call EXCEPT ![t] = <<"none">>]
  /\ buf' = [buf EXCEPT ![t] = Blank]

Granted(t) == IF call[t][1] = "load" THEN {<<call[t][2], call[t][3]>>} ELSE {}

Acknowledge(t) ==
  /\ owed' = owed \cup Granted(t)
  /\ lost' = lost \ Granted(t)

-----------------------------------------------------------------------------
(* ModelLoadHandler: the test for a duplicate, the backend, registerModel. *)

LoadBegins(t) ==
  /\ \E k \in Key \ DOMAIN models, p \in Path : Begin(t, <<"load", k, p>>, "create")
  /\ UNCHANGED <<registry, disk, conf, todo, buf, starts, owed, lost>>

CreateBackend(t) ==
  /\ pc[t] = "create"
  /\ \/ call[t][3] \in files /\ Goto(t, "register") /\ UNCHANGED <<call, buf>>
     \/ Answer(t)
  /\ UNCHANGED <<registry, disk, conf, todo, starts, disturbed, owed, lost>>

RegisterModel(t) ==
  LET n == call[t][2][1]  v == call[t][2][2] IN
  /\ pc[t] = "register"
  /\ registerModel(n, v, call[t][3])
  /\ \/ RegisterThrows(n, v) /\ Answer(t) /\ disturbed' = TRUE
     \/ ~RegisterThrows(n, v) /\ Goto(t, "read") /\ UNCHANGED <<call, buf, disturbed>>
  /\ UNCHANGED <<disk, conf, todo, starts, owed, lost>>

(* ModelUnloadHandler. *)
UnloadBegins(t) ==
  /\ \E n \in Name, v \in Version :
       /\ unloadModel(n, v)
       /\ owed' = {o \in owed : o[1] # <<n, v>>}
       /\ \/ ~UnloadThrows(n, v) /\ Begin(t, <<"unload", <<n, v>>>>, "read")
          \/ /\ UnloadThrows(n, v)
             /\ t # Main /\ Up /\ pc[t] = "idle"
             /\ disturbed' = TRUE
             /\ UNCHANGED <<pc, call>>
  /\ UNCHANGED <<disk, conf, todo, buf, starts, lost>>

DeleteBegins_unchecked(t) ==   \* mutant: loaded models are not looked at
  /\ \E p \in Path : Begin(t, <<"delete", p>>, "remove")
  /\ UNCHANGED <<registry, disk, conf, todo, buf, starts, owed, lost>>

(* /models/delete: no loaded model has the path, then the file is removed. *)
DeleteBegins(t) ==
  /\ \E p \in Path :
       /\ \A k \in DOMAIN models : models[k] # p
       /\ Begin(t, <<"delete", p>>, "remove")
  /\ UNCHANGED <<registry, disk, conf, todo, buf, starts, owed, lost>>

RemoveFile(t) ==
  /\ pc[t] = "remove"
  /\ files' = files \ {call[t][2]}
  /\ Answer(t)
  /\ UNCHANGED <<registry, file, conf, todo, starts, disturbed, owed, lost>>

ApplyBegins(t) ==
  /\ Begin(t, <<"apply">>, "read")
  /\ UNCHANGED <<registry, disk, conf, todo, buf, starts, owed, lost>>

-----------------------------------------------------------------------------
(* Rewriting the file.  saveConfig, after a load or an unload, gives up if *)
(* the file does not parse, and its caller reports success all the same;   *)
(* the profile handler and the advisor at the start begin a new document.  *)

Saves(t) == call[t][1] \in {"load", "unload"}

ReadConfig(t) ==
  /\ pc[t] = "read"
  /\ \/ /\ file.ok
        /\ buf' = [buf EXCEPT ![t] = file]
        /\ Goto(t, IF Saves(t) THEN "list" ELSE "open")
        /\ UNCHANGED <<call, owed, lost>>
     \/ /\ ~file.ok /\ ~Saves(t)
        /\ buf' = [buf EXCEPT ![t] = Fresh]
        /\ Goto(t, "open")
        /\ UNCHANGED <<call, owed, lost>>
     \/ /\ ~file.ok /\ Saves(t)
        /\ Answer(t)
        /\ Acknowledge(t)
  /\ UNCHANGED <<registry, disk, conf, todo, starts, disturbed>>

ListModels_kept(t) ==      \* mutant: dynamic_engines stays as it was read
  /\ pc[t] = "list"
  /\ Goto(t, "open")
  /\ UNCHANGED <<registry, disk, conf, todo, call, buf, starts, disturbed, owed, lost>>

ListModels(t) ==
  /\ pc[t] = "list"
  /\ buf' = [buf EXCEPT ![t] = Document(Dynamic, @.sections)]
  /\ Goto(t, "open")
  /\ UNCHANGED <<registry, disk, conf, todo, call, starts, disturbed, owed, lost>>

OpenConfig(t) ==
  /\ pc[t] = "open"
  /\ file' = Blank
  /\ Goto(t, "write")
  /\ UNCHANGED <<registry, files, conf, todo, call, buf, starts, disturbed, owed, lost>>

WriteConfig(t) ==
  /\ pc[t] = "write"
  /\ file' = buf[t]
  /\ Answer(t)
  /\ Acknowledge(t)
  /\ UNCHANGED <<registry, files, conf, todo, starts, disturbed>>

-----------------------------------------------------------------------------
(* The process ends, in an orderly way or not, and is started again.  If   *)
(* it ends between opening the file and writing it, the document is gone:  *)
(* the models it listed and every other section.                           *)
Restart ==
  /\ starts < MaxStarts
  /\ starts' = starts + 1
  /\ models' = Empty /\ latest' = Empty
  /\ conf' = IF file.ok THEN file ELSE Fresh
  /\ todo' = IF RestoreOnStartup THEN DOMAIN conf'.dyn ELSE {}
  /\ pc' = [t \in DOMAIN pc |-> IF t = Main THEN "restore" ELSE "idle"]
  /\ call' = [t \in DOMAIN pc |-> IF t = Main THEN <<"start">> ELSE <<"none">>]
  /\ buf' = [t \in DOMAIN pc |-> Blank]
  /\ disturbed' = (todo' # DOMAIN conf'.dyn)
  /\ owed' = IF disturbed THEN {} ELSE owed
  /\ lost' = IF file.ok THEN lost ELSE owed'
  /\ UNCHANGED disk

(* One round of the loop over dynamic_engines; a model that cannot be      *)
(* loaded is skipped, an exception of registerModel is caught.             *)
Restore ==
  /\ pc[Main] = "restore"
  /\ \E k \in todo :
       /\ todo' = todo \ {k}
       /\ \/ /\ conf.dyn[k] \in files
             /\ registerModel(k[1], k[2], conf.dyn[k])
             /\ UNCHANGED disturbed
          \/ disturbed' = TRUE /\ UNCHANGED registry
  /\ UNCHANGED <<disk, conf, pc, call, buf, starts, owed, lost>>

(* initAdaptiveConfig writes its recommendations into the file. *)
Advise ==
  /\ pc[Main] = "restore" /\ todo = {}
  /\ Goto(Main, "read")
  /\ UNCHANGED <<registry, disk, conf, todo, call, buf, starts, disturbed, owed, lost>>

(* Somebody copies a model file into the directory. *)
Deploy ==
  /\ \E p \in Path \ files : files' = files \cup {p}
  /\ UNCHANGED <<registry, file, conf, todo, pc, call, buf, starts, disturbed, owed, lost>>

Rewrite(t) == ReadConfig(t) \/ ListModels(t) \/ OpenConfig(t) \/ WriteConfig(t)

Handle(t) ==
  \/ LoadBegins(t) \/ CreateBackend(t) \/ RegisterModel(t)
  \/ UnloadBegins(t)
  \/ DeleteBegins(t) \/ RemoveFile(t)
  \/ ApplyBegins(t)

Next ==
  \/ \E t \in Thread : Handle(t)
  \/ \E t \in Thread \cup {Main} : Rewrite(t)
  \/ Restore \/ Advise \/ Restart \/ Deploy

Spec == Init /\ [][Next]_vars

-----------------------------------------------------------------------------
Partial(S, T) == UNION {[D -> T] : D \in SUBSET S}

Documents == [ok : BOOLEAN, dyn : Partial(Key, Path), sections : BOOLEAN]

(* Every variable has its type. *)
TypeOK ==
  /\ models \in Partial(Key, Path)
  /\ latest \in Partial(Name, Version)
  /\ files \subseteq Path
  /\ file \in Documents /\ conf \in Documents
  /\ todo \subseteq DOMAIN conf.dyn
  /\ pc \in [Thread \cup {Main} -> {"idle", "restore", "create", "register", "remove",
                                    "read", "list", "open", "write"}]
  /\ call \in [Thread \cup {Main} -> Calls]
  /\ buf \in [Thread \cup {Main} -> Documents]
  /\ starts \in 1..MaxStarts
  /\ disturbed \in BOOLEAN
  /\ owed \subseteq Key \X Path /\ lost \subseteq Key \X Path

Settled == \A t \in Thread \cup {Main} : pc[t] = "idle"

(* As long as the calls since the start did not overlap and none failed    *)
(* half way, whenever no call is in progress the file parses and lists     *)
(* exactly the loaded models that are not static: after a load, an unload, *)
(* an applied profile, and after a restart at any moment.                  *)
(* (InferenceServer.cpp, saveConfig and the restore loop)                  *)
SavedIsLoaded ==
  Settled /\ ~disturbed => file.ok /\ file.dyn = Dynamic

(* Under the same condition no file is deleted while a model loaded from   *)
(* it is registered.  (InferenceServer.cpp, /models/delete)                *)
LoadedHaveFiles ==
  ~disturbed => \A k \in DOMAIN models : models[k] \in files

IsLoaded(o) == o[1] \in DOMAIN models /\ models[o[1]] = o[2]

(* Under the same condition, which the run of the server before must have  *)
(* met too, a load answered with 200 stays loaded from the same file until *)
(* it is unloaded, across restarts and crashes, if its key is not a static *)
(* one and the process has not since ended between opening the file and    *)
(* writing it: that crash, in whatever call, takes every acknowledged load *)
(* with it.  (ModelLoadHandler.cpp, saveConfig, restore at the start)      *)
AcknowledgedStaysLoaded ==
  Up /\ ~disturbed => \A o \in owed \ lost : o[1] \notin Static => IsLoaded(o)

(* What fails: README.md:338, what is loaded through the API is persisted  *)
(* in dynamic_engines and restored after a restart, whatever its name and  *)
(* however the process ended.                                              *)
LoadsAreRestored == Up /\ ~disturbed => \A o \in owed : IsLoaded(o)

(* SystemHandler.cpp:165: the file is read, updated and written back, so   *)
(* its other sections are never lost while the process lives.              *)
SectionsAreKept == file.ok => file.sections
=============================================================================
