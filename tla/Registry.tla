------------------------------ MODULE Registry ------------------------------
(***************************************************************************)
(* GuardRegistry (domain_guard/sidecar.py) and everyone who changes what   *)
(* it serves: the hot-reload watcher, the admin endpoints that write and   *)
(* reload a configuration, and an operator who edits the files.            *)
(*                                                                         *)
(* Reading a file, taking the registry's lock and asking the file for its  *)
(* mtime are separate moments, and the model keeps them apart.  A guard    *)
(* object is the configuration it was built from.  The time a file was     *)
(* last written is the number of writes so far: every write has an mtime   *)
(* of its own, the best the file system can do.                            *)
(***************************************************************************)
EXTENDS OrderedDict, FiniteSets

CONSTANTS
    PathOrder,      \* the files of GUARDS_DIR, sorted, as load_from_dir does
    Edits,          \* Edits[p]: what the operator may write to p
    Puts,           \* Puts[n]: the configurations the admins may PUT for guard n
    Admins,         \* threads serving the admin endpoints
    Invalid,        \* content that from_yaml refuses, such as an empty file
    Missing,        \* a path without a file
    MaxWrites       \* bound: writes and deletions of files

Paths == ToSet(PathOrder)

(* A valid configuration is [name, ver]: the guard's name and the rest. *)
Edited == UNION {Edits[p] \ {Invalid} : p \in Paths}

Configs == Edited \cup UNION {Puts[n] : n \in DOMAIN Puts}

Names == {c.name : c \in Configs}

Watcher == "watcher"

Loaders == Admins \cup {Watcher}

ASSUME RegistryAssumption ==
    /\ PathOrder \in Seq(Paths)
    /\ Watcher \notin Admins
    /\ DOMAIN Edits = Paths
    /\ Names \subseteq DOMAIN Puts

VARIABLES
    file,           \* the files: Missing or [content, mtime]
    writes,         \* history: writes and deletions so far
    torn,           \* history: files changed inside a loader's window
    guards,         \* _guards: dict from name to guard
    guardFiles,     \* _guard_files: dict from name to path
    fileMtime,      \* _file_mtime: dict from path to mtime
    pc,             \* where each loader is
    path,           \* the path each loader works on
    config,         \* what an admin will write, or a loader has built
    todo            \* the watcher's snapshot of _file_mtime, still to examine

registry == <<guards, guardFiles, fileMtime>>

files == <<file, writes, torn>>

vars == <<files, registry, pc, path, config, todo>>

-----------------------------------------------------------------------------
\* Mutant of Exists: a file that cannot be loaded counts as deleted.
ExistsLoadable(p) == file[p] # Missing /\ file[p].content # Invalid

Exists(p) == file[p] # Missing

Loadable(p) == Exists(p) /\ file[p].content # Invalid

\* Mutant of Newer: the operands are swapped.
Older(mtime, known) == known > mtime

Newer(mtime, known) == mtime > known

(* load_from_dir at startup: what the first i files, in order, leave in    *)
(* the three dicts.                                                        *)
EmptyRegistry == [guards |-> <<>>, guardFiles |-> <<>>, fileMtime |-> <<>>]

AfterFile(r, p) ==
    IF Loadable(p)
    THEN LET c == file[p].content
         IN  [guards |-> Put(r.guards, c.name, c),
              guardFiles |-> Put(r.guardFiles, c.name, p),
              fileMtime |-> Put(r.fileMtime, p, file[p].mtime)]
    ELSE r

AfterFiles[i \in 0 .. Len(PathOrder)] ==
    IF i = 0 THEN EmptyRegistry ELSE AfterFile(AfterFiles[i - 1], PathOrder[i])

Startup == AfterFiles[Len(PathOrder)]

(* All files are as old as time 0. *)
Init ==
    /\ file \in [Paths -> {Missing} \cup
                    [content : Configs \cup {Invalid}, mtime : {0}]]
    /\ \A p \in Paths : Exists(p) => file[p].content \in Edits[p]
    /\ writes = 0
    /\ torn = {}
    /\ guards = Startup.guards
    /\ guardFiles = Startup.guardFiles
    /\ fileMtime = Startup.fileMtime
    /\ pc = [l \in Loaders |-> IF l = Watcher THEN "walk" ELSE "idle"]
    /\ path = [l \in Loaders |-> Missing]
    /\ config = [l \in Loaders |-> Missing]
    /\ todo = <<>>

-----------------------------------------------------------------------------
(* A file changes: f is its new content and mtime, or Missing.  The change *)
(* tears a load of the file if it falls between the load's reading and its *)
(* stat, or between the watcher's finding the file gone and forgetting it. *)
Change(p, f) ==
    /\ writes' = writes + 1
    /\ file' = [file EXCEPT ![p] = f]
    /\ torn' = IF \E l \in Loaders : pc[l] \in {"register", "drop"} /\ path[l] = p
               THEN torn \cup {p} ELSE torn

Write(p, c) == Change(p, [content |-> c, mtime |-> writes + 1])

(* Where loader l is after its load: an admin answers its request, the     *)
(* watcher examines the rest of its snapshot.                              *)
Finish(l, rest) ==
    /\ pc' = [pc EXCEPT ![l] = IF l = Watcher THEN "walk" ELSE "idle"]
    /\ todo' = IF l = Watcher THEN rest ELSE todo
    /\ path' = [path EXCEPT ![l] = Missing]
    /\ config' = [config EXCEPT ![l] = Missing]

(* _load_file: from_yaml reads and builds, outside the lock... *)
ReadFails(l) ==
    /\ pc[l] = "read"
    /\ ~Loadable(path[l])
    /\ Finish(l, Tail(todo))
    /\ UNCHANGED <<files, registry>>

Read(l) ==
    /\ pc[l] = "read"
    /\ Loadable(path[l])
    /\ config' = [config EXCEPT ![l] = file[path[l]].content]
    /\ pc' = [pc EXCEPT ![l] = "register"]
    /\ UNCHANGED <<files, registry, path, todo>>

(* ... then registers the guard under the lock and asks the file for its   *)
(* mtime.  The counter reload_count, which only answers report, is left    *)
(* out: it would tell apart states that differ in nothing else.            *)
Install(l) ==
    /\ guards' = Put(guards, config[l].name, config[l])
    /\ guardFiles' = Put(guardFiles, config[l].name, path[l])

Register(l) ==
    /\ pc[l] = "register"
    /\ Exists(path[l])
    /\ Install(l)
    /\ fileMtime' = Put(fileMtime, path[l], file[path[l]].mtime)
    /\ Finish(l, Tail(todo))
    /\ UNCHANGED files

(* The file is gone: stat() raises after the guard was registered, which   *)
(* ends the admin's request or the watcher's iteration.                    *)
\* Mutant of RegisterRaises: the error is caught and no mtime is an mtime.
RegisterUntimed(l) ==
    /\ pc[l] = "register"
    /\ ~Exists(path[l])
    /\ Install(l)
    /\ fileMtime' = Put(fileMtime, path[l], Missing)
    /\ Finish(l, Tail(todo))
    /\ UNCHANGED files

RegisterRaises(l) ==
    /\ pc[l] = "register"
    /\ ~Exists(path[l])
    /\ Install(l)
    /\ Finish(l, <<>>)
    /\ UNCHANGED <<files, fileMtime>>

-----------------------------------------------------------------------------
(* _check_and_reload: the watcher's iterations. *)
WatchSnapshot ==
    /\ pc[Watcher] = "walk"
    /\ todo = <<>>
    /\ todo' = fileMtime
    /\ UNCHANGED <<files, registry, pc, path, config>>

WatchExists ==
    /\ pc[Watcher] = "walk"
    /\ todo # <<>>
    /\ LET p == Head(todo).key
       IN  /\ path' = [path EXCEPT ![Watcher] = p]
           /\ pc' = [pc EXCEPT ![Watcher] = IF Exists(p) THEN "stat" ELSE "drop"]
    /\ UNCHANGED <<files, registry, config, todo>>

(* stat() raises on a file deleted since exists(): the iteration is over. *)
WatchStatRaises ==
    /\ pc[Watcher] = "stat"
    /\ ~Exists(path[Watcher])
    /\ Finish(Watcher, <<>>)
    /\ UNCHANGED <<files, registry>>

WatchChanged ==
    /\ pc[Watcher] = "stat"
    /\ Exists(path[Watcher])
    /\ Newer(file[path[Watcher]].mtime, Head(todo).val)
    /\ pc' = [pc EXCEPT ![Watcher] = "read"]
    /\ UNCHANGED <<files, registry, path, config, todo>>

WatchUnchanged ==
    /\ pc[Watcher] = "stat"
    /\ Exists(path[Watcher])
    /\ ~Newer(file[path[Watcher]].mtime, Head(todo).val)
    /\ Finish(Watcher, Tail(todo))
    /\ UNCHANGED <<files, registry>>

\* Mutant of Forget: the guard is unloaded, its name stays known.
ForgetGuard(name) ==
    /\ guards' = Pop(guards, name)
    /\ UNCHANGED guardFiles

Forget(name) ==
    /\ guards' = Pop(guards, name)
    /\ guardFiles' = Pop(guardFiles, name)

(* Under the lock: forget the first guard of the path, and the path. *)
WatchDrop ==
    LET p == path[Watcher] IN
    /\ pc[Watcher] = "drop"
    /\ IF KeysWith(guardFiles, p) = {}
       THEN UNCHANGED <<guards, guardFiles>>
       ELSE Forget(FirstWith(guardFiles, p))
    /\ fileMtime' = Pop(fileMtime, p)
    /\ Finish(Watcher, Tail(todo))
    /\ UNCHANGED files

-----------------------------------------------------------------------------
(* PUT /v1/guards/{n}/config with a valid configuration c.  An unknown     *)
(* guard and an invalid configuration are refused without effect.          *)
PutConfig(a, n, c) ==
    /\ pc[a] = "idle"
    /\ writes + 1 < MaxWrites
    /\ n \in KeysOf(guardFiles)
    /\ path' = [path EXCEPT ![a] = At(guardFiles, n)]
    /\ config' = [config EXCEPT ![a] = c]
    /\ pc' = [pc EXCEPT ![a] = "truncate"]
    /\ UNCHANGED <<files, registry, todo>>

(* write_text opens the file, which empties it, and then writes. *)
PutTruncate(a) ==
    /\ pc[a] = "truncate"
    /\ Write(path[a], Invalid)
    /\ pc' = [pc EXCEPT ![a] = "write"]
    /\ UNCHANGED <<registry, path, config, todo>>

PutWrite(a) ==
    /\ pc[a] = "write"
    /\ Write(path[a], config[a])
    /\ pc' = [pc EXCEPT ![a] = "read"]
    /\ UNCHANGED <<registry, path, config, todo>>

(* POST /v1/guards/{n}/reload *)
Reload(a, n) ==
    /\ pc[a] = "idle"
    /\ n \in KeysOf(guardFiles)
    /\ path' = [path EXCEPT ![a] = At(guardFiles, n)]
    /\ pc' = [pc EXCEPT ![a] = "read"]
    /\ UNCHANGED <<files, registry, config, todo>>

(* The operator edits or deletes a file. *)
Edit(p, c) ==
    /\ writes < MaxWrites
    /\ Write(p, c)
    /\ UNCHANGED <<registry, pc, path, config, todo>>

Delete(p) ==
    /\ writes < MaxWrites
    /\ Exists(p)
    /\ Change(p, Missing)
    /\ UNCHANGED <<registry, pc, path, config, todo>>

-----------------------------------------------------------------------------
Load(l) == ReadFails(l) \/ Read(l) \/ Register(l) \/ RegisterRaises(l)

Watch ==
    \/ WatchSnapshot \/ WatchExists \/ WatchStatRaises \/ WatchChanged
    \/ WatchUnchanged \/ WatchDrop \/ Load(Watcher)

Serve(a) == PutTruncate(a) \/ PutWrite(a) \/ Load(a)

Request(a) ==
    \E n \in KeysOf(guardFiles) : Reload(a, n) \/ \E c \in Puts[n] : PutConfig(a, n, c)

Operate == \E p \in Paths : Delete(p) \/ \E c \in Edits[p] : Edit(p, c)

Next ==
    \/ Watch
    \/ \E a \in Admins : Serve(a) \/ Request(a)
    \/ Operate

(* The watcher's loop runs as long as the process, and a request that was  *)
(* accepted is served; nobody is obliged to edit or to make a request.     *)
Spec ==
    /\ Init /\ [][Next]_vars
    /\ WF_vars(Watch)
    /\ \A a \in Admins : WF_vars(Serve(a))

-----------------------------------------------------------------------------
Dict(K, V) == Seq([key : K, val : V])

TypeOK ==
    /\ file \in [Paths -> {Missing} \cup
                    [content : Configs \cup {Invalid}, mtime : 0 .. writes]]
    /\ guards \in Dict(Names, Configs)
    /\ guardFiles \in Dict(Names, Paths)
    /\ fileMtime \in Dict(Paths, 0 .. writes)
    /\ todo \in Dict(Paths, 0 .. writes)
    /\ Cardinality(KeysOf(guards)) = Len(guards)
    /\ Cardinality(KeysOf(guardFiles)) = Len(guardFiles)
    /\ Cardinality(KeysOf(fileMtime)) = Len(fileMtime)
    /\ pc \in [Loaders -> {"idle", "walk", "stat", "drop", "truncate", "write",
                          "read", "register"}]
    /\ path \in [Loaders -> Paths \cup {Missing}]
    /\ config \in [Loaders -> Configs \cup {Missing}]
    /\ torn \subseteq Paths

(* The two dicts the lock guards name the same guards in the same order,   *)
(* and a name is served by a guard of that name (sidecar.py:136-138, 202). *)
DictsAgree ==
    /\ Len(guards) = Len(guardFiles)
    /\ \A i \in DOMAIN guards : /\ guards[i].key = guardFiles[i].key
                                /\ guards[i].val.name = guards[i].key

(* A guard is unloaded only when its file is gone: a broken edit, a failed *)
(* load or a reload of another guard leaves the last good one serving      *)
(* (sidecar.py:128-132, 194-205).  A file put back while the watcher is    *)
(* about to forget it is the exception.                                    *)
LastGoodStays ==
    [][\A n \in KeysOf(guards) \ KeysOf(guards') :
          LET p == At(guardFiles, n) IN file[p] = Missing \/ p \in torn]_vars

(* What is on disk is what is served. *)
Synced(p) ==
    (p \in KeysOf(fileMtime) /\ Loadable(p)) =>
        /\ file[p].content.name \in KeysOf(guards)
        /\ At(guards, file[p].content.name) = file[p].content

Unloaded(p) == ~Exists(p) => KeysWith(guardFiles, p) = {}

(* Once nobody writes any more, every file the registry knows is served as *)
(* it is on disk, if no change of it fell into a loader's window.          *)
UntornEditsPickedUp == <>[](\A p \in Paths : p \in torn \/ Synced(p))

(* Once nobody writes any more, no guard of a deleted file is left, if no  *)
(* change of the file fell into a loader's window.                         *)
UntornDeletionsUnload == <>[](\A p \in Paths : p \in torn \/ Unloaded(p))

-----------------------------------------------------------------------------
(* README.md:177, "Deleting a file unloads its guard." *)
DeletionsUnload == <>[](\A p \in Paths : Unloaded(p))
=============================================================================
