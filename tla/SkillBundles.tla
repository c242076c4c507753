---------------------------- MODULE SkillBundles ----------------------------
(***************************************************************************)
(* The skill bundles a tenant of the booking example has installed for one *)
(* role: the console's handlers that change them (surface/admin_v2.py) and *)
(* the worker's loader that serves them (microagents/loader.py).           *)
(*                                                                         *)
(* They are two processes over one directory, and every file operation is  *)
(* a step.  The loader keeps what it has read until it sees the .reload    *)
(* marker; a load runs on the worker's event loop, one at a time.          *)
(***************************************************************************)
EXTENDS Naturals, FiniteSets, FiniteSetsExt

CONSTANTS
  Versions,  \* of the role's bundle, ordered
  Admins,    \* the console's handlers
  MaxOps     \* bound on the changes asked for

ASSUME BundleAssumption == IsFiniteSet(Versions) /\ Versions \subseteq Nat \ {0}

VARIABLES
  copied,    \* each version's directory: none, part or all of its files
  disabled,  \* versions with a disabled file
  marker,    \* .reload exists
  cache,     \* the version the worker has in memory, Shipped, or Nothing
  load,      \* the load under way
  admin,     \* each handler's progress
  cut,       \* history: a change was left half done, and the marker not set
  ops

bundleVars == <<copied, disabled, marker, cache, load, admin, cut, ops>>

Shipped == 0        \* the bundle shipped with the package
Nothing == 999
Half(v) == v + 100  \* in the cache: v, read while it was being copied
NoAdmin == [pc |-> "idle", kind |-> "none", version |-> 0, left |-> {}]

(* _tenant_bundle_dir: the highest enabled version, else the shipped one.  *)
Enabled   == {v \in Versions : copied[v] # "none" /\ v \notin disabled}
Best      == IF Enabled = {} THEN Shipped ELSE Max(Enabled)
(* _installed_bundles counts the disabled ones too.                        *)
Installed == {v \in Versions : copied[v] # "none"}

BundleInit ==
  /\ copied = [v \in Versions |-> "none"] /\ disabled = {} /\ marker = FALSE
  /\ cache = Nothing /\ load = [pc |-> "idle", version |-> Nothing]
  /\ admin = [a \in Admins |-> NoAdmin] /\ cut = FALSE /\ ops = 0

---------------------------------------------------------------------------
(* load_skill in the worker.                                               *)

Load(pc, v) == load' = [pc |-> pc, version |-> v]

SeeMarker ==
  /\ load.pc = "idle"
  /\ IF marker THEN cache' = Nothing /\ Load("unlink", Nothing)
     ELSE Load("lookup", Nothing) /\ UNCHANGED cache
  /\ UNCHANGED <<copied, disabled, marker, admin, cut, ops>>

UnlinkMarker ==
  /\ load.pc = "unlink" /\ marker' = FALSE
  /\ Load("lookup", Nothing)
  /\ UNCHANGED <<copied, disabled, cache, admin, cut, ops>>

LookUp ==
  /\ load.pc = "lookup"
  /\ IF cache # Nothing THEN Load("idle", Nothing) ELSE Load("read", Best)
  /\ UNCHANGED <<copied, disabled, marker, cache, admin, cut, ops>>

Files(v) == IF v = Shipped THEN "all" ELSE copied[v]

(* _read_bundle.  Of a bundle being copied it finds a file missing or cut  *)
(* short, which is an error, or takes the prompt as far as it is there; a  *)
(* directory gone is an error too.                                         *)
ReadBundle ==
  /\ load.pc = "read"
  /\ Load("idle", Nothing)
  /\ LET v == load.version IN
     \/ Files(v) = "all"  /\ cache' = v
     \/ Files(v) # "all"  /\ UNCHANGED cache
     \/ Files(v) = "part" /\ cache' = Half(v)
  /\ UNCHANGED <<copied, disabled, marker, admin, cut, ops>>

(* The worker starts anew, its cache empty.                                *)
RestartWorker ==
  /\ cache # Nothing
  /\ cache' = Nothing /\ Load("idle", Nothing)
  /\ UNCHANGED <<copied, disabled, marker, admin, cut, ops>>

---------------------------------------------------------------------------
(* The console's handlers.                                                 *)

Step(a, pc) == admin' = [admin EXCEPT ![a].pc = pc]

StartOp(a, kind, v) ==
  /\ admin[a].pc = "idle" /\ ops < MaxOps /\ ops' = ops + 1
  /\ \/ kind = "install"   /\ v \in Versions
     \/ kind \in {"enable", "disable"} /\ Installed # {} /\ v = Max(Installed)
     \/ kind = "uninstall" /\ v \in Installed
  /\ admin' = [admin EXCEPT ![a] = [pc |-> "change", kind |-> kind, version |-> v,
                                    left |-> Installed]]
  /\ UNCHANGED <<copied, disabled, marker, cache, load, cut>>

Copying(a, v) == admin[a].pc = "copy" /\ admin[a].version = v

(* install_agent copies into the directory file by file, over what is      *)
(* there, and then removes a disabled file and writes the config.  Another *)
(* install may still be writing; a directory moved meanwhile is an error.  *)
CopyFiles(a) ==
  /\ admin[a].kind = "install"
  /\ LET v == admin[a].version IN
     \/ /\ admin[a].pc = "change" /\ Step(a, "copy")
        /\ copied' = [copied EXCEPT ![v] = "part"] /\ UNCHANGED disabled
     \/ /\ Copying(a, v) /\ copied[v] # "none" /\ Step(a, "touch")
        /\ copied' = [copied EXCEPT ![v] = IF \E b \in Admins \ {a} : Copying(b, v)
                                           THEN "part" ELSE "all"]
        /\ disabled' = disabled \ {v}
     \/ /\ Copying(a, v) /\ copied[v] = "none" /\ Step(a, "idle")
        /\ UNCHANGED <<copied, disabled>>
  /\ UNCHANGED <<marker, cache, load, cut, ops>>

(* Of the highest version: it may have been moved since it was looked up.  *)
Gone(a) == copied[admin[a].version] = "none"

(* Variant: a patch that leaves the marker alone.                          *)
PatchUnmarked(a) ==
  /\ admin[a].pc = "change" /\ admin[a].kind \in {"enable", "disable"}
  /\ disabled' = IF admin[a].kind = "enable" THEN disabled \ {admin[a].version}
                 ELSE IF Gone(a) THEN disabled
                 ELSE disabled \cup {admin[a].version}
  /\ Step(a, "idle")
  /\ UNCHANGED <<copied, marker, cache, load, cut, ops>>

(* patch_agent makes or removes the disabled file of the highest version;  *)
(* to make it in a directory that has gone is an error.                    *)
PatchEnabled(a) ==
  /\ admin[a].pc = "change" /\ admin[a].kind \in {"enable", "disable"}
  /\ disabled' = IF admin[a].kind = "enable" THEN disabled \ {admin[a].version}
                 ELSE IF Gone(a) THEN disabled
                 ELSE disabled \cup {admin[a].version}
  /\ Step(a, IF admin[a].kind = "disable" /\ Gone(a) THEN "idle" ELSE "touch")
  /\ UNCHANGED <<copied, marker, cache, load, cut, ops>>

(* uninstall_agent moves every version to the trash, one after another.    *)
(* One that has gone meanwhile ends it with an error, and if others were   *)
(* moved before it the marker is not set for them.                         *)
MoveToTrash(a) ==
  /\ admin[a].pc \in {"change", "move"} /\ admin[a].kind = "uninstall"
  /\ \E v \in admin[a].left :
       \/ /\ copied[v] # "none"
          /\ copied' = [copied EXCEPT ![v] = "none"] /\ disabled' = disabled \ {v}
          /\ admin' = [admin EXCEPT ![a].left = @ \ {v},
                         ![a].pc = IF admin[a].left = {v} THEN "touch" ELSE "move"]
          /\ UNCHANGED cut
       \/ /\ copied[v] = "none" /\ Step(a, "idle")
          /\ cut' = (cut \/ admin[a].pc = "move")
          /\ UNCHANGED <<copied, disabled>>
  /\ UNCHANGED <<marker, cache, load, ops>>

TouchReload(a) ==
  /\ admin[a].pc = "touch" /\ marker' = TRUE /\ Step(a, "idle")
  /\ UNCHANGED <<copied, disabled, cache, load, cut, ops>>

(* The console's process dies.                                             *)
StopConsole ==
  /\ \E a \in Admins : admin[a].pc # "idle"
  /\ admin' = [a \in Admins |-> NoAdmin] /\ cut' = TRUE
  /\ UNCHANGED <<copied, disabled, marker, cache, load, ops>>

LoaderStep == SeeMarker \/ UnlinkMarker \/ LookUp \/ ReadBundle

BundleNext ==
  \/ LoaderStep \/ RestartWorker \/ StopConsole
  \/ \E a \in Admins :
       \/ \E k \in {"install", "enable", "disable", "uninstall"}, v \in Versions :
            StartOp(a, k, v)
       \/ CopyFiles(a) \/ PatchEnabled(a) \/ MoveToTrash(a) \/ TouchReload(a)

BundleSpec == BundleInit /\ [][BundleNext]_bundleVars

---------------------------------------------------------------------------
Quiet == ~marker /\ load.pc = "idle" /\ \A a \in Admins : admin[a].pc = "idle"

(* Once no handler is at work and the marker has been taken, what the      *)
(* worker serves from memory is the highest enabled version on disk, all   *)
(* of it: no change slips between the reading and the removal of the       *)
(* marker.  The exceptions are a change left half done with no marker set: *)
(* the console died in it, or it was an uninstall that had moved a version *)
(* when it met one that another uninstall had moved first.                 *)
CacheIsCurrent == Quiet /\ ~cut /\ cache # Nothing => cache = Best

=============================================================================
