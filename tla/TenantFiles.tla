---------------------------- MODULE TenantFiles ----------------------------
(***************************************************************************)
(* What one tenant of the platform owns on disk and the handlers that      *)
(* change it: tenant.json, secrets.json and model.json                     *)
(* (src/plnt/tenancy/tenants.py) and the installed bundles                 *)
(* (src/plnt/tenancy/installs.py), behind src/plnt/server/app.py.          *)
(*                                                                         *)
(* Handlers run in a thread pool and no file has a lock.  The tenant's own *)
(* files are put in place by a rename, so a reader sees the old text or    *)
(* the new one; but what is written was read by an earlier step.  The      *)
(* record of an installation is overwritten, and until it is whole again   *)
(* the release counts as not installed; an installation is replaced in     *)
(* three steps.  A turn reads the same files to build its agents.          *)
(***************************************************************************)
EXTENDS Naturals, FiniteSets, FiniteSetsExt

CONSTANTS
  Requests,  \* the handlers' threads, one request at a time each
  Secrets,   \* names of secrets
  Required,  \* the secrets the bundle's manifest requires
  Releases,  \* versions of the one bundle, ordered
  MaxAsked   \* bound on the requests

ASSUME FilesAssumption ==
  /\ Required \subseteq Secrets /\ Releases \subseteq Nat \ {0} /\ MaxAsked \in Nat

VARIABLES
  tenant,     \* tenant.json: the key it verifies, NoKey before the first,
              \* Absent without the file
  secret,     \* names in secrets.json
  model,      \* the secret model.json names, or NoModel
  installed,  \* of each release: none, bare (without a record that parses),
              \* or its config
  handler,    \* each thread's request
  promised,   \* history: what the last answers say each file holds
  muddled,    \* history: files whose last writers overlapped
  asked

fileVars == <<tenant, secret, model, installed, handler, promised, muddled, asked>>

Absent   == 0
NoKey    == 1
NoModel  == "default"
Files    == {"tenant", "secret", "model", "installed"}
NoReq    == [op |-> "none", pc |-> "idle", arg |-> 0, rows |-> {}]
Missing  == [state |-> "none", on |-> FALSE, config |-> 0]
Bare     == [state |-> "bare", on |-> FALSE, config |-> 0]
NoFiles  == [tenant |-> Absent, secret |-> {}, model |-> NoModel,
             installed |-> [v \in Releases |-> Missing]]
OnDisk   == [tenant |-> tenant, secret |-> secret, model |-> model, installed |-> installed]

(* The file a request writes.                                              *)
FileOf(op) ==
  CASE op \in {"create", "rotate"}                -> "tenant"
    [] op \in {"put", "drop"}                     -> "secret"
    [] op \in {"set_model", "clear_model"}        -> "model"
    [] op \in {"install", "enable", "disable", "configure", "uninstall"} -> "installed"
    [] OTHER                                      -> "none"

Writing(f) == {h \in Requests : FileOf(handler[h].op) = f}
Is(h, pc)  == handler[h].pc = pc
Set(h, r)  == handler' = [handler EXCEPT ![h] = r]
Goto(h, pc) == Set(h, [handler[h] EXCEPT !.pc = pc])
Exists     == tenant # Absent
Listed     == {v \in Releases : installed[v].state = "whole"}
Enabled    == {v \in Listed : installed[v].on}

FilesInit ==
  /\ tenant = Absent /\ secret = {} /\ model = NoModel
  /\ installed = [v \in Releases |-> Missing]
  /\ handler = [h \in Requests |-> NoReq]
  /\ promised = NoFiles /\ muddled = {} /\ asked = 0

---------------------------------------------------------------------------
(* Requests come and are answered.                                         *)

Steps(op) ==
  CASE op = "create" -> "check" [] op = "rotate" -> "key"
    [] op \in {"put", "drop"} -> "secrets" [] op \in {"set_model", "clear_model"} -> "write"
    [] op = "install" -> "clear" [] op = "uninstall" -> "list"
    [] op \in {"enable", "disable", "configure"} -> "list"
    [] op = "turn" -> "active" [] op = "role" -> "role"

(* tenant_access finds the tenant, except for its creation.  A request     *)
(* that meets another one on its file muddles what that file will hold.    *)
Ask(h, op, arg) ==
  /\ Is(h, "idle") /\ asked < MaxAsked /\ asked' = asked + 1
  /\ op = "create" \/ Exists
  /\ Set(h, [op |-> op, pc |-> Steps(op), arg |-> arg, rows |-> {}])
  /\ muddled' = IF FileOf(op) # "none" /\ Writing(FileOf(op)) # {}
                THEN muddled \cup {FileOf(op)} ELSE muddled
  /\ UNCHANGED <<tenant, secret, model, installed, promised>>

(* The request ends.  What it promises counts when it had the file for     *)
(* itself; of a muddled file what it holds is taken note of when the last  *)
(* of its writers has gone.                                                *)
Done(h, promise) ==
  LET f == FileOf(handler[h].op) IN
  /\ Set(h, NoReq)
  /\ IF f = "none" THEN UNCHANGED <<promised, muddled>>
     ELSE IF f \notin muddled THEN promised' = [promised EXCEPT ![f] = promise] /\ UNCHANGED muddled
     ELSE IF Writing(f) # {h} THEN UNCHANGED <<promised, muddled>>
     ELSE /\ promised' = [promised EXCEPT ![f] = OnDisk'[f]]
          /\ muddled' = muddled \ {f}

Fails(h) == Done(h, promised[FileOf(handler[h].op)])

---------------------------------------------------------------------------
(* Tenants: TenantStore.create, rotate_key, delete.                        *)

CheckAbsent(h) ==
  /\ Is(h, "check")
  /\ UNCHANGED <<tenant, secret, model, installed, asked>>
  /\ IF Exists THEN Fails(h) ELSE Goto(h, "make") /\ UNCHANGED <<promised, muddled>>

(* The record goes in without a key; the first rotation makes one.         *)
CreateTenant(h) ==
  /\ Is(h, "make") /\ tenant' = NoKey /\ Goto(h, "key")
  /\ UNCHANGED <<secret, model, installed, promised, muddled, asked>>

(* A key of its own for every rotation; the record read before is written  *)
(* back with it, into a directory that may have gone.                      *)
RotateKey(h) ==
  /\ Is(h, "key")
  /\ IF Exists THEN tenant' = handler[h].arg /\ Goto(h, "reply")
     ELSE Goto(h, "fail") /\ UNCHANGED tenant
  /\ UNCHANGED <<secret, model, installed, promised, muddled, asked>>

ReplyKey(h) ==
  /\ Is(h, "reply")
  /\ UNCHANGED <<tenant, secret, model, installed, asked>>
  /\ Done(h, handler[h].arg)

Fail(h) ==
  /\ Is(h, "fail")
  /\ UNCHANGED <<tenant, secret, model, installed, asked>>
  /\ Fails(h)

(* rmtree of the directory; whoever is writing in it is muddled.           *)
DeleteTenant ==
  /\ Exists /\ asked < MaxAsked /\ asked' = asked + 1
  /\ tenant' = Absent /\ secret' = {} /\ model' = NoModel
  /\ installed' = [v \in Releases |-> Missing]
  /\ promised' = NoFiles
  /\ muddled' = {f \in Files : Writing(f) # {}}
  /\ UNCHANGED handler

---------------------------------------------------------------------------
(* Secrets: the whole file is read, changed and written.  _write_json has  *)
(* one .tmp name for a file: of two writers at once one may rename what    *)
(* the other has half written, or find nothing to rename.  Here a whole    *)
(* text is renamed; the file is muddled by then, and nothing is promised   *)
(* of it.                                                                  *)

ReadSecrets(h) ==
  /\ Is(h, "secrets")
  /\ Set(h, [handler[h] EXCEPT !.pc = "write", !.rows = secret])
  /\ UNCHANGED <<tenant, secret, model, installed, promised, muddled, asked>>

SetSecret(h) ==
  /\ Is(h, "write") /\ handler[h].op = "put"
  /\ UNCHANGED <<tenant, model, installed, asked>>
  /\ IF Exists THEN /\ secret' = handler[h].rows \cup {handler[h].arg}
                    /\ Done(h, promised.secret \cup {handler[h].arg})
     ELSE UNCHANGED secret /\ Fails(h)

(* The file is written also when the name was not in it.                   *)
DeleteSecret(h) ==
  /\ Is(h, "write") /\ handler[h].op = "drop"
  /\ UNCHANGED <<tenant, model, installed, asked>>
  /\ IF Exists THEN /\ secret' = handler[h].rows \ {handler[h].arg}
                    /\ Done(h, promised.secret \ {handler[h].arg})
     ELSE UNCHANGED secret /\ Fails(h)

(* set_model_config, the configuration valid; it may name a secret that is *)
(* not set.  Without one it removes the file.                              *)
SetModel(h) ==
  /\ Is(h, "write") /\ handler[h].op = "set_model"
  /\ UNCHANGED <<tenant, secret, installed, asked>>
  /\ IF Exists THEN model' = handler[h].arg /\ Done(h, model')
     ELSE UNCHANGED model /\ Fails(h)

ClearModel(h) ==
  /\ Is(h, "write") /\ handler[h].op = "clear_model"
  /\ UNCHANGED <<tenant, secret, installed, asked>>
  /\ model' = NoModel /\ Done(h, NoModel)

---------------------------------------------------------------------------
(* Installs.                                                               *)

(* install: what is there is removed, the bundle copied, its record put    *)
(* into the copy.  In a directory that goes meanwhile the copying fails.   *)
Clear(h) ==
  /\ Is(h, "clear")
  /\ installed' = [installed EXCEPT ![handler[h].arg] = Missing]
  /\ Goto(h, "copy")
  /\ UNCHANGED <<tenant, secret, model, promised, muddled, asked>>

Copy(h) ==
  /\ Is(h, "copy")
  /\ IF Exists /\ installed[handler[h].arg].state = "none"
     THEN installed' = [installed EXCEPT ![handler[h].arg] = Bare] /\ Goto(h, "record")
     ELSE UNCHANGED installed /\ Goto(h, "fail")
  /\ UNCHANGED <<tenant, secret, model, promised, muddled, asked>>

Whole(on, config) == [state |-> "whole", on |-> on, config |-> config]

Record(h) ==
  /\ Is(h, "record")
  /\ UNCHANGED <<tenant, secret, model, asked>>
  /\ LET v == handler[h].arg  new == Whole(TRUE, asked) IN
     IF installed[v].state = "none" THEN UNCHANGED installed /\ Fails(h)
     ELSE /\ installed' = [installed EXCEPT ![v] = new]
          /\ Done(h, [promised.installed EXCEPT ![v] = installed'[v]])

(* list_installed: the releases with a record, read one by one.            *)
List(h) ==
  /\ Is(h, "list")
  /\ UNCHANGED <<tenant, secret, model, installed, asked>>
  /\ IF Listed = {} THEN Fails(h)
     ELSE /\ Set(h, [handler[h] EXCEPT !.pc = "each", !.rows = {<<v, installed[v]>> : v \in Listed}])
          /\ UNCHANGED <<promised, muddled>>

(* What update makes of a record.                                          *)
Changed(op, arg, i) ==
  CASE op = "enable"    -> [i EXCEPT !.on = TRUE]
    [] op = "disable"   -> [i EXCEPT !.on = FALSE]
    [] op = "configure" -> [i EXCEPT !.config = arg]

Update(op, arg) ==
  [v \in Releases |-> IF promised.installed[v].state = "whole"
                      THEN Changed(op, arg, promised.installed[v])
                      ELSE promised.installed[v]]

(* Variant: only the highest release, which is the active one, is written. *)
UpdateHighest(h) ==
  /\ Is(h, "each") /\ handler[h].op # "uninstall"
  /\ UNCHANGED <<tenant, secret, model, asked>>
  /\ LET r == CHOOSE x \in handler[h].rows : \A y \in handler[h].rows : y[1] <= x[1]
         op == handler[h].op  arg == handler[h].arg IN
     /\ installed' = [installed EXCEPT ![r[1]] = Changed(op, arg, r[2])]
     /\ Done(h, Update(op, arg))

(* An uninstallation goes over the releases with a record too: a bare      *)
(* directory stays.                                                        *)
Uninstalled ==
  [v \in Releases |-> IF promised.installed[v].state = "whole" THEN Missing
                      ELSE promised.installed[v]]

(* The release an update or an uninstallation has come to.                 *)
Row(h) == CHOOSE r \in handler[h].rows : \A y \in handler[h].rows : r[1] <= y[1]

(* update writes each record it read, changed; a directory that has gone   *)
(* ends it with an error.  The record's file is emptied first.             *)
UpdateNext(h) ==
  /\ Is(h, "each") /\ handler[h].op # "uninstall"
  /\ UNCHANGED <<tenant, secret, model, asked>>
  /\ LET op == handler[h].op  arg == handler[h].arg IN
     IF handler[h].rows = {} THEN UNCHANGED installed /\ Done(h, Update(op, arg))
     ELSE /\ IF installed[Row(h)[1]].state = "none" THEN Goto(h, "fail") /\ UNCHANGED installed
             ELSE /\ installed' = [installed EXCEPT ![Row(h)[1]] = Bare]
                  /\ Goto(h, "save")
          /\ UNCHANGED <<promised, muddled>>

(* The text goes to the file that was opened; when another handler has     *)
(* removed the release since, or copied it anew, that file is gone.        *)
WriteRecord(h) ==
  /\ Is(h, "save")
  /\ LET r == Row(h) IN
     /\ \/ /\ installed[r[1]].state # "none"
           /\ installed' = [installed EXCEPT ![r[1]] =
                              Changed(handler[h].op, handler[h].arg, r[2])]
        \/ "installed" \in muddled /\ UNCHANGED installed
     /\ Set(h, [handler[h] EXCEPT !.pc = "each", !.rows = @ \ {r}])
  /\ UNCHANGED <<tenant, secret, model, promised, muddled, asked>>

(* Each release validates the new configuration against a schema of its    *)
(* own: when one refuses it, the releases before it have been changed.     *)
RefuseConfig(h) ==
  /\ Is(h, "each") /\ handler[h].op = "configure" /\ handler[h].rows # {}
  /\ UNCHANGED <<tenant, secret, model, installed, asked>>
  /\ Done(h, installed)

UninstallNext(h) ==
  /\ Is(h, "each") /\ handler[h].op = "uninstall"
  /\ UNCHANGED <<tenant, secret, model, asked>>
  /\ IF handler[h].rows = {}
     THEN UNCHANGED installed /\ Done(h, Uninstalled)
     ELSE LET r == Row(h) IN
          /\ IF installed[r[1]].state = "none" THEN Goto(h, "fail") /\ UNCHANGED installed
             ELSE /\ installed' = [installed EXCEPT ![r[1]] = Missing]
                  /\ Set(h, [handler[h] EXCEPT !.rows = @ \ {r}])
          /\ UNCHANGED <<promised, muddled>>

---------------------------------------------------------------------------
(* A turn builds its agent: _spec_for_install.                             *)

(* installs.active: the highest enabled release, or an error.              *)
Active(h) ==
  /\ Is(h, "active")
  /\ IF Enabled = {} THEN Set(h, NoReq)
     ELSE Set(h, [handler[h] EXCEPT !.pc = "load", !.arg = Max(Enabled)])
  /\ UNCHANGED <<tenant, secret, model, installed, promised, muddled, asked>>

(* load_bundle: the manifest, the schema and the prompt; without them the  *)
(* message is refused.                                                     *)
LoadBundle(h) ==
  /\ Is(h, "load")
  /\ IF installed[handler[h].arg].state = "none" THEN Set(h, NoReq) ELSE Goto(h, "import")
  /\ UNCHANGED <<tenant, secret, model, installed, promised, muddled, asked>>

(* The manifest lists tools; in a folder removed meanwhile none of them is *)
(* found, which refuses the message as well.                               *)
LoadTools(h) ==
  /\ Is(h, "import")
  /\ IF installed[handler[h].arg].state = "none" THEN Set(h, NoReq) ELSE Goto(h, "required")
  /\ UNCHANGED <<tenant, secret, model, installed, promised, muddled, asked>>

(* A secret that the manifest requires and that is not set refuses it too. *)
MissingSecrets(h) ==
  /\ Is(h, "required")
  /\ IF Required \subseteq secret THEN Goto(h, "tools") ELSE Set(h, NoReq)
  /\ UNCHANGED <<tenant, secret, model, installed, promised, muddled, asked>>

(* _tools reads the secrets once more, for the agent's tools to use.       *)
Tools(h) ==
  /\ Is(h, "tools") /\ Set(h, [handler[h] EXCEPT !.pc = "profile", !.rows = secret])
  /\ UNCHANGED <<tenant, secret, model, installed, promised, muddled, asked>>

(* An agent of a role that the parent invented needs no bundle.            *)
RoleSpec(h) ==
  /\ Is(h, "role") /\ Goto(h, "profile")
  /\ UNCHANGED <<tenant, secret, model, installed, promised, muddled, asked>>

(* model_profile: a configured model whose secret is not set is an error.  *)
Profile(h) ==
  /\ Is(h, "profile")
  /\ IF model # NoModel /\ model \notin secret THEN Set(h, NoReq) ELSE Goto(h, "built")
  /\ UNCHANGED <<tenant, secret, model, installed, promised, muddled, asked>>

Built(h) ==
  /\ Is(h, "built") /\ Set(h, NoReq)
  /\ UNCHANGED <<tenant, secret, model, installed, promised, muddled, asked>>

---------------------------------------------------------------------------
Asks(h) ==
  \/ \E op \in {"create", "rotate"} : Ask(h, op, asked + 2)
  \/ \E op \in {"clear_model", "enable", "disable", "uninstall", "turn", "role"} : Ask(h, op, 0)
  \/ \E op \in {"put", "drop", "set_model"}, s \in Secrets : Ask(h, op, s)
  \/ \E v \in Releases : Ask(h, "install", v)
  \/ Ask(h, "configure", 1)

FilesNext ==
  \/ DeleteTenant
  \/ \E h \in Requests :
       \/ Asks(h) \/ Fail(h)
       \/ CheckAbsent(h) \/ CreateTenant(h) \/ RotateKey(h) \/ ReplyKey(h)
       \/ ReadSecrets(h) \/ SetSecret(h) \/ DeleteSecret(h) \/ SetModel(h) \/ ClearModel(h)
       \/ Clear(h) \/ Copy(h) \/ Record(h) \/ List(h)
       \/ UpdateNext(h) \/ WriteRecord(h) \/ RefuseConfig(h) \/ UninstallNext(h)
       \/ Active(h) \/ LoadBundle(h) \/ LoadTools(h) \/ MissingSecrets(h)
       \/ RoleSpec(h) \/ Tools(h) \/ Profile(h) \/ Built(h)

FilesSpec == FilesInit /\ [][FilesNext]_fileVars

---------------------------------------------------------------------------
(* What the answers say is what the files hold, as long as the requests on *)
(* a file came one after another: the key answered last verifies, a secret *)
(* put is there until it is deleted, and a bundle disabled is disabled in  *)
(* every release, so that no turn falls back on an older one.              *)
QuietWritesHold ==
  \A f \in Files : Writing(f) = {} /\ f \notin muddled => OnDisk[f] = promised[f]

============================================================================
