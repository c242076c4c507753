--------------------------- MODULE SkillRegistry ---------------------------
(***************************************************************************)
(* One skill of the single-user server's registry while it is read, edited *)
(* and installed: plnt/control/skills.py and skill_installer.py.           *)
(*                                                                         *)
(* A skill is a folder with skill.toml and prompt.md (examples.md is a     *)
(* part of the prompt here), or a legacy <role>.md.  get() is called by    *)
(* the server's threads; edits and `plnt skills install` come from other   *)
(* processes, file by file.  A file is the record of its last write, whose *)
(* time is its mtime: two writes never have the same.                      *)
(***************************************************************************)
EXTENDS Integers, FiniteSets

CONSTANTS
  Readers,    \* threads that call SkillRegistry.get
  Installers, \* processes that install a source with this skill
  User,       \* who edits the files
  MaxWrites   \* bound: file writes

ASSUME SkillRegistryAssumption ==
  /\ User \notin Installers
  /\ MaxWrites \in Nat

Names == {"toml", "prompt", "md"}

VARIABLES
  files,       \* the skill's files
  clock,       \* time of the last write
  skillFolder, \* the skill's folder exists
  cached,      \* SkillRegistry._cache
  reading,     \* the get() of each thread
  installing   \* the import of each installer

skillVars == <<files, clock, skillFolder, cached, reading, installing>>

NoFile == [at |-> 0, by |-> User]
Has(f) == files[f].at > 0

(* A Skill: the manifest and the prompt it was made of, its mtime, and     *)
(* (history) whether the files changed while it was loaded.                *)
NoSkill == [toml |-> NoFile, prompt |-> NoFile, mtime |-> 0, torn |-> FALSE]

Idle == [at |-> "idle", loader |-> "none", mtime |-> 0, toml |-> NoFile,
         prompt |-> NoFile, begun |-> 0, got |-> NoSkill]

SkillsInit ==
  /\ files = [f \in Names |-> NoFile]
  /\ clock = 0
  /\ skillFolder = FALSE
  /\ cached = NoSkill
  /\ reading = [r \in Readers |-> Idle]
  /\ installing = [i \in Installers |-> "idle"]

WriteFile(f, who) ==
  /\ clock < MaxWrites
  /\ clock' = clock + 1
  /\ files' = [files EXCEPT ![f] = [at |-> clock + 1, by |-> who]]

---------------------------------------------------------------------------
(* SkillRegistry.get                                                       *)

At(r, point) == reading[r].at = point
Reads(r, new) == reading' = [reading EXCEPT ![r] = new]
Returns(r, s) == Reads(r, [Idle EXCEPT !.at = "done", !.got = s,
                             !.loader = reading[r].loader,
                             !.begun = reading[r].begun])

(* Which of the files is the skill's, and its mtime.                       *)
Look(r) ==
  /\ reading[r].at \in {"idle", "done"}
  /\ Reads(r, CASE Has("toml") ->
                   [Idle EXCEPT !.at = "check", !.loader = "manifest",
                      !.mtime = files["toml"].at, !.begun = clock]
                [] ~Has("toml") /\ Has("md") ->
                   [Idle EXCEPT !.at = "check", !.loader = "legacy",
                      !.mtime = files["md"].at, !.begun = clock]
                [] OTHER -> [Idle EXCEPT !.at = "done", !.begun = clock])
  /\ UNCHANGED <<files, clock, skillFolder, cached, installing>>

(* Variant: what is cached is served.                                      *)
HitAny(r) == cached.mtime > 0

(* The cached skill is served when its mtime is that of the file.          *)
Hit(r) == cached.mtime > 0 /\ cached.mtime = reading[r].mtime

Check(r) ==
  /\ At(r, "check")
  /\ IF Hit(r)
     THEN Returns(r, cached)
     ELSE Reads(r, [reading[r] EXCEPT !.at = reading[r].loader])
  /\ UNCHANGED <<files, clock, skillFolder, cached, installing>>

(* parse_legacy_md: the file's text, with the mtime it had before.         *)
LoadLegacy(r) ==
  /\ At(r, "legacy")
  /\ LET s == [NoSkill EXCEPT !.prompt = files["md"],
                              !.mtime = reading[r].mtime]
     IN  /\ cached' = s
         /\ Returns(r, s)
  /\ UNCHANGED <<files, clock, skillFolder, installing>>

(* parse_manifest_dir: skill.toml, then the prompt, then their mtimes.     *)
LoadManifest(r) ==
  /\ At(r, "manifest")
  /\ Reads(r, [reading[r] EXCEPT !.at = "prompt", !.toml = files["toml"]])
  /\ UNCHANGED <<files, clock, skillFolder, cached, installing>>

LoadPrompt(r) ==
  /\ At(r, "prompt")
  /\ Reads(r, [reading[r] EXCEPT !.at = "store", !.prompt = files["prompt"]])
  /\ UNCHANGED <<files, clock, skillFolder, cached, installing>>

Newest == IF files["prompt"].at > files["toml"].at THEN files["prompt"].at
          ELSE files["toml"].at

Store(r) ==
  /\ At(r, "store")
  /\ LET read == reading[r]
         s == [toml |-> read.toml, prompt |-> read.prompt, mtime |-> Newest,
               torn |-> read.toml # files["toml"]
                          \/ read.prompt # files["prompt"]]
     IN  /\ cached' = s
         /\ Returns(r, s)
  /\ UNCHANGED <<files, clock, skillFolder, installing>>

Get(r) ==
  Look(r) \/ Check(r) \/ LoadLegacy(r) \/ LoadManifest(r) \/ LoadPrompt(r)
    \/ Store(r)

---------------------------------------------------------------------------
(* install: one SKILL.md of the cloned source, converted.                  *)

Installs(i, point) == installing' = [installing EXCEPT ![i] = point]

(* A folder of that name: "already exists", the skill is skipped.          *)
CheckFolder(i) ==
  /\ installing[i] = "idle"
  /\ Installs(i, IF skillFolder THEN "idle" ELSE "make")
  /\ UNCHANGED <<files, clock, skillFolder, cached, reading>>

MakeSkillFolder(i) ==
  /\ installing[i] = "make"
  /\ Installs(i, "toml")
  /\ skillFolder' = TRUE
  /\ UNCHANGED <<files, clock, cached, reading>>

WriteManifest(i) ==
  /\ installing[i] = "toml"
  /\ WriteFile("toml", i)
  /\ Installs(i, "prompt")
  /\ UNCHANGED <<skillFolder, cached, reading>>

(* The next SKILL.md of the source may be converted to the same role.      *)
WritePrompt(i) ==
  /\ installing[i] = "prompt"
  /\ WriteFile("prompt", i)
  /\ Installs(i, "idle")
  /\ UNCHANGED <<skillFolder, cached, reading>>

(* The process ends between two of these; the next install begins anew.    *)
InstallDies(i) ==
  /\ installing[i] \in {"make", "toml", "prompt"}
  /\ Installs(i, "idle")
  /\ UNCHANGED <<files, clock, skillFolder, cached, reading>>

Install(i) ==
  CheckFolder(i) \/ MakeSkillFolder(i) \/ WriteManifest(i) \/ WritePrompt(i)
    \/ InstallDies(i)

(* External: the user makes or edits one of the files.                     *)
Edit(f) ==
  /\ WriteFile(f, User)
  /\ skillFolder' = (skillFolder \/ f # "md")
  /\ UNCHANGED <<cached, reading, installing>>

SkillsNext ==
  \/ \E r \in Readers : Get(r)
  \/ \E i \in Installers : Install(i)
  \/ \E f \in Names : Edit(f)

SkillsSpec == SkillsInit /\ [][SkillsNext]_skillVars

---------------------------------------------------------------------------
(* Properties.                                                             *)

(* A get() during which nothing was written.                               *)
Quiet(r) == At(r, "done") /\ reading[r].begun = clock

Current(r) ==
  LET got == reading[r].got IN
  CASE reading[r].loader = "manifest" ->
         got.toml = files["toml"] /\ got.prompt = files["prompt"]
    [] reading[r].loader = "legacy" -> got.prompt = files["md"]
    [] OTHER -> TRUE

(* What two threads load and store over each other, and a switch between   *)
(* the formats, never outlive the next write of skill.toml: a quiet get()  *)
(* is current unless the prompt was edited after skill.toml, or the cached *)
(* skill was loaded while its files were being written.                    *)
StaleOnlyByPrompt ==
  \A r \in Readers : Quiet(r) =>
    \/ Current(r)
    \/ reading[r].loader = "manifest"
         /\ (files["prompt"].at > files["toml"].at \/ reading[r].got.torn)

===========================================================================
