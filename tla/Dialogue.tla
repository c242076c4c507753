------------------------------ MODULE Dialogue ------------------------------
(***************************************************************************)
(* A conversation with the single-user orchestrator, turn by turn: what    *)
(* plnt/control/orchestrator.py and clarify.py make of the history that a  *)
(* client sends back with every message.  No session is stored: whether    *)
(* the user is answering a question, and which project is being worked on, *)
(* is read off the earlier answers' text.                                  *)
(*                                                                         *)
(* A message is what the code finds in it: a verb of creation, and at most *)
(* one path.  An answer is what the next turns find in it: that it asks    *)
(* something, and the first folder it names as one that is worked in,      *)
(* which may be the footer's or the answer's own words (a model wrote      *)
(* them).  A slug is one name: the messages ask for the same thing.  The   *)
(* swarm itself is module Swarm's.                                         *)
(***************************************************************************)
EXTENDS Integers, Sequences, FiniteSets

CONSTANTS
  Paths,     \* folders a message may name
  Mentioned, \* folders the words of an answer may say are worked in
  MaxTurns   \* bound: turns of the conversation

None == "none"

(* Folders: the ones named, the slug folder in each, the one with the      *)
(* run's id when that exists and is no project, and the run's own.         *)
Named(p)       == <<p, 0>>
Slug(p)        == <<p, -1>>
Suffixed(p, n) == <<p, n>>
RunDir(n)      == <<"runs", n>>
NoFolder       == <<None, -2>>  \* the number of none of these
Folders == (Paths \X (-1 .. MaxTurns)) \cup ({"runs"} \X (1 .. MaxTurns))

ASSUME DialogueAssumption ==
  MaxTurns \in Nat /\ "runs" \notin Paths /\ Mentioned \subseteq Folders

(* What is on disk: a holder of projects, by a part of its path such as    *)
(* Documents or code or by three folders in it, a project root, or neither.*)
States == {"absent", "plain", "root", "holder"}

Sayings == [create : BOOLEAN, path : Paths \cup {None}]

VARIABLES
  disk,    \* the folders
  history, \* the turns, oldest first
  talk     \* the turn being worked on

talkVars == <<disk, history, talk>>

NoTurn == [at |-> "idle"]

TalkInit ==
  /\ \E d \in [Paths -> States] :
       disk = [f \in Folders |-> IF f[2] = 0 THEN d[f[1]] ELSE "absent"]
  /\ history = <<>>
  /\ talk = NoTurn

---------------------------------------------------------------------------
(* What is read off the history.                                           *)

(* last_assistant_message, assistant_was_clarifying: every answer here is  *)
(* a text, so the last turn's counts.                                      *)
WasClarifying == history # <<>> /\ history[Len(history)].asks

(* collect_user_values: a path anywhere in the user's messages.            *)
PathGiven(m) ==
  m.path # None \/ \E i \in DOMAIN history : history[i].path # None

(* clarification_for_manifest: a required input is not named in the        *)
(* message; a path-type one is satisfied by any path, too.                 *)
MissingInput(m, named, wantsPath) == ~named /\ ~(wantsPath /\ PathGiven(m))

(* The first of _harvest_paths: this message's, or the oldest of the last  *)
(* six turns'.                                                             *)
Harvested(m) ==
  LET at == {i \in DOMAIN history : i > Len(history) - 6 /\ history[i].path # None} IN
  IF m.path # None THEN m.path
  ELSE IF at = {} THEN None
  ELSE history[CHOOSE i \in at : \A j \in at : i <= j].path

(* Variant: the oldest project of the conversation is kept.                *)
OldestProject ==
  LET at == {i \in DOMAIN history : history[i].dir # NoFolder} IN
  IF at = {} THEN NoFolder
  ELSE history[CHOOSE i \in at : \A j \in at : i <= j].dir

(* _harvest_prior_project: the folder of the last answer that names one.   *)
PriorProject ==
  LET at == {i \in DOMAIN history : history[i].dir # NoFolder} IN
  IF at = {} THEN NoFolder
  ELSE history[CHOOSE i \in at : \A j \in at : i >= j].dir

---------------------------------------------------------------------------
(* One turn.                                                               *)

(* The folders that words can name now: of a run, one that has begun.      *)
Nameable == {f \in Mentioned : f[1] = "runs" => f[2] <= Len(history) + 1}

Answer(asks, spoke, dir, worked, source) ==
  /\ history' = Append(history,
       [path |-> talk.message.path, asks |-> asks, spoke |-> spoke, dir |-> dir,
        worked |-> worked, source |-> source])
  /\ talk' = NoTurn

(* An answer as somebody wrote it: the user finds in it what it says.      *)
AnswerAsIs(asks, source) ==
  \E f \in Nameable \cup {NoFolder} : Answer(asks, f # NoFolder, f, NoFolder, source)

Say(m) ==
  /\ talk.at = "idle"
  /\ Len(history) < MaxTurns
  /\ talk' = [at |-> "triage", message |-> m]
  /\ UNCHANGED <<disk, history>>

(* triage() called it a chat: the reply is passed on, whatever it is.      *)
Chat ==
  /\ talk.at = "triage"
  /\ \E asks \in BOOLEAN : AnswerAsIs(asks, "triage")
  /\ UNCHANGED disk

(* triage() says that something is missing; but not twice in a row: the    *)
(* message that answers a question is planned.                             *)
AskTriaged ==
  /\ talk.at = "triage"
  /\ ~WasClarifying
  /\ \E asks \in BOOLEAN : AnswerAsIs(asks, "clarify")
  /\ UNCHANGED disk

(* The skill the conversation is about needs an input: its question is     *)
(* one that assistant_was_clarifying knows, in the words of its author.    *)
AskForInputs ==
  /\ talk.at = "triage"
  /\ ~WasClarifying
  /\ \E named, wantsPath \in BOOLEAN :
       MissingInput(talk.message, named, wantsPath)
  /\ AnswerAsIs(TRUE, "clarify")
  /\ UNCHANGED disk

(* Anything else is planned: a task, and whatever answers a question.      *)
Plan ==
  /\ talk.at = "triage"
  /\ talk' = [talk EXCEPT !.at = "resolve"]
  /\ UNCHANGED <<disk, history>>

---------------------------------------------------------------------------
(* _resolve_project_dir                                                    *)

Work(f) ==
  /\ talk' = [at |-> "work", message |-> talk.message, dir |-> f]
  /\ disk' = [disk EXCEPT ![f] = IF @ = "absent" THEN "plain" ELSE @]
  /\ UNCHANGED history

(* Where work on a path a message names goes: a folder made for it, a slug *)
(* folder in a container or, when something is to be created, in a project *)
(* root; else the folder itself.                                           *)
FolderFor(p, create) ==
  IF disk[Named(p)] = "absent" THEN Named(p)
  ELSE IF disk[Named(p)] = "holder"
  THEN IF disk[Slug(p)] \in {"plain", "holder"}
       THEN Suffixed(p, Len(history) + 1) ELSE Slug(p)
  ELSE IF disk[Named(p)] = "root" /\ create THEN Slug(p)
  ELSE Named(p)

(* A prior project counts while it, or the folder it is in, is there: the  *)
(* folder of a run is made when the run begins.                            *)
Usable(f) ==
  \/ disk[f] # "absent" \/ f[1] = "runs" \/ f[2] = 0
  \/ disk[Named(f[1])] # "absent"

Resolve ==
  LET m == talk.message
      path == Harvested(m)
  IN
  /\ talk.at = "resolve"
  /\ IF PriorProject # NoFolder /\ ~m.create /\ Usable(PriorProject) THEN Work(PriorProject)
     ELSE IF path # None THEN Work(FolderFor(path, m.create))
     ELSE Work(RunDir(Len(history) + 1))

(* _attach_project_footer: an answer that says "Working in:" already gets  *)
(* none, whatever it says there.  What is found in an answer is the first  *)
(* folder it names, so the footer's only when its own words name none.     *)
Footed(own, phrase) ==
  IF own # NoFolder THEN own ELSE IF phrase THEN NoFolder ELSE talk.dir

(* The agents have worked: they may have made the folder a project, or     *)
(* three folders in it.  Their answer may ask something, and may speak of  *)
(* a folder that is worked in.                                             *)
Finish ==
  /\ talk.at = "work"
  /\ \E made \in {disk[talk.dir], "root", "holder"} :
       disk' = [disk EXCEPT ![talk.dir] = made]
  /\ \E asks, phrase \in BOOLEAN, own \in Nameable \cup {NoFolder} :
       Answer(asks, phrase \/ own # NoFolder, Footed(own, phrase), talk.dir, "swarm")

(* The swarm fails before an answer: what was raised is what the user      *)
(* reads.                                                                  *)
Crash ==
  /\ talk.at \in {"resolve", "work"}
  /\ AnswerAsIs(FALSE, "error")
  /\ UNCHANGED disk

TalkNext ==
  \/ \E m \in Sayings : Say(m)
  \/ Chat \/ AskTriaged \/ AskForInputs \/ Plan \/ Resolve \/ Finish \/ Crash

TalkSpec == TalkInit /\ [][TalkNext]_talkVars

---------------------------------------------------------------------------
(* Properties.                                                             *)

(* Session continuity without a session: a planned turn that creates       *)
(* nothing works where the latest planned turn worked, whatever was said,  *)
(* asked or named by the user in between, and whatever went wrong.  It     *)
(* rests on the words of the answers: since that turn none of them, its    *)
(* own included, named a folder as worked in, or said "Working in:" before *)
(* the footer was to be added.                                             *)
FollowUpStays ==
  talk.at = "work" /\ ~talk.message.create =>
    \A i \in DOMAIN history :
      /\ history[i].source = "swarm"
      /\ \A j \in i + 1 .. Len(history) : history[j].source # "swarm"
      /\ \A j \in i .. Len(history) : ~history[j].spoke
      => talk.dir = history[i].worked

(* orchestrator.py: "Key invariant: a create-verb NEVER writes into an     *)
(* existing project root."                                                 *)
CreateIsAnew ==
  [][talk.at = "resolve" /\ talk'.at = "work" /\ talk.message.create =>
       disk[talk'.dir] # "root"]_talkVars

===========================================================================
