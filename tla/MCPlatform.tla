----------------------------- MODULE MCPlatform -----------------------------
(* What the servers keep around their agents.  Of the platform: a tenant's *)
(* files, and the playground's sessions and accounting.  Of the single-    *)
(* user server: the skill registry, the conversation read off its history, *)
(* signing in, and the events a browser follows.  Of both: model calls and *)
(* their diagnosis.  They share no state: a run works one of them while    *)
(* the others rest.                                                        *)
EXTENDS TenantFiles, Visits, ModelCalls, SkillRegistry, Dialogue, SignIn,
        RunEvents

CONSTANTS v1, v2

VARIABLE side

VisitorsVal == {v1, v2}

AgentsVal == {1, 2}
CallsVal  == <<2, 1>>
DelaysVal == <<1, 2>>

(* Both endpoints tried, one only, native tools forced and forbidden; the  *)
(* doctor told not to probe.                                               *)
Env(force, path, cloud, native) ==
  [force |-> force, path |-> path, cloud |-> cloud, native |-> native, probe |-> TRUE]

SetupsVal ==
  {Env("auto", TRUE, TRUE, "auto"), Env("auto", FALSE, TRUE, "on"),
   Env("local", TRUE, FALSE, "auto"), Env("auto", TRUE, FALSE, "off"),
   Env("cloud", TRUE, FALSE, "auto"), Env("offline", TRUE, FALSE, "auto"),
   [Env("auto", TRUE, TRUE, "auto") EXCEPT !.probe = FALSE]}

(* An Ollama without tools; servers of the OpenAI kind that take tools and *)
(* refuse a named choice, each in its way, of which Proud and Vague pass   *)
(* the doctor and Odd lacks a schema; one without tools; one that refuses  *)
(* the key; one that lacks the model.                                      *)
Able(kind, lists) ==
  [kind |-> kind, served |-> TRUE, lists |-> lists, tools |-> TRUE,
   named |-> "yes", schema |-> TRUE, shim |-> TRUE, context |-> TRUE]

Simple == [Able("ollama", "yes") EXCEPT !.tools = FALSE]
Proud  == [Able("openai", "yes") EXCEPT !.named = "choice"]
Vague  == [Able("openai", "yes") EXCEPT !.named = "marker", !.shim = FALSE]
Odd    == [Able("openai", "yes") EXCEPT !.named = "other", !.schema = FALSE]
Deaf   == [Able("openai", "no") EXCEPT !.tools = FALSE, !.named = "choice"]
Closed == Able("openai", "denied")
Empty  == [Able("openai", "no") EXCEPT !.served = FALSE]

Pair(l, c)  == [e \in Endpoints |-> IF e = "local" THEN l ELSE c]
ServersVal ==
  {Pair(Simple, Proud), Pair(Deaf, Closed), Pair(Empty, Deaf), Pair(Vague, Odd)}

(* Answers name a slug folder, which need not be there, nor what it is in. *)
MentionedVal == {<<"app", -1>>}

Sides == {"files", "opening", "spending", "calls", "skills", "talk",
          "signing", "events"}

Init ==
  /\ side \in Sides
  /\ FilesInit /\ VisitStart(IF side = "spending" THEN {v1} ELSE {})
  /\ CallsInit /\ SkillsInit /\ TalkInit /\ SignInit /\ EventsInit
  /\ side # "calls" => /\ setup = Env("auto", TRUE, TRUE, "auto")
                       /\ server = Pair(Simple, Proud)
  /\ side # "talk" => \A f \in Folders : disk[f] = "absent"

Rest(vars) == UNCHANGED vars

Next ==
  /\ UNCHANGED side
  /\ \/ side = "files" /\ FilesNext
     \/ side # "files" /\ Rest(fileVars)
  /\ \/ side = "opening" /\ OpenNext
     \/ side = "spending" /\ SpendNext
     \/ side \notin {"opening", "spending"} /\ Rest(visitVars)
  /\ \/ side = "calls" /\ CallsNext
     \/ side # "calls" /\ Rest(callVars)
  /\ \/ side = "skills" /\ SkillsNext
     \/ side # "skills" /\ Rest(skillVars)
  /\ \/ side = "talk" /\ TalkNext
     \/ side # "talk" /\ Rest(talkVars)
  /\ \/ side = "signing" /\ SignNext
     \/ side # "signing" /\ Rest(signVars)
  /\ \/ side = "events" /\ EventsNext
     \/ side # "events" /\ Rest(eventVars)

allVars == <<side, fileVars, visitVars, callVars, skillVars, talkVars, signVars,
             eventVars>>

Spec == Init /\ [][Next]_allVars

===========================================================================
