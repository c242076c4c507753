---------------------------- MODULE ModelCalls ----------------------------
(***************************************************************************)
(* One model call: plnt/models (resolve_profile, chat, the OpenAI and the  *)
(* Ollama client, the JSON tool shim) as the agents of a process make it,  *)
(* and the diagnosis of `plnt models doctor`.                              *)
(*                                                                         *)
(* A call picks an endpoint, then posts: natively, or through the shim     *)
(* when the server has no tools.  A busy server is tried again within the  *)
(* call's time; a server that refuses a named tool_choice is remembered    *)
(* for the whole process (_NO_FORCED_CHOICE) and asked again without it.   *)
(*                                                                         *)
(* What a server can do is fixed; whether it is up, busy or late is not.   *)
(* The clock of a call counts seconds from its first post.                 *)
(***************************************************************************)
EXTENDS Integers, Sequences, FiniteSets

CONSTANTS
  Agents,     \* threads that make model calls
  Doctor,     \* the diagnosis, a caller as well
  Setups,     \* environments: force, path, cloud, native; the doctor's --no-probe
  Servers,    \* what the two endpoints can do
  Timeout,    \* the call's timeout: each post may take that long
  Delays,     \* _RETRY_DELAYS
  Durations,  \* seconds an answered post may take
  MaxCalls,   \* bound: calls each agent makes
  MaxTroubles \* bound: busy, late and down times of the servers

Callers   == Agents \cup {Doctor}
Endpoints == {"local", "cloud"}

Setup == [force : {"auto", "local", "cloud", "offline"}, path : BOOLEAN,
          cloud : BOOLEAN, native : {"auto", "on", "off"}, probe : BOOLEAN]

(* What a server does with a named tool: it takes it, answers 400 with     *)
(* "tool_choice" in the text, with a text that reads as "no tools", or     *)
(* with anything else.  The schemas of the shim and of a caller's own are  *)
(* two.                                                                    *)
Server == [kind : {"ollama", "openai"}, served : BOOLEAN,
           lists : {"yes", "no", "denied"}, tools : BOOLEAN,
           named : {"yes", "choice", "marker", "other"},
           schema : BOOLEAN, shim : BOOLEAN, context : BOOLEAN]

ASSUME ModelCallsAssumption ==
  /\ Doctor \notin Agents
  /\ Setups \subseteq Setup
  /\ Servers \subseteq [Endpoints -> Server]
  /\ \A s \in Servers : s["cloud"].kind = "openai"
  /\ Timeout \in Nat \ {0}
  /\ Delays \in Seq(Nat)
  /\ Durations \subseteq 0 .. Timeout
  /\ MaxCalls \in [Agents -> Nat] /\ MaxTroubles \in Nat

VARIABLES
  setup,    \* the environment the profiles are resolved from
  server,   \* the endpoints
  up,       \* the endpoints that answer now
  noForced, \* _NO_FORCED_CHOICE
  call,     \* the call each caller is in, or its last one
  made,     \* calls each agent has begun
  refusals, \* history: refused tool choices a caller met, per endpoint
  troubles, \* bound: troubles so far
  stage,    \* where the diagnosis is
  checks    \* DoctorReport.checks that came out False

callVars == <<setup, server, up, noForced, call, made, refusals, troubles,
              stage, checks>>

Errors == {"none configured", "timeout", "unavailable", "unsupported",
           "not pulled", "bad response"}

NoCall == [at |-> "idle", ep |-> "none", tools |-> FALSE, named |-> FALSE,
           via |-> "plain", forced |-> FALSE, tries |-> 0, begun |-> 0,
           clock |-> 0, troubled |-> FALSE,
           result |-> "none"]

CallsInit ==
  /\ setup \in Setups
  /\ server \in Servers
  /\ up = [e \in Endpoints |-> TRUE]
  /\ noForced = {}
  /\ call = [c \in Callers |-> NoCall]
  /\ made = [a \in Agents |-> 0]
  /\ refusals = [c \in Callers |-> [e \in Endpoints |-> 0]]
  /\ troubles = 0
  /\ stage = "health"
  /\ checks = {}

ServerOf(c) == server[call[c].ep]

---------------------------------------------------------------------------
(* resolve_profile                                                         *)

cloud_profile    == IF setup.cloud THEN "cloud" ELSE "none"
tcp_reachable(e) == up[e]
required_path_ok == setup.path

Resolved ==
  CASE setup.force = "offline" -> "offline"
    [] setup.force = "local"   -> "local"
    [] setup.force = "cloud"   -> cloud_profile
    [] setup.force = "auto"    ->
         IF required_path_ok /\ tcp_reachable("local") THEN "local"
         ELSE cloud_profile

(* provider.chat is entered, with a timeout of its own.  Only the OpenAI   *)
(* client can name a tool; the shim asks for it in a message.              *)
OllamaEntered(r, via) ==
  [r EXCEPT !.at = "post", !.via = via, !.tries = 0, !.begun = r.clock,
            !.forced = FALSE]

OpenAIEntered(r, via) ==
  [OllamaEntered(r, via) EXCEPT
     !.forced = via = "native" /\ r.named /\ r.ep \notin noForced]

Entered(r, via) ==
  IF server[r.ep].kind = "ollama" THEN OllamaEntered(r, via)
  ELSE OpenAIEntered(r, via)

Ended(r, result) ==
  [NoCall EXCEPT !.at = "ended", !.ep = r.ep, !.troubled = r.troubled,
                 !.named = r.named, !.result = result]

(* chat(): native tools first, the shim when the profile says so.          *)
Mode(r) ==
  IF ~r.tools THEN "plain"
  ELSE IF setup.native = "off" THEN "shim" ELSE "native"

(* The stub calls the search tool, then sums up; it answers at once.       *)
StubReplies(r) == IF r.tools THEN {"call", "text"} ELSE {"text"}

Begin(c, e, tools, named) ==
  LET r == [NoCall EXCEPT !.ep = e, !.tools = tools, !.named = named] IN
  CASE e = "none" -> call' = [call EXCEPT ![c] = Ended(r, "none configured")]
    [] e = "offline" -> \E s \in StubReplies(r) :
                          call' = [call EXCEPT ![c] = Ended(r, s)]
    [] OTHER -> call' = [call EXCEPT ![c] = Entered(r, Mode(r))]

(* A step of an agent's loop; the choice is named while a required tool    *)
(* has not been called.  The doctor is a process of its own that shares    *)
(* nothing with the agents, so here they begin when it has ended.          *)
AgentCalls(a) ==
  /\ stage = "over"
  /\ call[a].at \in {"idle", "ended"}
  /\ made[a] < MaxCalls[a]
  /\ made' = [made EXCEPT ![a] = @ + 1]
  /\ \E named \in BOOLEAN : Begin(a, Resolved, TRUE, named)
  /\ UNCHANGED <<setup, server, up, noForced, refusals, troubles, stage,
                 checks>>

---------------------------------------------------------------------------
(* One post: what comes back, and what the client does next.               *)

(* A server that is up and has the time answers by what it can do.         *)
Answers(r) ==
  LET s == server[r.ep] IN
  IF s.lists = "denied" THEN {"denied"}
  ELSE IF ~s.served THEN {"absent"}
  ELSE IF r.via = "native" /\ ~s.tools
       THEN {"no tools"} \cup (IF r.forced THEN {"no choice"} ELSE {})
  ELSE IF r.forced /\ s.named # "yes"
       THEN {CASE s.named = "choice" -> "no choice"
               [] s.named = "marker" -> "no tools"
               [] s.named = "other"  -> "refused"}
  ELSE IF (r.via = "shim" /\ ~s.shim) \/ (r.via = "plain" /\ ~s.schema) THEN {"no schema"}
  ELSE IF r.via = "plain" THEN {"text"} ELSE {"text", "call"}

Answered(c, h) ==
  call[c].at = "post" /\ up[call[c].ep] /\ h \in Answers(call[c])

Becomes(c, r) == call' = [call EXCEPT ![c] = r]
After(r, d)   == [r EXCEPT !.clock = @ + d]

(* No connection, or no answer within the timeout of this post.            *)
Unreachable(c) ==
  /\ call[c].at = "post" /\ ~up[call[c].ep]
  /\ Becomes(c, Ended([call[c] EXCEPT !.troubled = TRUE], "unavailable"))
  /\ UNCHANGED <<setup, server, up, noForced, made, refusals, troubles,
                 stage, checks>>

TimesOut(c) ==
  /\ call[c].at = "post" /\ up[call[c].ep] /\ troubles < MaxTroubles
  /\ troubles' = troubles + 1
  /\ Becomes(c, Ended([call[c] EXCEPT !.troubled = TRUE], "timeout"))
  /\ UNCHANGED <<setup, server, up, noForced, made, refusals, stage, checks>>

(* 429 and 5xx: the OpenAI client tries again while its time allows.       *)
MayRetry(r) ==
  /\ r.tries < Len(Delays)
  /\ r.clock - r.begun + Delays[r.tries + 1] < Timeout

Busy(c) ==
  /\ call[c].at = "post" /\ up[call[c].ep] /\ troubles < MaxTroubles
  /\ ServerOf(c).kind = "openai"
  /\ troubles' = troubles + 1
  /\ \E d \in Durations :
       LET r == [After(call[c], d) EXCEPT !.troubled = TRUE] IN
       IF MayRetry(r)
       THEN Becomes(c, [After(r, Delays[r.tries + 1]) EXCEPT !.tries = @ + 1])
       ELSE Becomes(c, Ended(r, "bad response"))
  /\ UNCHANGED <<setup, server, up, noForced, made, refusals, stage, checks>>

(* Ollama's client reports any other status at once.                       *)
OllamaBusy(c) ==
  /\ call[c].at = "post" /\ up[call[c].ep] /\ troubles < MaxTroubles
  /\ ServerOf(c).kind = "ollama"
  /\ troubles' = troubles + 1
  /\ Becomes(c, Ended([call[c] EXCEPT !.troubled = TRUE], "bad response"))
  /\ UNCHANGED <<setup, server, up, noForced, made, refusals, stage, checks>>

(* Variant: the refusal is not remembered for the next calls.              *)
RetryUnforcedOnce(c) ==
  /\ Answered(c, "no choice")
  /\ refusals' = [refusals EXCEPT ![c][call[c].ep] = @ + 1]
  /\ \E d \in Durations :
       Becomes(c, [After(call[c], d) EXCEPT !.forced = FALSE,
                                            !.tries = Len(Delays)])
  /\ UNCHANGED <<setup, server, up, noForced, made, troubles, stage, checks>>

(* 400 and "tool_choice": once more without naming the tool.  What that    *)
(* post hears is final.                                                    *)
RetryUnforced(c) ==
  /\ Answered(c, "no choice")
  /\ noForced' = noForced \cup {call[c].ep}
  /\ refusals' = [refusals EXCEPT ![c][call[c].ep] = @ + 1]
  /\ \E d \in Durations :
       Becomes(c, [After(call[c], d) EXCEPT !.forced = FALSE,
                                            !.tries = Len(Delays)])
  /\ UNCHANGED <<setup, server, up, made, troubles, stage, checks>>

(* ToolsUnsupported: the shim takes over, unless native tools are forced.  *)
FallBack(c) ==
  /\ Answered(c, "no tools")
  /\ \E d \in Durations :
       Becomes(c, IF setup.native = "auto"
                  THEN Entered(After(call[c], d), "shim")
                  ELSE Ended(call[c], "unsupported"))
  /\ UNCHANGED <<setup, server, up, noForced, made, refusals, troubles,
                 stage, checks>>

(* The other answers: a reply, or an exception chat() raises.              *)
Refused(c) ==
  /\ \/ Answered(c, "absent") /\ Becomes(c, Ended(call[c], "not pulled"))
     \/ /\ \E h \in {"denied", "no schema", "refused"} : Answered(c, h)
        /\ Becomes(c, Ended(call[c], "bad response"))
  /\ UNCHANGED <<setup, server, up, noForced, made, refusals, troubles,
                 stage, checks>>

Replied(c) ==
  /\ call[c].via # "shim"
  /\ \E h \in {"text", "call"} :
       Answered(c, h) /\ Becomes(c, Ended(call[c], h))
  /\ UNCHANGED <<setup, server, up, noForced, made, refusals, troubles,
                 stage, checks>>

(* The JSON object the shim asked for, a call or the final answer; text    *)
(* that is no such object is the final answer.                             *)
ShimReplied(c) ==
  /\ call[c].via = "shim"
  /\ \E h \in {"text", "call"} :
       Answered(c, h) /\ Becomes(c, Ended(call[c], h))
  /\ UNCHANGED <<setup, server, up, noForced, made, refusals, troubles,
                 stage, checks>>

Chats(c) ==
  \/ Unreachable(c) \/ TimesOut(c) \/ Busy(c) \/ RetryUnforced(c)
  \/ OllamaBusy(c) \/ FallBack(c) \/ Refused(c) \/ Replied(c)
  \/ ShimReplied(c)

---------------------------------------------------------------------------
(* diagnose: later checks are skipped when an earlier one fails.           *)

Diagnosed(point, bad) ==
  /\ stage' = point
  /\ checks' = checks \cup bad
  /\ UNCHANGED <<setup, server, up, noForced, made, refusals, troubles>>

(* provider.health(): the endpoint answers, and whether the model is among *)
(* those it lists; a server of the OpenAI kind need not list any, and one  *)
(* that denies it is reachable all the same.                               *)
OllamaHealth(e) ==
  [reachable |-> up[e] /\ server[e].lists = "yes",
   absent |-> ~server[e].served]

OpenAIHealth(e) ==
  [reachable |-> up[e],
   absent |-> server[e].lists = "yes" /\ ~server[e].served]

Health(e) ==
  IF server[e].kind = "ollama" THEN OllamaHealth(e) ELSE OpenAIHealth(e)

CheckHealth ==
  /\ stage = "health"
  /\ call' = [call EXCEPT ![Doctor].ep = Resolved]
  /\ IF Resolved \notin Endpoints THEN Diagnosed("over", {})
     ELSE LET h == Health(Resolved) IN
          CASE ~h.reachable            -> Diagnosed("over", {"reachable"})
            [] h.reachable /\ h.absent -> Diagnosed("over", {"model present"})
            [] OTHER                   -> Diagnosed("context", {})

(* _ollama_context: nothing is said of a server that does not answer now.  *)
BadContext(e) ==
  IF server[e].kind = "ollama" /\ up[e] /\ ~server[e].context
  THEN {"context window"} ELSE {}

(* With --no-probe that was all.                                           *)
CheckContext ==
  /\ stage = "context" /\ UNCHANGED call
  /\ Diagnosed(IF setup.probe THEN "tools" ELSE "over", BadContext(call[Doctor].ep))

(* The model is asked to call a tool, and to answer in JSON.               *)
StartToolProbe ==
  /\ stage = "tools"
  /\ call[Doctor].at = "idle"
  /\ Begin(Doctor, call[Doctor].ep, TRUE, FALSE)
  /\ Diagnosed("tools", {})

(* Variant: the tool probe passes when the server answered at all.         *)
JudgeToolProbeByReply ==
  /\ stage = "tools"
  /\ call[Doctor].at = "ended"
  /\ call' = [call EXCEPT ![Doctor].at = "idle"]
  /\ Diagnosed("json", IF call[Doctor].result \in {"unavailable", "timeout"}
                       THEN {"tool calling"} ELSE {})

JudgeToolProbe ==
  /\ stage = "tools"
  /\ call[Doctor].at = "ended"
  /\ call' = [call EXCEPT ![Doctor].at = "idle"]
  /\ Diagnosed("json", IF call[Doctor].result = "call" THEN {}
                       ELSE {"tool calling"})

StartJsonProbe ==
  /\ stage = "json"
  /\ call[Doctor].at = "idle"
  /\ Begin(Doctor, call[Doctor].ep, FALSE, FALSE)
  /\ Diagnosed("json", {})

(* The reply has to be the right JSON.                                     *)
JudgeJsonProbe ==
  /\ stage = "json"
  /\ call[Doctor].at = "ended"
  /\ call' = [call EXCEPT ![Doctor] = [NoCall EXCEPT !.ep = call[Doctor].ep]]
  /\ \E bad \in SUBSET {"JSON output"} :
       /\ call[Doctor].result # "text" => bad # {}
       /\ Diagnosed("over", bad)

Diagnose ==
  \/ CheckHealth \/ CheckContext \/ StartToolProbe \/ StartJsonProbe \/ JudgeJsonProbe
  \/ JudgeToolProbe

---------------------------------------------------------------------------
(* External: an endpoint stops or starts.                                  *)
Switch(e) ==
  /\ troubles < MaxTroubles
  /\ troubles' = troubles + 1
  /\ up' = [up EXCEPT ![e] = ~@]
  /\ UNCHANGED <<setup, server, noForced, call, made, refusals, stage, checks>>

CallsNext ==
  \/ \E c \in Callers : Chats(c)
  \/ \E a \in Agents : AgentCalls(a)
  \/ Diagnose
  \/ \E e \in Endpoints : Switch(e)

(* A post ends by its timeout and a thread goes on; nobody has to begin    *)
(* another call.                                                           *)
CallsSpec ==
  /\ CallsInit /\ [][CallsNext]_callVars
  /\ \A c \in Callers : WF_callVars(Chats(c))

---------------------------------------------------------------------------
(* Properties.                                                             *)

(* "get auto from then on": a caller meets the refusal of a named tool at  *)
(* most once per server, however the calls of the threads overlap.         *)
RefusedOnce == \A c \in Callers, e \in Endpoints : refusals[c][e] <= 1

(* The doctor never names a tool, so its report says nothing of a server   *)
(* that takes tools, and refuses a named one in words the client does not  *)
(* know for what they are.                                                 *)
Unforeseen(r) == r.named /\ server[r.ep].named \in {"marker", "other"}

(* doctor.py: "check that a model will actually work for agents".  After a *)
(* clean report that rests on the probes (not one of --no-probe), no call  *)
(* to that endpoint fails, unless the server was down, busy or late, or    *)
(* the refusal of a named tool is one that was not foreseen: one of 400    *)
(* "tool_choice" is, also when every thread hears it for itself.           *)
CleanBillHolds ==
  \A a \in Agents :
    /\ stage = "over" /\ checks = {} /\ setup.probe
    /\ call[Doctor].ep = call[a].ep /\ call[a].ep \in Endpoints
    /\ call[a].at = "ended" /\ ~call[a].troubled /\ ~Unforeseen(call[a])
    => call[a].result \notin Errors

===========================================================================
