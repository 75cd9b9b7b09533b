-------------------------- MODULE AgentPrograms --------------------------
(***************************************************************************)
(* The shipped agents and skills, each as the set of sequences of kernel   *)
(* calls its handleTask, or its execute, may make when no call fails.      *)
(* What a call carries (prompts, briefs, search queries) is left out, and  *)
(* so are persona.resolve and events.emit, which change nothing here.      *)
(* KernelCalls runs these programs.                                        *)
(***************************************************************************)
EXTENDS Sequences, FiniteSets

Call(c, on) == [call |-> c, on |-> on]

Complete     == Call("complete", {})
Remember     == Call("remember", {})
Recall       == Call("recall", {})
Skill(s)     == Call("skill", {s})
Tool(t)      == Call("tool", {t})
Delegate(a)  == Call("delegate", {a})
Campaign(as) == Call("delegateMany", as)
Ask(a)       == Call("ask", {a})

\* Adam's delegation to Pulse: whatever goes wrong becomes a reply to the user.
TryDelegate(a) == Call("tryDelegate", {a})

-----------------------------------------------------------------------------
(* Skills: the tool first, then the model, except where noted. *)

Optionally(t, rest) == {rest, <<Tool(t)>> \o rest}

Writing         == Optionally("web-search", <<Complete>>)
Analysis        == Optionally("web-search", <<Complete>>)
WatchBrief      == Optionally("web-search", <<Complete>>)
Seo             == {<<Tool("seo-audit")>> \o rest :
                        rest \in Optionally("web-search", <<Complete>>)}
ImageGeneration == {<<Complete>>, <<Complete, Tool("image-generate")>>}
LocalPresence   == {<<Tool("gmb-sync"), Complete>>}
AutomationPlan  == {<<Tool("http-request"), Complete>>}
CrmAssist       == {<<Tool("crm-sync"), Complete>>}
VideoBrief      == {<<Tool("video-pipeline"), Complete>>}
SupportTriage   == {<<Complete>>}
\* A draft published as it is needs no model call.
SocialScheduling == {<<Tool("social-publish")>>,
                     <<Tool("social-publish"), Complete>>}

-----------------------------------------------------------------------------
(* Specialists: recall the brief, invoke the one bound skill, and for some  *)
(* consult a colleague when the task asks for it.                           *)

Specialist(s, body) == {<<Recall, Skill(s)>> \o b : b \in body}
OrThenAsk(programs, a) == programs \cup {p \o <<Ask(a)>> : p \in programs}

Nova  == OrThenAsk({<<Recall>> \o p : p \in Specialist("writing", Writing)}, "astra")
Astra == Specialist("seo", Seo)
Orion == Specialist("analysis", Analysis)
Pixel == Specialist("image-generation", ImageGeneration)
Pulse == Specialist("social-scheduling", SocialScheduling)
Echo  == Specialist("local-presence", LocalPresence)
Nexus == Specialist("automation-plan", AutomationPlan)
Vega  == Specialist("watch-brief", WatchBrief)
Neo   == Specialist("crm-assist", CrmAssist)
Kira  == OrThenAsk(Specialist("support-triage", SupportTriage), "neo")
Nyx   == Specialist("video-brief", VideoBrief)

-----------------------------------------------------------------------------
(* Adam *)

Specialists == {"nova", "orion", "astra", "pixel"}

\* Publish intent: maybe write the post first; without a draft or an image
\* there is nothing to publish.
PublishViaPulse ==
    LET written == {<<>>, <<Complete>>}
    IN  written \cup {w \o <<Remember, TryDelegate("pulse")>> : w \in written}

DirectReply == {<<Complete>>}

\* The heuristic names a specialist or the campaign.
HeuristicPlan ==
    {<<Remember, Delegate(a)>> : a \in Specialists}
        \cup {<<Remember, Campaign({"nova", "astra", "pixel"})>>}

\* The planner model is asked first; it may choose any specialist, any set of
\* them, or nobody, and then the model answers.
LlmPlan ==
    {<<Complete, Remember, Delegate(a)>> : a \in Specialists}
        \cup {<<Complete, Remember, Campaign(as)>> : as \in SUBSET Specialists \ {{}}}
        \cup {<<Complete, Complete>>}

Adam == PublishViaPulse \cup DirectReply \cup HeuristicPlan \cup LlmPlan

Programs ==
    [adam |-> Adam, nova |-> Nova, astra |-> Astra, orion |-> Orion,
     pixel |-> Pixel, pulse |-> Pulse, echo |-> Echo, nexus |-> Nexus,
     vega |-> Vega, neo |-> Neo, kira |-> Kira, nyx |-> Nyx]

-----------------------------------------------------------------------------
(* The registry's stamps: tools an agent may use, colleagues it may consult. *)

ToolsAllowlist ==
    [adam |-> {}, nova |-> {"web-search", "file-read-write"},
     orion |-> {"web-search"}, astra |-> {"seo-audit", "web-search"},
     pixel |-> {"image-generate"}, pulse |-> {"social-publish"},
     echo |-> {"gmb-sync"}, nexus |-> {"http-request"},
     vega |-> {"web-search"}, neo |-> {"crm-sync"}, kira |-> {},
     nyx |-> {"video-pipeline"}]

CanConsult ==
    [adam |-> {}, nova |-> {"astra"}, orion |-> {}, astra |-> {},
     pixel |-> {}, pulse |-> {"nova", "astra"}, echo |-> {"astra"},
     nexus |-> {}, vega |-> {"orion"}, neo |-> {"nova"}, kira |-> {"neo"},
     nyx |-> {"nova", "pixel"}]
==========================================================================
