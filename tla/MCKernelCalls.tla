-------------------------- MODULE MCKernelCalls --------------------------
EXTENDS KernelCalls

A == INSTANCE AgentPrograms

\* A specialist somebody registers: it tries what a specialist may not do.
Guest == {<<A!Delegate("nova")>>, <<A!Ask("nova")>>,
          <<A!Complete, A!Call("embed", {}), A!Call("embed", {})>>}

Registry == {"adam", "nova", "astra", "pulse", "guest"}
ProgramsOf ==
    [adam  |-> {p \in A!Adam :
                  \/ Len(p) = 3 /\ p[3].on = {"nova", "astra"}
                  \/ Len(p) = 2 /\ p[2].on = {"pulse"}},
     nova  |-> {p \in A!Nova : Len(p) # 4},
     astra |-> A!Astra, pulse |-> A!Pulse, guest |-> Guest]
AllowlistOf == [a \in Registry |-> IF a = "guest" THEN {} ELSE A!ToolsAllowlist[a]]
ConsultsOf  == [a \in Registry |-> IF a = "guest" THEN {"nova"} ELSE A!CanConsult[a]]

Everything == Registry \cup UNION {AllowlistOf[a] : a \in Registry}
                       \cup {"writing", "seo", "social-scheduling"}
\* Everything granted and installed, or Astra not installed, or Nova and the
\* publication disabled.
SnapshotsOf ==
    {[granted |-> Everything, installed |-> Everything],
     [granted |-> Everything, installed |-> Everything \ {"astra"}],
     [granted |-> Everything \ {"nova", "social-publish"}, installed |-> Everything]}
==========================================================================
