---------------------------- MODULE Publishing ---------------------------
(***************************************************************************)
(* A live execution of the social-publish tool: the tool runtime resolves  *)
(* the OAuth material, reading the vault twice, and the tool sends the     *)
(* requests of the platform.  Bundles change at any time meanwhile, by     *)
(* calls that ConnectorVault follows step by step.  Executions share       *)
(* nothing but the vault, which they only read: one is enough.             *)
(*                                                                         *)
(* A dry run returns what it was given.  The approval gate before a live   *)
(* execution, and what becomes of its result, are in ApprovalFlow.         *)
(* Abstracted: texts and ids of posts; a scheduled time is ignored live.   *)
(***************************************************************************)
EXTENDS Naturals, FiniteSets

CONSTANTS
    Platforms,      \* asked for: linkedin, facebook, instagram, any other
    Pages,          \* Facebook pages
    WithInstagram   \* pages with an Instagram business account

None == "none"
Connectors == {"linkedin", "facebook", "instagram"}
Meta == {"facebook", "instagram"}

VARIABLES
    bundle,     \* bundle[p]: [connected, page]: what the vault has for p
    execution,  \* [pc, platform, token, page, told]
    posted      \* [by, on]: the post the platform accepted

vars == <<bundle, execution, posted>>

Bundles(p) == [connected : BOOLEAN, page : IF p \in Meta THEN Pages \cup {None} ELSE {None}]
NoPost == [by |-> None, on |-> None]
Idle == [pc |-> "idle", platform |-> None, token |-> None, page |-> None, told |-> None]

\* oauthProviderForTool: any other platform counts as LinkedIn.
ProviderFor(platform) == IF platform \in Meta THEN platform ELSE "linkedin"

\* A page posts by its own token, else the user's is taken.
TokenOf(b) == IF b.page # None THEN b.page ELSE "user"

Init ==
    /\ bundle \in [Connectors -> {[connected |-> FALSE, page |-> None]}]
    /\ execution = Idle
    /\ posted = NoPost

Go(pc) == execution' = [execution EXCEPT !.pc = pc]

\* The execution throws, or returns; unless its time is up, the caller hears it.
Finish(outcome) ==
    execution' = [execution EXCEPT !.pc = "over", !.told = IF @ = None THEN outcome ELSE @]

\* Someone connects, disconnects or selects a page.
Rewrite(p) ==
    /\ \E b \in Bundles(p) : bundle' = [bundle EXCEPT ![p] = b]
    /\ UNCHANGED <<execution, posted>>

-----------------------------------------------------------------------------
(* ToolRuntime.execute, once a live execution is approved *)

\* resolveAccessToken.
Resolve(platform) ==
    LET b == bundle[ProviderFor(platform)]
        start == [Idle EXCEPT !.platform = platform]
    IN
    /\ execution.pc \in {"idle", "over"}
    /\ execution' =
          IF b.connected
          THEN [start EXCEPT !.pc = IF platform \in Meta THEN "context" ELSE "send",
                             !.token = TokenOf(b)]
          ELSE [start EXCEPT !.pc = "over", !.told = "failed"]
    /\ posted' = NoPost
    /\ UNCHANGED bundle

\* Mutant (PostsAreTheirPages): the token of the first reading is kept.
KeepToken ==
    LET b == bundle[execution.platform] IN
    /\ execution.pc = "context"
    /\ execution' = [execution EXCEPT !.pc = "send", !.page = b.page]
    /\ UNCHANGED <<bundle, posted>>

\* resolveMetaPublishContext reads token and page together, over the first.
Context ==
    LET b == bundle[execution.platform] IN
    /\ execution.pc = "context"
    /\ IF b.connected
       THEN execution' = [execution EXCEPT !.pc = "send", !.token = TokenOf(b), !.page = b.page]
       ELSE Go("send")
    /\ UNCHANGED <<bundle, posted>>

\* withTimeout: the caller is told, the execution goes on.
TimeIsUp ==
    /\ execution.pc \in {"send", "author", "media", "status", "publish"}
    /\ execution.told = None
    /\ execution' = [execution EXCEPT !.told = "timeout"]
    /\ UNCHANGED <<bundle, posted>>

-----------------------------------------------------------------------------
(* social-publish: execute *)

\* The post is accepted, by the token it was sent with.
Accept == posted' = [by |-> execution.token, on |-> execution.page]

\* A platform that is not available, no page, no Instagram account, no image.
Refused ==
    LET page == execution.page IN
    CASE execution.platform = "facebook"  -> page = None
      [] execution.platform = "instagram" -> page \notin WithInstagram
      [] OTHER -> execution.platform # "linkedin"

Send(image) ==
    /\ execution.pc = "send"
    /\ IF Refused THEN Finish("failed")
       ELSE CASE execution.platform = "linkedin" -> Go("author")
              [] execution.platform = "facebook" -> Go("publish")
              [] OTHER -> IF image THEN Go("media") ELSE Finish("failed")
    /\ UNCHANGED <<bundle, posted>>

\* LinkedIn tells who the author is.
Author ==
    /\ execution.pc = "author"
    /\ Go("publish") \/ Finish("failed")
    /\ UNCHANGED <<bundle, posted>>

\* Instagram makes a container of the image ...
Media ==
    /\ execution.pc = "media"
    /\ Go("status") \/ Finish("failed")
    /\ UNCHANGED <<bundle, posted>>

\* ... which is published when it is finished or twelve polls later in any
\* case, but not after an error.
Status ==
    /\ execution.pc = "status"
    /\ Go("publish") \/ Finish("failed")
    /\ UNCHANGED <<bundle, posted>>

\* ugcPosts, feed or media_publish: it may be accepted and its answer lost.
Publish ==
    /\ execution.pc = "publish"
    /\ \/ Accept /\ Finish("published")
       \/ Accept /\ Finish("failed")
       \/ Finish("failed") /\ UNCHANGED posted
    /\ UNCHANGED bundle

Next ==
    \/ \E p \in Connectors : Rewrite(p)
    \/ \E platform \in Platforms : Resolve(platform)
    \/ \E image \in BOOLEAN : Send(image)
    \/ Context \/ TimeIsUp \/ Author \/ Media \/ Status \/ Publish

Spec == Init /\ [][Next]_vars

-----------------------------------------------------------------------------
(* Properties *)

TypeOK ==
    /\ \A p \in Connectors : bundle[p] \in Bundles(p)
    /\ execution.pc \in {"idle", "context", "send", "author", "media", "status", "publish",
                         "over"}
    /\ execution.token \in Pages \cup {"user", None} /\ execution.page \in Pages \cup {None}
    /\ execution.told \in {None, "published", "failed", "timeout"}

\* What is reported as published was posted; and every post on a page, or its
\* Instagram account, was made by the token of that page, whatever happened to
\* the connection between and after the readings of the vault.
PostsAreTheirPages ==
    /\ execution.told = "published" => posted # NoPost
    /\ posted # NoPost => posted.by = IF posted.on = None THEN "user" ELSE posted.on
==========================================================================
