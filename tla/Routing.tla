------------------------------ MODULE Routing ------------------------------
(***************************************************************************)
(* Which chat a reply is taken to.  Every post of a session may carry an   *)
(* identity -- the kind of Copilot surface that posts and, when the caller *)
(* knows it, its chat -- and the store keeps the better of two             *)
(* (application/services/harness.ts).  When a reply arrives the stored     *)
(* identity is filled in from the record (identityOf), from the session's  *)
(* key (enrichWithChatFromKey) or, for sessions of the MCP server, from a  *)
(* search (ChatSessionResolver), and picks the adapter that delivers it.   *)
(*                                                                         *)
(* There are two stores with different callers: the extension's (the       *)
(* notify tool, the two watchers, a test command) and the MCP server's     *)
(* (the server, and the relay that resolves).  The module is of one store, *)
(* and store says which.                                                   *)
(*                                                                         *)
(* A chat is optional everywhere, so it is a set: {} or {c}.  A key is a   *)
(* name a caller made up, or the one a watcher mints for a chat: "chat-"   *)
(* and its id for a local chat, the resource itself for an agent-host one. *)
(* The CLI session id is left out: no caller passes the option that makes  *)
(* canResumeCliSession true, and its adapter is not registered.            *)
(***************************************************************************)
EXTENDS Naturals

CONSTANTS
    Sessions,       \* slots of the store
    Names,          \* keys that callers make up
    LocalChats,     \* chats of the Copilot Chat panel, which write transcripts
    HostChats,      \* Copilot-mode chats, with an agent-host resource
    Launchers,      \* the harnesses that MCP servers were told by their launchers
    FocusedChat     \* whichever chat has the focus: no chat in particular

\* What harnessFromEnv() lets through.  The extension launches a server for VS Code
\* and registers another with the CLI, and both write to the same store; a
\* configuration written by hand, or by an older build, names any or none.
ASSUME LauncherAssumption ==
    Launchers \subseteq {"vscode-agent-mcp", "cli-runtime", "external", "vscode-sidebar", "unknown"}

ASSUME FocusAssumption == FocusedChat \notin LocalChats \cup HostChats

Chats == LocalChats \cup HostChats
Keys == Names \cup Chats
Chat == {{}} \cup {{c} : c \in Chats}

Harnesses == {"vscode-sidebar", "vscode-agent-mcp", "cli-runtime",
              "vscode-agent-host", "external", "unknown"}
Confidences == {"exact", "derived", "unknown"}

\* The surfaces that no adapter of the extension reaches.
Outside == {"cli-runtime", "external"}

Identities == [harness : Harnesses, chat : Chat, confidence : Confidences]

\* A session, or a request, without an identity.
NoIdentity == [harness |-> "none", chat |-> {}, confidence |-> "unknown"]

-----------------------------------------------------------------------------
(* The rules of harness.ts. *)

Rank(identity) == CASE identity.confidence = "exact" -> 2
                    [] identity.confidence = "derived" -> 1
                    [] OTHER -> 0

\* Mutant: the newest identity is kept, however little it knows.
KeepsTheNewest(existing, incoming) == IF incoming = NoIdentity THEN existing ELSE incoming

\* Which of two identities a session keeps; equals follow the move to a chat.
PreferIdentity(existing, incoming) ==
    CASE incoming = NoIdentity -> existing
      [] incoming # NoIdentity /\ existing = NoIdentity -> incoming
      [] OTHER ->
           IF \/ Rank(incoming) > Rank(existing)
              \/ Rank(incoming) = Rank(existing) /\ incoming.chat # {}
           THEN incoming
           ELSE existing

\* The stored identity, filled in from the chat resource of the record.
IdentityOf(identity, resource) ==
    CASE identity # NoIdentity /\ (identity.chat # {} \/ resource = {}) -> identity
      [] identity # NoIdentity /\ identity.chat = {} /\ resource # {} ->
           [harness |-> identity.harness,
            chat |-> resource,
            confidence |-> IF identity.confidence = "unknown" THEN "derived"
                           ELSE identity.confidence]
      [] identity = NoIdentity /\ resource # {} ->
           [harness |-> IF resource \subseteq HostChats THEN "vscode-agent-host"
                        ELSE "vscode-sidebar",
            chat |-> resource,
            confidence |-> "derived"]
      [] OTHER -> [harness |-> "unknown", chat |-> {}, confidence |-> "unknown"]

\* Mutant: the list was not extended with the last harness that was added.
WithoutHosts == {"vscode-sidebar", "vscode-agent-mcp"}

DeliverableHarnesses == {"vscode-sidebar", "vscode-agent-mcp", "vscode-agent-host"}

\* What the thread tells the user about replies.
ReplyReachability(identity) ==
    CASE identity.harness \in DeliverableHarnesses /\ identity.confidence # "unknown" -> "yes"
      [] identity.harness = "unknown" -> "unknown"
      [] OTHER -> "no"

\* Mutant: only what is deliverable is kept.
OnlyDeliverable(identity) == identity.harness \in DeliverableHarnesses

\* Whether a reply that found no chat is kept for another pass.
WorthKeeping(identity) ==
    identity.harness \in {"unknown"} \cup DeliverableHarnesses

ResolvableByTranscript == {"vscode-sidebar", "vscode-agent-mcp", "unknown"}

MayResolveByTranscript(identity) ==
    identity.chat = {} /\ identity.harness \in ResolvableByTranscript

\* The harnesses the sidebar adapter claims, and what it needs to deliver.
SidebarServes == {"vscode-sidebar", "vscode-agent-mcp", "vscode-agent-host"}

CanDeliver(identity) == identity.confidence # "unknown" /\ identity.chat # {}

AdapterFor(identity) ==
    IF identity.harness \in SidebarServes /\ CanDeliver(identity) THEN "sidebar" ELSE "hold"

-----------------------------------------------------------------------------
(* The store. *)

VARIABLES
    store,      \* whose store it is: "extension" or "server"
    record,     \* the sessions: open or closed, with key, identity and resource
    posting,    \* the sessions with a post in flight
    known,      \* the resolver's cache: the chat it found for a session
    named,      \* the chat last named for a session; history, not in the code
    first       \* the harness that was named first for a session; history too

vars == <<store, record, posting, known, named, first>>

Records == [there : {"none", "open", "closed"}, key : Keys,
            identity : Identities \cup {NoIdentity}, resource : Chat]

\* The types of the variables: a record is one of Records whoever wrote it last.
TypeOK ==
    /\ store \in {"extension", "server"}
    /\ record \in [Sessions -> Records]
    /\ posting \subseteq Sessions
    /\ known \in [Sessions -> Chat]
    /\ named \in [Sessions -> Chat]
    /\ first \in [Sessions -> Harnesses \cup {NoIdentity.harness}]

\* A fresh store, or one that an older build left, which recorded no identity.
Init ==
    /\ store \in {"extension", "server"}
    /\ record \in [Sessions -> Records]
    /\ \A s \in Sessions :
         /\ record[s].identity = NoIdentity
         /\ record[s].there = "none" => record[s].resource = {}
    /\ posting = {}
    /\ known = [s \in Sessions |-> {}]
    /\ named = [s \in Sessions |-> record[s].resource]
    /\ first = [s \in Sessions |-> NoIdentity.harness]

Open == {s \in Sessions : record[s].there = "open"}

\* The chat a session is known by when a post looks for its session.
OwnChat(s) == IF record[s].identity.chat # {} THEN record[s].identity.chat
              ELSE record[s].resource

ByChat(chat) == {s \in Open : chat # {} /\ OwnChat(s) = chat}
ByKey(key) == {s \in Open : record[s].key = key}

\* ensureSession: an open session by its id, else by its chat, else by its key.
\* The first of several in the list may be any of them.
Found(key, id, chat) ==
    CASE id \cap Open # {} -> id \cap Open
      [] id \cap Open = {} /\ ByChat(chat) # {} -> ByChat(chat)
      [] OTHER -> ByKey(key)

\* The part of notify() before its post: everything that touches the identity.
\* The post itself may fail; the identity and the resource stay what they became.
Notify(key, id, resource, identity) ==
    \E s \in Sessions :
        LET chat == IF resource # {} THEN resource ELSE identity.chat
            found == Found(key, id, chat)
            fresh == found = {}
            old == [there |-> "open", key |-> key, identity |-> NoIdentity, resource |-> {}]
            base == IF fresh THEN old ELSE record[s]
        IN  /\ IF fresh THEN record[s].there = "none" ELSE s \in found
            /\ record' = [record EXCEPT ![s] =
                 [there |-> "open",
                  key |-> base.key,
                  identity |-> PreferIdentity(base.identity, identity),
                  resource |-> IF resource # {} THEN resource ELSE base.resource]]
            /\ named' = [named EXCEPT ![s] = IF chat # {} THEN chat
                                             ELSE IF fresh THEN {} ELSE @]
            /\ first' = IF fresh \/ first[s] = NoIdentity.harness
                        THEN [first EXCEPT ![s] = identity.harness] ELSE first
            /\ known' = IF fresh THEN [known EXCEPT ![s] = {}] ELSE known
            /\ posting' = posting \cup {s}
            /\ UNCHANGED store

\* The post returns, and reopens the session if it was closed meanwhile; or it fails.
Posted(s) ==
    /\ s \in posting
    /\ record[s].there # "none"
    /\ record' = [record EXCEPT ![s].there = "open"]
    /\ posting' \in {posting, posting \ {s}}
    /\ UNCHANGED <<store, known, named, first>>

PostFails(s) ==
    /\ s \in posting
    /\ posting' \in {posting, posting \ {s}}
    /\ UNCHANGED <<store, record, known, named, first>>

Close(s) ==
    /\ record[s].there = "open"
    /\ record' = [record EXCEPT ![s].there = "closed"]
    /\ UNCHANGED <<store, posting, known, named, first>>

\* A reset drops every session of the extension's store; posts in flight hold
\* sessions that are in no list any more.
Reset ==
    /\ store = "extension"
    /\ record' = [s \in Sessions |-> [record[s] EXCEPT !.there = "none",
                                      !.identity = NoIdentity, !.resource = {}]]
    /\ named' = [s \in Sessions |-> {}]
    /\ first' = [s \in Sessions |-> NoIdentity.harness]
    /\ posting' = {}
    /\ UNCHANGED <<store, known>>

-----------------------------------------------------------------------------
(* The callers of the extension's store. *)

\* Mutant: what the host says is exact, though it named no chat.
AlwaysExact(resource) ==
    [harness |-> IF resource # {} THEN "vscode-sidebar" ELSE "vscode-agent-mcp",
     chat |-> resource, confidence |-> "exact"]

IdentityFrom(resource) ==
    IF resource # {}
    THEN [harness |-> "vscode-sidebar", chat |-> resource, confidence |-> "exact"]
    ELSE [harness |-> "vscode-agent-mcp", chat |-> {}, confidence |-> "unknown"]

\* The notify tool: the model picks key and id, the host may name the chat.
ToolNotifies ==
    \E key \in Keys, id \in {{}} \cup {{s} : s \in Sessions}, resource \in Chat :
        Notify(key, id, resource, IdentityFrom(resource))

\* The transcript watcher announces a local chat under the key it mints.
WatcherAnnounces ==
    \E c \in LocalChats :
        Notify(c, {}, {}, [harness |-> "vscode-sidebar", chat |-> {c}, confidence |-> "exact"])

\* The agent-host watcher announces a Copilot-mode chat: never without the chat.
HostAnnounces ==
    \E c \in HostChats :
        Notify(c, {}, {}, [harness |-> "vscode-agent-host", chat |-> {c}, confidence |-> "exact"])

\* The test command posts without an identity.
TestNotifies == \E key \in Names : Notify(key, {}, {}, NoIdentity)

-----------------------------------------------------------------------------
(* The callers of the MCP server's store. *)

IdentityForNewSession(launcher) ==
    IF launcher = "unknown" THEN NoIdentity
    ELSE [harness |-> launcher, chat |-> {}, confidence |-> "exact"]

ServerNotifies ==
    \E key \in Keys, id \in {{}} \cup {{s} : s \in Sessions}, launcher \in Launchers :
        Notify(key, id, {}, IdentityForNewSession(launcher))

\* The chat a key names.  Only "chat-" and a chat id does: a host resource does not.
KeyChat(key) == IF key \in LocalChats THEN {key} ELSE {}

\* What findChatSessionFor may return: the chat of the newest transcript that
\* called the tool with the session's key or id, or none.
Claims == {{}} \cup {{c} : c \in LocalChats}

\* matchAgentHostSession: the one Copilot-mode session that fits, or none.
MatchAgentHost(fitting) == IF \E c \in fitting : fitting = {c} THEN fitting ELSE {}

\* resolve(): the cache, the transcripts, the index of Copilot-mode chats.
ResolveChat(s, claimed, fitting) ==
    CASE known[s] # {} -> known[s]
      [] known[s] = {} /\ claimed # {} -> claimed
      [] OTHER -> MatchAgentHost(fitting)

\* The relay looks for the chat of a session and writes it back, once.
Resolve(s) ==
    \E claimed \in Claims, fitting \in SUBSET HostChats :
        LET fromKey == KeyChat(record[s].key)
            found == IF fromKey # {} THEN fromKey ELSE ResolveChat(s, claimed, fitting)
        IN  /\ record[s].there = "open"
            /\ record[s].resource = {}
            /\ \/ fromKey # {}
               \/ MayResolveByTranscript(IdentityOf(record[s].identity, {}))
            /\ found # {}
            /\ record' = [record EXCEPT ![s].resource = found]
            /\ known' = IF fromKey # {} THEN known ELSE [known EXCEPT ![s] = found]
            /\ named' = [named EXCEPT ![s] = found]
            /\ UNCHANGED <<store, posting, first>>

Extension == store = "extension"
             /\ (ToolNotifies \/ WatcherAnnounces \/ HostAnnounces \/ TestNotifies)

Server == store = "server" /\ (ServerNotifies \/ \E s \in Sessions : Resolve(s))

Next ==
    \/ Extension
    \/ Server
    \/ Reset
    \/ \E s \in Sessions : Posted(s) \/ PostFails(s) \/ Close(s)

Spec == Init /\ [][Next]_vars

-----------------------------------------------------------------------------
(* Where a reply to a session goes, and what the theorems say of it. *)

\* handOver() fills in the chat that the key names, when nothing else names one.
EnrichWithChatFromKey(s) ==
    IF record[s].resource # {} \/ record[s].identity.chat # {} THEN record[s].resource
    ELSE KeyChat(record[s].key)

Routed(s) == IdentityOf(record[s].identity, EnrichWithChatFromKey(s))

\* The chat the sidebar adapter delivers into, when that is the adapter.
Route(s) == IF AdapterFor(Routed(s)) = "sidebar" THEN Routed(s).chat ELSE {}

\* What the user wants of replies that no adapter can deliver.
UnroutableReplies == {"hold", "focusedChat"}

\* The hold adapter delivers all the same when the user chose so: the injector
\* then reveals the chat on record, or writes to whichever chat has the focus.
DeliverAnyway(s, unroutable) ==
    CASE unroutable = "hold" -> {}
      [] OTHER -> IF EnrichWithChatFromKey(s) # {} THEN EnrichWithChatFromKey(s)
                  ELSE {FocusedChat}

\* Where handOver() takes a reply.
Destination(s, unroutable) ==
    IF AdapterFor(Routed(s)) = "sidebar" THEN Route(s) ELSE DeliverAnyway(s, unroutable)

\* What the session itself says of its chat: the relay asks it whether to give up,
\* and the footer of the session's next message is made from it.
Recorded(s) == IdentityOf(record[s].identity, record[s].resource)

\* What that footer says of replies.
Promise(s) == ReplyReachability(Recorded(s))

Existing == {s \in Sessions : record[s].there # "none"}

\* A reply goes to the chat that was last named for its session, or nowhere.  It
\* goes nowhere only if the user holds such replies and the first server that
\* said where it runs is one outside VS Code: any later caller that knows less
\* takes no chat away (preferIdentity, identityOf, HoldAdapter).
RepliesGoHome ==
    \A s \in Existing, unroutable \in UnroutableReplies :
        named[s] # {} =>
            \/ Destination(s, unroutable) = named[s]
            \/ /\ first[s] \in Outside
               /\ unroutable = "hold"
               /\ Destination(s, unroutable) = {}

\* A thread of the extension that invites replies can deliver them
\* (replyReachability and canDeliver agree).
InvitationsAreKept ==
    store = "extension" => \A s \in Existing : Promise(s) = "yes" => Route(s) # {}

\* A thread that says replies cannot reach Copilot tells the truth to a user who
\* holds such replies, with one exception: a key that names a chat is read only
\* when a reply arrives.  To one who chose the focused chat it does not: the reply
\* is written, to the chat on record if there is one (extension.ts, deliverAnyway).
DenialsAreKept ==
    \A s \in Existing : Promise(s) = "no" =>
        /\ Destination(s, "hold") \subseteq KeyChat(record[s].key)
        /\ Destination(s, "focusedChat") # {}

\* An agent-host identity is never recorded without its chat (types.ts).
HostNamesItsChat ==
    \A s \in Sessions : record[s].identity.harness = "vscode-agent-host"
                            => record[s].identity.chat # {}

\* A reply that was not delivered is given up, by the bridge or by the relay, only
\* for a session that a server outside VS Code was the first to claim, and whose
\* thread says so; of any other the chat may yet be named (worthRetrying).
GivenUpOnlyOutside ==
    \A s \in Existing :
        \/ WorthKeeping(Routed(s)) /\ WorthKeeping(Recorded(s))
        \/ first[s] \in Outside /\ Promise(s) = "no"

=============================================================================
