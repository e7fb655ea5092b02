--------------------------- MODULE RoutingProofs ---------------------------
(***************************************************************************)
(* Theorems about Routing, for any number of sessions, keys and chats.     *)
(* The argument: what a caller may bring (Asked) and what the store may    *)
(* hold (Sound) are the same few shapes of identity, PreferIdentity only   *)
(* chooses between the two, and a caller that names a chat always wins.    *)
(***************************************************************************)
EXTENDS Routing, TLAPS

(* The shapes of identity that are ever recorded. *)
Sound(identity) ==
    \/ identity = NoIdentity
    \/ /\ identity.harness \in SidebarServes
       /\ identity.confidence = "unknown" => identity.chat = {}
       /\ identity.harness = "vscode-agent-host" => identity.chat # {}
    \/ /\ identity.harness \in Outside
       /\ identity.confidence = "exact"
       /\ identity.chat = {}

(* What each store adds to them: the extension trusts no identity without  *)
(* its chat, and the server's callers never name one and are never unsure. *)
OfStore(identity) ==
    /\ store = "extension" => (identity.confidence # "unknown" => identity.chat # {})
    /\ store = "server" => /\ identity.chat = {}
                           /\ identity # NoIdentity => identity.confidence = "exact"

(* The chat that was named last is on record: in the identity, or in the   *)
(* resource that completes it.                                             *)
Homed(r, chat) ==
    chat # {} => \/ r.identity.chat = chat /\ r.identity # NoIdentity
                 \/ r.identity.chat = {} /\ r.resource = chat

(* A session has an identity from the first post that names a harness on,  *)
(* and it is of one outside VS Code only if that first harness was.        *)
Firsts(identity, harness) ==
    /\ identity = NoIdentity <=> harness = NoIdentity.harness
    /\ identity.harness \in Outside => harness = identity.harness

(* What a post may bring. *)
Asked(resource, identity) ==
    /\ resource \in Chat
    /\ identity \in Identities \cup {NoIdentity}
    /\ Sound(identity)
    /\ OfStore(identity)
    /\ resource # {} => identity.chat = resource
    /\ identity.chat # {} => identity.confidence = "exact"

IInv ==
    /\ TypeOK
    /\ \A s \in Sessions : /\ Sound(record[s].identity)
                           /\ OfStore(record[s].identity)
                           /\ Homed(record[s], named[s])
                           /\ Firsts(record[s].identity, first[s])

-----------------------------------------------------------------------------
(* The better of two identities *)

LEMMA PreferChooses ==
    ASSUME NEW e \in Identities \cup {NoIdentity}, NEW i \in Identities \cup {NoIdentity}
    PROVE  PreferIdentity(e, i) \in {e, i}
BY DEF PreferIdentity

(* A caller that knows the chat for certain is followed, whatever was there. *)
LEMMA PreferFollows ==
    ASSUME NEW e \in Identities \cup {NoIdentity}, NEW i \in Identities,
           i.chat # {}, i.confidence = "exact"
    PROVE  PreferIdentity(e, i) = i
<1>1. Rank(i) = 2 /\ Rank(e) \in {0, 1, 2}
  BY DEF Rank
<1>2. Rank(i) > Rank(e) \/ (Rank(i) = Rank(e) /\ i.chat # {})
  BY <1>1
<1>3. i # NoIdentity
  BY DEF NoIdentity
<1> QED BY <1>2, <1>3 DEF PreferIdentity

(* A caller that names no chat and is not certain of anything takes nothing *)
(* from an identity that is there.                                         *)
LEMMA PreferKeeps ==
    ASSUME NEW e \in Identities, NEW i \in Identities \cup {NoIdentity},
           e # NoIdentity, i.chat = {}, i.confidence = "unknown"
    PROVE  PreferIdentity(e, i) = e
<1>1. Rank(i) = 0 /\ Rank(e) \in {0, 1, 2}
  BY DEF Rank
<1>2. ~(Rank(i) > Rank(e)) /\ ~(Rank(i) = Rank(e) /\ i.chat # {})
  BY <1>1
<1> QED BY <1>2 DEF PreferIdentity

-----------------------------------------------------------------------------
(* The callers *)

LEMMA ToolAsks ==
    ASSUME store = "extension", NEW resource \in Chat
    PROVE  Asked(resource, IdentityFrom(resource))
BY DEF Asked, Sound, OfStore, IdentityFrom, Identities, NoIdentity, Harnesses, Confidences,
       SidebarServes, Outside, Chat

LEMMA WatchersAsk ==
    ASSUME store = "extension", NEW c \in Chats, NEW h \in {"vscode-sidebar", "vscode-agent-host"}
    PROVE  Asked({}, [harness |-> h, chat |-> {c}, confidence |-> "exact"])
BY DEF Asked, Sound, OfStore, Identities, NoIdentity, Harnesses, Confidences, SidebarServes, Chat

LEMMA TestAsks ==
    ASSUME store = "extension"
    PROVE  Asked({}, NoIdentity)
BY DEF Asked, Sound, OfStore, NoIdentity, Chat

LEMMA ServerAsks ==
    ASSUME store = "server", NEW launcher \in Launchers
    PROVE  Asked({}, IdentityForNewSession(launcher))
<1>1. launcher \in {"vscode-agent-mcp", "cli-runtime", "external", "vscode-sidebar", "unknown"}
  BY LauncherAssumption
<1> QED BY <1>1 DEF Asked, Sound, OfStore, IdentityForNewSession, Identities, NoIdentity,
          Harnesses, Confidences, SidebarServes, Outside, Chat

-----------------------------------------------------------------------------
(* Posts *)

(* What a post makes of one record keeps its shape and its chat. *)
LEMMA PostKeepsRecord ==
    ASSUME NEW e \in Identities \cup {NoIdentity}, NEW old \in Chat, NEW n \in Chat, NEW i,
           NEW resource, Asked(resource, i), Sound(e), OfStore(e), store \in {"extension", "server"},
           Homed([identity |-> e, resource |-> old], n)
    PROVE  LET chat == IF resource # {} THEN resource ELSE i.chat
               kept == IF resource # {} THEN resource ELSE old
               p == PreferIdentity(e, i)
           IN  /\ p \in Identities \cup {NoIdentity} /\ kept \in Chat /\ chat \in Chat
               /\ Sound(p) /\ OfStore(p)
               /\ Homed([identity |-> p, resource |-> kept], IF chat # {} THEN chat ELSE n)
<1> DEFINE chat == IF resource # {} THEN resource ELSE i.chat
           kept == IF resource # {} THEN resource ELSE old
           p == PreferIdentity(e, i)
<1>1. p \in {e, i} /\ i \in Identities \cup {NoIdentity}
  BY PreferChooses DEF Asked
<1>2. p \in Identities \cup {NoIdentity} /\ kept \in Chat
  BY <1>1 DEF Asked
<1>3. chat \in Chat
  BY DEF Asked, Identities, NoIdentity, Chat
<1>4. Sound(p) /\ OfStore(p)
  BY <1>1 DEF Asked
<1>5. Homed([identity |-> p, resource |-> kept], IF chat # {} THEN chat ELSE n)
  <2>1. CASE chat # {}
    <3>1. i.chat = chat /\ i.confidence = "exact" /\ i \in Identities
      BY <2>1 DEF Asked, NoIdentity
    <3>2. p = i
      BY <3>1, <2>1, PreferFollows
    <3>3. p.chat = chat
      BY <3>1, <3>2
    <3>4. NoIdentity.chat = {}
      BY DEF NoIdentity
    <3> HIDE DEF chat, p, kept
    <3>5. p # NoIdentity
      BY <2>1, <3>3, <3>4
    <3> QED BY <3>3, <3>5, <2>1 DEF Homed
  <2>2. CASE chat = {}
    <3>1. resource = {} /\ i.chat = {} /\ kept = old
      BY <2>2
    <3>2. CASE e.chat = {}
      <4>1. p.chat = {}
        BY <1>1, <3>1, <3>2
      <4>2. n # {} => old = n
        BY <3>2 DEF Homed
      <4> QED BY <4>1, <4>2, <3>1, <2>2 DEF Homed
    <3>3. CASE e.chat # {}
      <4>1. store = "extension" /\ i.confidence = "unknown"
        BY <3>1, <3>3 DEF Asked, OfStore
      <4>2. e \in Identities /\ e # NoIdentity
        BY <3>3 DEF NoIdentity
      <4>3. p = e
        BY <4>1, <4>2, <3>1, <1>1, PreferKeeps
      <4> QED BY <4>2, <4>3, <3>1, <2>2, <3>3 DEF Homed
    <3> QED BY <3>2, <3>3
  <2> QED BY <2>1, <2>2
<1> QED BY <1>2, <1>3, <1>4, <1>5

(* A post that claims a session for a harness outside VS Code only gets its *)
(* way when no harness was named before: all others are as certain.        *)
LEMMA PostKeepsFirst ==
    ASSUME NEW e \in Identities \cup {NoIdentity}, NEW i, NEW resource, Asked(resource, i),
           OfStore(e), store \in {"extension", "server"},
           NEW f, Firsts(e, f)
    PROVE  Firsts(PreferIdentity(e, i), IF f = NoIdentity.harness THEN i.harness ELSE f)
<1> DEFINE none == NoIdentity.harness
<1>1. i \in Identities \cup {NoIdentity} /\ Sound(i) /\ OfStore(i)
  BY DEF Asked
<1>2. \A j \in Identities : j # NoIdentity /\ j.harness # none
  BY DEF Identities, Harnesses, NoIdentity
<1>3. CASE e = NoIdentity
  <2>1. PreferIdentity(e, i) = i /\ f = none
    BY <1>3 DEF PreferIdentity, Firsts
  <2>2. i = NoIdentity <=> i.harness = none
    BY <1>1, <1>2
  <2> QED BY <2>1, <2>2 DEF Firsts
<1>4. CASE e # NoIdentity
  <2>1. f # none /\ e \in Identities
    BY <1>4 DEF Firsts
  <2>2. CASE PreferIdentity(e, i) = e
    BY <2>1, <2>2 DEF Firsts
  <2>3. CASE PreferIdentity(e, i) # e
    <3>1. PreferIdentity(e, i) = i /\ i # NoIdentity
      BY <2>3, <1>4, PreferChooses, <1>1 DEF PreferIdentity
    <3>2. Rank(i) > Rank(e) \/ i.chat # {}
      BY <2>3, <3>1, <1>4 DEF PreferIdentity
    <3>3. i.harness \notin Outside
      <4>1. SUFFICES ASSUME i.harness \in Outside PROVE FALSE
        OBVIOUS
      <4>2. i.chat = {} /\ i.confidence = "exact"
        BY <1>1, <3>1, <4>1 DEF Sound, Outside, SidebarServes
      <4>3. store = "server" /\ e.confidence = "exact"
        BY <1>1, <1>4, <4>2 DEF OfStore
      <4>4. Rank(i) = 2 /\ Rank(e) = 2
        BY <4>2, <4>3 DEF Rank
      <4> QED BY <3>2, <4>2, <4>4
    <3>4. i \in Identities
      BY <1>1, <3>1
    <3> QED BY <3>1, <3>3, <3>4, <2>1, <1>2 DEF Firsts
  <2> QED BY <2>2, <2>3
<1> QED BY <1>3, <1>4

(* notify() keeps the invariant, whatever session it finds or opens. *)
LEMMA NotifyKeeps ==
    ASSUME IInv, NEW key \in Keys, NEW id, NEW resource, NEW i,
           Asked(resource, i), Notify(key, id, resource, i)
    PROVE  IInv'
<1> DEFINE chat == IF resource # {} THEN resource ELSE i.chat
           found == Found(key, id, chat)
           fresh == found = {}
           new == [there |-> "open", key |-> key, identity |-> NoIdentity, resource |-> {}]
           base(s) == IF fresh THEN new ELSE record[s]
           kept(s) == IF resource # {} THEN resource ELSE base(s).resource
           before(s) == IF fresh THEN {} ELSE named[s]
           was(s) == IF fresh THEN NoIdentity.harness ELSE first[s]
<1>1. PICK s \in Sessions :
        /\ record' = [record EXCEPT ![s] =
                [there |-> "open", key |-> base(s).key,
                 identity |-> PreferIdentity(base(s).identity, i), resource |-> kept(s)]]
        /\ named' = [named EXCEPT ![s] = IF chat # {} THEN chat
                                         ELSE IF fresh THEN {} ELSE @]
        /\ first' = IF fresh \/ first[s] = NoIdentity.harness
                    THEN [first EXCEPT ![s] = i.harness] ELSE first
        /\ known' = IF fresh THEN [known EXCEPT ![s] = {}] ELSE known
        /\ posting' = posting \cup {s}
        /\ store' = store
  BY DEF Notify
<1> HIDE DEF chat, found, fresh
<1> DEFINE p == PreferIdentity(base(s).identity, i)
<1>2. {} \in Chat /\ new \in Records
  BY DEF Chat, Records
<1>3. /\ base(s) \in Records /\ before(s) \in Chat
      /\ Sound(base(s).identity) /\ OfStore(base(s).identity)
      /\ Homed([identity |-> base(s).identity, resource |-> base(s).resource], before(s))
      /\ Firsts(base(s).identity, was(s))
  <2>1. CASE fresh
    <3>1. base(s) = new /\ before(s) = {} /\ new.identity = NoIdentity
      BY <2>1
    <3>2. Sound(NoIdentity) /\ OfStore(NoIdentity) /\ Firsts(NoIdentity, NoIdentity.harness)
      BY DEF Sound, OfStore, Firsts, NoIdentity, Outside
    <3> QED BY <2>1, <3>1, <3>2, <1>2 DEF Homed
  <2>2. CASE ~fresh
    BY <2>2 DEF IInv, TypeOK, Homed
  <2> QED BY <2>1, <2>2
<1>4. base(s).identity \in Identities \cup {NoIdentity} /\ base(s).resource \in Chat
      /\ base(s).key \in Keys
  BY <1>3 DEF Records
<1>5. store \in {"extension", "server"}
  BY DEF IInv, TypeOK
<1>6. /\ p \in Identities \cup {NoIdentity} /\ kept(s) \in Chat /\ chat \in Chat
      /\ Sound(p) /\ OfStore(p)
      /\ Homed([identity |-> p, resource |-> kept(s)], IF chat # {} THEN chat ELSE before(s))
  <2> DEFINE e == base(s).identity
             old == base(s).resource
             n == before(s)
  <2>1. /\ e \in Identities \cup {NoIdentity} /\ old \in Chat /\ n \in Chat
        /\ Sound(e) /\ OfStore(e) /\ Homed([identity |-> e, resource |-> old], n)
    BY <1>3, <1>4
  <2> HIDE DEF e, old, n
  <2>2. LET c == IF resource # {} THEN resource ELSE i.chat
            k == IF resource # {} THEN resource ELSE old
            q == PreferIdentity(e, i)
        IN  /\ q \in Identities \cup {NoIdentity} /\ k \in Chat /\ c \in Chat
            /\ Sound(q) /\ OfStore(q)
            /\ Homed([identity |-> q, resource |-> k], IF c # {} THEN c ELSE n)
    BY <2>1, <1>5, PostKeepsRecord
  <2> QED BY <2>2 DEF chat, e, old, n
<1>7. Firsts(p, IF was(s) = NoIdentity.harness THEN i.harness ELSE was(s))
  <2> DEFINE e == base(s).identity
             f == was(s)
  <2>1. e \in Identities \cup {NoIdentity} /\ OfStore(e) /\ Firsts(e, f)
    BY <1>3, <1>4
  <2> HIDE DEF e, f
  <2>2. Firsts(PreferIdentity(e, i), IF f = NoIdentity.harness THEN i.harness ELSE f)
    BY <2>1, <1>5, PostKeepsFirst
  <2> QED BY <2>2 DEF e, f
<1>8. i.harness \in Harnesses \cup {NoIdentity.harness}
  BY DEF Asked, Identities
<1>9. /\ first'[s] = (IF was(s) = NoIdentity.harness THEN i.harness ELSE was(s))
       /\ first' \in [Sessions -> Harnesses \cup {NoIdentity.harness}]
       /\ \A t \in Sessions : t # s => first'[t] = first[t]
  BY <1>1, <1>8 DEF IInv, TypeOK
<1>10. named'[s] = (IF chat # {} THEN chat ELSE before(s)) /\ named' \in [Sessions -> Chat]
  BY <1>1, <1>2, <1>6 DEF IInv, TypeOK
<1>11. record'[s].identity = p /\ record'[s].resource = kept(s) /\ record'[s] \in Records
  BY <1>1, <1>4, <1>6 DEF IInv, TypeOK, Records
<1>12. \A t \in Sessions : t # s => record'[t] = record[t] /\ named'[t] = named[t]
  BY <1>1 DEF IInv, TypeOK
<1>13. record' \in [Sessions -> Records]
  BY <1>1, <1>11, <1>12 DEF IInv, TypeOK
<1>14. TypeOK'
  BY <1>1, <1>2, <1>10, <1>13, <1>9 DEF IInv, TypeOK
<1>15. ASSUME NEW t \in Sessions
       PROVE  (Sound(record[t].identity) /\ OfStore(record[t].identity)
               /\ Homed(record[t], named[t]) /\ Firsts(record[t].identity, first[t]))'
  <2>1. CASE t = s
    BY <2>1, <1>1, <1>6, <1>10, <1>11, <1>7, <1>9 DEF Sound, OfStore, Homed, Firsts
  <2>2. CASE t # s
    BY <2>2, <1>1, <1>12, <1>9 DEF IInv, Sound, OfStore, Homed, Firsts
  <2> QED BY <2>1, <2>2
<1> QED BY <1>14, <1>15 DEF IInv

-----------------------------------------------------------------------------
(* The inductive invariant *)

LEMMA InitHolds == Init => IInv
<1> SUFFICES ASSUME Init PROVE IInv
  OBVIOUS
<1>1. TypeOK
  BY DEF Init, TypeOK, Chat, Records
<1>2. ASSUME NEW s \in Sessions
      PROVE  Sound(record[s].identity) /\ OfStore(record[s].identity) /\ Homed(record[s], named[s])
             /\ Firsts(record[s].identity, first[s])
  BY DEF Init, Sound, OfStore, Homed, Firsts, Outside, NoIdentity
<1> QED BY <1>1, <1>2 DEF IInv

LEMMA ExtensionKeeps == IInv /\ Extension => IInv'
<1> SUFFICES ASSUME IInv, Extension PROVE IInv'
  OBVIOUS
<1>1. store = "extension"
  BY DEF Extension
<1>2. CASE ToolNotifies
  BY <1>1, <1>2, ToolAsks, NotifyKeeps DEF ToolNotifies
<1>3. CASE WatcherAnnounces
  <2>1. PICK c \in LocalChats :
          Notify(c, {}, {}, [harness |-> "vscode-sidebar", chat |-> {c}, confidence |-> "exact"])
    BY <1>3 DEF WatcherAnnounces
  <2>2. c \in Chats /\ c \in Keys
    BY DEF Chats, Keys
  <2> QED BY <1>1, <2>1, <2>2, WatchersAsk, NotifyKeeps
<1>4. CASE HostAnnounces
  <2>1. PICK c \in HostChats :
          Notify(c, {}, {}, [harness |-> "vscode-agent-host", chat |-> {c}, confidence |-> "exact"])
    BY <1>4 DEF HostAnnounces
  <2>2. c \in Chats /\ c \in Keys
    BY DEF Chats, Keys
  <2> QED BY <1>1, <2>1, <2>2, WatchersAsk, NotifyKeeps
<1>5. CASE TestNotifies
  BY <1>1, <1>5, TestAsks, NotifyKeeps DEF TestNotifies, Keys
<1> QED BY <1>2, <1>3, <1>4, <1>5 DEF Extension

(* The relay writes a chat only where the record has none. *)
LEMMA ResolveKeeps ==
    ASSUME IInv, store = "server", NEW s \in Sessions, Resolve(s)
    PROVE  IInv'
<1>1. PICK claimed \in Claims, fitting \in SUBSET HostChats :
        LET fromKey == KeyChat(record[s].key)
            found == IF fromKey # {} THEN fromKey ELSE ResolveChat(s, claimed, fitting)
        IN  /\ record' = [record EXCEPT ![s].resource = found]
            /\ known' = IF fromKey # {} THEN known ELSE [known EXCEPT ![s] = found]
            /\ named' = [named EXCEPT ![s] = found]
            /\ store' = store /\ posting' = posting /\ first' = first
  BY DEF Resolve
<1> DEFINE fromKey == KeyChat(record[s].key)
           found == IF fromKey # {} THEN fromKey ELSE ResolveChat(s, claimed, fitting)
<1>2. found \in Chat
  <2>1. fromKey \in Chat /\ claimed \in Chat
    BY DEF KeyChat, Claims, Chat, Chats
  <2>2. MatchAgentHost(fitting) \in Chat
    <3>1. CASE \E c \in fitting : fitting = {c}
      BY <3>1 DEF MatchAgentHost, Chat, Chats
    <3>2. CASE ~\E c \in fitting : fitting = {c}
      BY <3>2 DEF MatchAgentHost, Chat
    <3> QED BY <3>1, <3>2
  <2>3. known[s] \in Chat
    BY DEF IInv, TypeOK
  <2>4. ResolveChat(s, claimed, fitting) \in {known[s], claimed, MatchAgentHost(fitting)}
    BY DEF ResolveChat
  <2> QED BY <2>1, <2>2, <2>3, <2>4
<1>3. /\ record' = [record EXCEPT ![s].resource = found]
      /\ known' \in [Sessions -> Chat]
      /\ named' = [named EXCEPT ![s] = found]
      /\ store' = store /\ posting' = posting /\ first' = first
  BY <1>1, <1>2 DEF IInv, TypeOK
<1> HIDE DEF found
<1>4. record[s] \in Records
  BY DEF IInv, TypeOK
<1>5. record'[s] \in Records /\ record'[s].identity = record[s].identity
      /\ record'[s].resource = found
  BY <1>2, <1>3, <1>4 DEF IInv, TypeOK, Records
<1>6. \A t \in Sessions : t # s => record'[t] = record[t] /\ named'[t] = named[t]
  BY <1>3 DEF IInv, TypeOK
<1>7. record' \in [Sessions -> Records] /\ named' \in [Sessions -> Chat] /\ named'[s] = found
  BY <1>2, <1>3, <1>5, <1>6 DEF IInv, TypeOK
<1>8. TypeOK'
  BY <1>3, <1>7 DEF IInv, TypeOK
<1>9. record[s].identity.chat = {}
  BY DEF IInv, OfStore
<1>10. ASSUME NEW t \in Sessions
       PROVE  (Sound(record[t].identity) /\ OfStore(record[t].identity)
               /\ Homed(record[t], named[t]) /\ Firsts(record[t].identity, first[t]))'
  <2>1. CASE t = s
    BY <2>1, <1>3, <1>5, <1>7, <1>9 DEF IInv, Sound, OfStore, Homed, Firsts
  <2>2. CASE t # s
    BY <2>2, <1>3, <1>6 DEF IInv, Sound, OfStore, Homed, Firsts
  <2> QED BY <2>1, <2>2
<1> QED BY <1>8, <1>10 DEF IInv

LEMMA ServerKeeps == IInv /\ Server => IInv'
<1> SUFFICES ASSUME IInv, Server PROVE IInv'
  OBVIOUS
<1>1. store = "server"
  BY DEF Server
<1>2. CASE ServerNotifies
  BY <1>1, <1>2, ServerAsks, NotifyKeeps DEF ServerNotifies
<1>3. CASE \E s \in Sessions : Resolve(s)
  BY <1>1, <1>3, ResolveKeeps
<1> QED BY <1>2, <1>3 DEF Server

(* What only opens or closes a record leaves its identity alone. *)
LEMMA OthersKeep ==
    ASSUME IInv, NEW s \in Sessions, Posted(s) \/ PostFails(s) \/ Close(s)
    PROVE  IInv'
<1>1. CASE PostFails(s)
  BY <1>1 DEF PostFails, IInv, TypeOK, Sound, OfStore, Homed, Firsts
<1>2. CASE Posted(s) \/ Close(s)
  <2>1. PICK there \in {"open", "closed"} :
          /\ record' = [record EXCEPT ![s].there = there]
          /\ posting' \subseteq Sessions
          /\ store' = store /\ known' = known /\ named' = named /\ first' = first
    BY <1>2 DEF Posted, Close, IInv, TypeOK
  <2>2. record[s] \in Records
    BY DEF IInv, TypeOK
  <2>3. record'[s] \in Records
    BY <2>1, <2>2 DEF IInv, TypeOK, Records
  <2>4. \A t \in Sessions : record'[t].identity = record[t].identity
                           /\ record'[t].resource = record[t].resource
    BY <2>1 DEF IInv, TypeOK, Records
  <2>5. \A t \in Sessions : t # s => record'[t] = record[t]
    BY <2>1 DEF IInv, TypeOK
  <2>6. record' \in [Sessions -> Records]
    BY <2>1, <2>3, <2>5 DEF IInv, TypeOK
  <2>7. TypeOK'
    BY <2>1, <2>6 DEF IInv, TypeOK
  <2> QED BY <2>1, <2>4, <2>7 DEF IInv, Sound, OfStore, Homed, Firsts
<1> QED BY <1>1, <1>2

LEMMA ResetKeeps == IInv /\ Reset => IInv'
<1> SUFFICES ASSUME IInv, Reset PROVE IInv'
  OBVIOUS
<1>1. \A s \in Sessions : record[s] \in Records
  BY DEF IInv, TypeOK
<1>2. \A s \in Sessions : [record[s] EXCEPT !.there = "none", !.identity = NoIdentity,
                                              !.resource = {}] \in Records
  BY <1>1 DEF Records, Chat
<1>3. TypeOK'
  BY <1>2 DEF Reset, IInv, TypeOK, Chat
<1>4. \A s \in Sessions : record'[s].identity = NoIdentity /\ named'[s] = {}
                           /\ first'[s] = NoIdentity.harness
  BY <1>1 DEF Reset, Records
<1> QED BY <1>3, <1>4 DEF IInv, Sound, OfStore, Homed, Firsts, Outside, NoIdentity

LEMMA NextKeeps == IInv /\ [Next]_vars => IInv'
<1> SUFFICES ASSUME IInv, [Next]_vars PROVE IInv'
  OBVIOUS
<1>1. CASE Extension
  BY <1>1, ExtensionKeeps
<1>2. CASE Server
  BY <1>2, ServerKeeps
<1>3. CASE Reset
  BY <1>3, ResetKeeps
<1>4. CASE \E s \in Sessions : Posted(s) \/ PostFails(s) \/ Close(s)
  BY <1>4, OthersKeep
<1>5. CASE UNCHANGED vars
  BY <1>5 DEF vars, IInv, TypeOK, Sound, OfStore, Homed, Firsts
<1> QED BY <1>1, <1>2, <1>3, <1>4, <1>5 DEF Next

LEMMA AlwaysIInv == Spec => []IInv
<1> QED BY InitHolds, NextKeeps, PTL DEF Spec

-----------------------------------------------------------------------------
(* What follows of where replies go *)

(* The chat on record is where a reply goes, when an adapter serves the    *)
(* session's harness; otherwise the hold adapter has it.                   *)
LEMMA HomedIsHome == IInv => RepliesGoHome
<1> SUFFICES ASSUME IInv, NEW s \in Existing, NEW u \in UnroutableReplies, named[s] # {}
             PROVE  \/ Destination(s, u) = named[s]
                    \/ first[s] \in Outside /\ u = "hold" /\ Destination(s, u) = {}
  BY DEF RepliesGoHome
<1> DEFINE e == record[s].identity
<1>1. s \in Sessions /\ Sound(e) /\ Homed(record[s], named[s]) /\ Firsts(e, first[s])
  BY DEF IInv, Existing
<1>2. CASE e.chat = named[s] /\ e # NoIdentity
  <2>1. Routed(s) = e
    BY <1>2 DEF Routed, IdentityOf
  <2>2. e.harness \in SidebarServes /\ e.confidence # "unknown"
    BY <1>1, <1>2 DEF Sound
  <2> QED BY <1>2, <2>1, <2>2 DEF Destination, Route, AdapterFor, CanDeliver
<1>3. CASE e.chat = {} /\ record[s].resource = named[s]
  <2>1. EnrichWithChatFromKey(s) = named[s]
    BY <1>3 DEF EnrichWithChatFromKey
  <2>2. Routed(s).chat = named[s] /\ Routed(s).confidence # "unknown"
    BY <1>3, <2>1 DEF Routed, IdentityOf
  <2>3. CASE e.harness \notin Outside
    <3>1. Routed(s).harness \in SidebarServes
      BY <1>1, <1>3, <2>1, <2>3 DEF Routed, IdentityOf, Sound, SidebarServes, NoIdentity
    <3> QED BY <2>2, <3>1 DEF Destination, Route, AdapterFor, CanDeliver
  <2>4. CASE e.harness \in Outside
    <3>1. first[s] \in Outside /\ e # NoIdentity
      BY <1>1, <2>4 DEF Firsts, NoIdentity, Outside
    <3>2. Routed(s).harness = e.harness
      BY <1>3, <2>1, <3>1 DEF Routed, IdentityOf
    <3>3. AdapterFor(Routed(s)) = "hold"
      BY <3>2, <2>4 DEF AdapterFor, Outside, SidebarServes
    <3>4. Destination(s, u) = DeliverAnyway(s, u)
      BY <3>3 DEF Destination
    <3>5. CASE u = "hold"
      BY <3>1, <3>4, <3>5 DEF DeliverAnyway
    <3>6. CASE u = "focusedChat"
      BY <2>1, <3>4, <3>6 DEF DeliverAnyway
    <3> QED BY <3>5, <3>6 DEF UnroutableReplies
  <2> QED BY <2>3, <2>4
<1> QED BY <1>1, <1>2, <1>3 DEF Homed

LEMMA InvitedIsRouted == IInv => InvitationsAreKept
<1> SUFFICES ASSUME IInv, store = "extension", NEW s \in Existing, Promise(s) = "yes"
             PROVE  Route(s) # {}
  BY DEF InvitationsAreKept
<1> DEFINE e == record[s].identity
           i == IdentityOf(e, record[s].resource)
<1>1. s \in Sessions /\ Sound(e) /\ OfStore(e)
  BY DEF IInv, Existing
<1>2. i.harness \in SidebarServes /\ i.confidence # "unknown"
  BY DEF Promise, Recorded, ReplyReachability, DeliverableHarnesses, SidebarServes
<1>3. i.chat # {}
  BY <1>1, <1>2 DEF IdentityOf, OfStore, NoIdentity
<1>4. Routed(s) = i
  <2>1. e.chat # {} \/ record[s].resource # {}
    BY <1>3 DEF IdentityOf
  <2> QED BY <2>1 DEF Routed, EnrichWithChatFromKey
<1> QED BY <1>2, <1>3, <1>4 DEF Route, AdapterFor, CanDeliver

LEMMA DeniedIsHeld == IInv => DenialsAreKept
<1> SUFFICES ASSUME IInv, NEW s \in Existing, Promise(s) = "no"
             PROVE  /\ Destination(s, "hold") \subseteq KeyChat(record[s].key)
                    /\ Destination(s, "focusedChat") # {}
  BY DEF DenialsAreKept
<1> DEFINE e == record[s].identity
<1>1. s \in Sessions /\ Sound(e)
  BY DEF IInv, Existing
<1>2. Destination(s, "focusedChat") # {}
  BY DEF Destination, DeliverAnyway, Route, AdapterFor, CanDeliver
<1>3. CASE e.harness \in Outside
  <2>1. Routed(s).harness = e.harness
    BY <1>3 DEF Routed, IdentityOf, NoIdentity, Outside
  <2>2. AdapterFor(Routed(s)) = "hold"
    BY <1>3, <2>1 DEF AdapterFor, SidebarServes, Outside
  <2> QED BY <1>2, <2>2 DEF Destination, DeliverAnyway
<1>4. CASE e.harness \notin Outside
  <2>1. e # NoIdentity /\ e.confidence = "unknown" /\ e.chat = {} /\ record[s].resource = {}
    BY <1>1, <1>4 DEF Promise, Recorded, ReplyReachability, IdentityOf, Sound,
                      DeliverableHarnesses, SidebarServes
  <2>2. Routed(s).chat = KeyChat(record[s].key)
    BY <2>1 DEF Routed, EnrichWithChatFromKey, IdentityOf
  <2> QED BY <1>2, <2>2 DEF Destination, DeliverAnyway, Route
<1> QED BY <1>3, <1>4

(* Of every harness but those outside VS Code a reply is worth keeping, and *)
(* of those the thread says no.                                            *)
LEMMA GivenUpIsOutside == IInv => GivenUpOnlyOutside
<1> SUFFICES ASSUME IInv, NEW s \in Existing
             PROVE  \/ WorthKeeping(Routed(s)) /\ WorthKeeping(Recorded(s))
                    \/ first[s] \in Outside /\ Promise(s) = "no"
  BY DEF GivenUpOnlyOutside
<1> DEFINE e == record[s].identity
<1>1. s \in Sessions /\ Sound(e) /\ Firsts(e, first[s])
  BY DEF IInv, Existing
<1>2. CASE e.harness \notin Outside
  BY <1>1, <1>2 DEF WorthKeeping, DeliverableHarnesses, Routed, Recorded, IdentityOf, Sound,
                    SidebarServes
<1>3. CASE e.harness \in Outside
  <2>1. first[s] \in Outside /\ e # NoIdentity
    BY <1>1, <1>3 DEF Firsts, NoIdentity, Outside
  <2>2. Recorded(s).harness = e.harness
    BY <2>1 DEF Recorded, IdentityOf
  <2> QED BY <1>3, <2>1, <2>2 DEF Promise, ReplyReachability, DeliverableHarnesses, Outside
<1> QED BY <1>2, <1>3

-----------------------------------------------------------------------------
(* Theorems *)

(* Every record is one the store can hold. *)
THEOREM RoutingTypeCorrect == Spec => []TypeOK
<1>1. IInv => TypeOK
  BY DEF IInv
<1> QED BY <1>1, AlwaysIInv, PTL

(* A reply goes to the chat that was last named for its session, or it is   *)
(* held for a session that a server outside VS Code claimed first: no later *)
(* caller that knows less diverts it or makes it undeliverable.            *)
THEOREM RepliesAlwaysGoHome == Spec => []RepliesGoHome
BY HomedIsHome, AlwaysIInv, PTL

(* What the extension's threads invite, its adapters can deliver. *)
THEOREM InvitationsAreAlwaysKept == Spec => []InvitationsAreKept
BY InvitedIsRouted, AlwaysIInv, PTL

(* Where the thread says that replies do not arrive, none does while the    *)
(* user holds such replies, except in the chat that the session's key names. *)
THEOREM DenialsAreAlwaysKept == Spec => []DenialsAreKept
BY DeniedIsHeld, AlwaysIInv, PTL

(* No reply is dropped for want of a chat, except one to a session that a   *)
(* server outside VS Code claimed first, in a thread that says so.         *)
THEOREM OnlyOutsideIsGivenUp == Spec => []GivenUpOnlyOutside
BY GivenUpIsOutside, AlwaysIInv, PTL

(* An agent-host identity never stands without its chat, on which its place *)
(* among the deliverable harnesses relies.                                 *)
THEOREM HostsNameTheirChat == Spec => []HostNamesItsChat
<1>1. IInv => HostNamesItsChat
  BY DEF IInv, HostNamesItsChat, Sound, NoIdentity, Outside
<1> QED BY <1>1, AlwaysIInv, PTL

=============================================================================
