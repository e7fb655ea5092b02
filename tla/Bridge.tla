------------------------------- MODULE Bridge -------------------------------
(***************************************************************************)
(* The Bridge of src/src/application/bridge.ts and the reply hand-over of  *)
(* src/src/hosts/vscode/extension.ts: one process that owns the mapping    *)
(* session <-> Teams thread, polls the threads, and routes what the user   *)
(* types there to a waiting tool call, to the chat injector, or to the     *)
(* list of held replies.                                                   *)
(*                                                                         *)
(* JavaScript is single threaded, so an action is the code between two     *)
(* awaits.  Every await is a point where any other action may run: the     *)
(* passes of poll(), the callers of waitForReply and of notify, and the    *)
(* running hand-overs interleave.                                          *)
(*                                                                         *)
(* Data.  log is what users wrote in Teams, over all threads, in the order *)
(* of createdAt: a position in it is at once a reply id and a timestamp,   *)
(* and Len(log) is "now".  The bridge's own posts are not in it: the       *)
(* transport filters them out of fetchReplies.  lastActivityAt is kept as  *)
(* quiet, whether the idle window has passed since.                        *)
(***************************************************************************)
EXTENDS Integers, Sequences, FiniteSets

CONSTANTS
    Keys,         \* session keys
    Threads,      \* Teams threads
    NoThread,     \* session.thread is undefined
    MaxSessions,  \* bound: session records ever created
    Waits,        \* waitForReply / waitForAnyReply calls, each made once
    Tick,         \* the pass of poll() that the listener's timer starts
    NoOwner,      \* a hand-over that no pass of poll() awaits
    Posts,        \* notify and postTurnSummary calls in flight at a time
    MaxLog,       \* bound: user messages
    MaxPending,   \* MAX_UNDELIVERED
    HasHandler,   \* TRUE: the extension, FALSE: the MCP server
    Grace,        \* expiredGraceMs > 0
    Calls,        \* the host operations this instance makes
    Outcomes,     \* what an adapter's deliver may return
    Kinds,        \* the kinds of message users write
    Faults        \* what may happen: "idle", "fetch", "post", "reload"

AllCalls == {"notify", "turn", "extend", "activity", "close", "rename",
             "take", "abandon", "stop", "reset"}
AllOutcomes == {"delivered", "held", "abandoned", "unroutable",
                "unreachable", "failed"}

Sessions == 1..MaxSessions
AnySession == 0
WaitKeys == {AnySession} \cup Sessions
Passes == Waits \cup {Tick}
Replies == 1..MaxLog
AllKinds == {"text", "close", "empty"}   \* close: stop, close, done, cancel
Never == -1                           \* lastReplyAt is undefined

ASSUME BridgeAssumption ==
    /\ Keys # {} /\ MaxSessions \in Nat \ {0}
    /\ MaxLog \in Nat /\ MaxPending \in Nat \ {0}
    /\ HasHandler \in BOOLEAN /\ Grace \in BOOLEAN
    /\ NoThread \notin Threads
    /\ Tick \notin Waits /\ NoOwner \notin Passes
    /\ Calls \subseteq AllCalls /\ Outcomes \subseteq AllOutcomes
    /\ Kinds \subseteq AllKinds
    /\ Faults \subseteq {"idle", "fetch", "post", "reload"}

VARIABLES
    log,        \* user messages in Teams
    made,       \* the threads that exist in Teams
    registry,   \* threads.json: the thread claimed for a key
    mem,        \* this.sessions
    disk,       \* the session store
    listening,  \* pollHandle is set
    disposed,
    polling,    \* the flag that admits one reader at a time
    pass,       \* where each pass of poll() is
    waiters,    \* the waiters registered under each key
    call,       \* the state of each wait call
    returning,  \* replies an abandoned wait hands back to dispatch
    post,       \* notify and turn-summary calls awaiting Teams
    claims,     \* delivered.json: reply ids claimed for delivery
    handing,    \* running hand-overs: <<awaiting pass, session, reply>>
    lifecycle,  \* threadLifecycle
    notes,      \* pause and resume notices being posted: <<awaiting pass, kind, thread>>
    chat,       \* history: times a reply was put in a chat
    returned,   \* history: times a reply was returned to a caller
    dropped,    \* history: replies the code gave up on purpose
    ignored,    \* history: posted while the thread was declared unread
    shown,      \* history: what the thread last told the user
    cut,        \* history: in no stored list when the process reloaded
    stranded    \* history: stored, but being handed over at the reload

teams == <<log, made, registry>>
lists == <<mem, disk>>
callers == <<waiters, call, returning>>
delivery == <<claims, handing>>
notices == <<lifecycle, notes>>
history == <<chat, returned, dropped, ignored, shown, cut, stranded>>
flags == <<listening, disposed>>
vars == <<teams, lists, flags, polling, pass, callers, post, delivery,
          notices, history>>

-----------------------------------------------------------------------------
(* Records *)

SessionRec ==
    [live: BOOLEAN, key: Keys, thread: Threads \cup {NoThread},
     closed: BOOLEAN, expired: BOOLEAN, quiet: BOOLEAN,
     mark: Replies \cup {Never, 0},
     seen: SUBSET Replies, pending: SUBSET Replies]

NewSession(k) ==
    [live |-> TRUE, key |-> k, thread |-> NoThread, closed |-> FALSE,
     expired |-> FALSE, quiet |-> FALSE, mark |-> Never,
     seen |-> {}, pending |-> {}]

NoSession == [NewSession(CHOOSE k \in Keys : TRUE) EXCEPT !.live = FALSE]

(* pc: reading, then confirm (resumed notices), deliver, redeliver, warn.  *)
(* todo is what the current loop has left, batch the replies it is         *)
(* dispatching, copied before the awaits; at, since and from are the       *)
(* arguments of the fetch in flight and asked the time it was sent.        *)
PassRec ==
    [pc: {"idle", "reading", "confirm", "deliver", "redeliver", "warn"},
     todo: SUBSET Sessions, at: WaitKeys, since: Replies \cup {Never, 0},
     from: Threads \cup {NoThread}, asked: Replies \cup {0},
     batch: SUBSET (Sessions \X Replies), revived: SUBSET Sessions]

IdlePass ==
    [pc |-> "idle", todo |-> {}, at |-> AnySession, since |-> Never,
     from |-> NoThread, asked |-> 0, batch |-> {}, revived |-> {}]

PostRec ==
    [op: {"none", "notify", "turn"}, s: WaitKeys, t: Threads \cup {NoThread}]

NoPost == [op |-> "none", s |-> AnySession, t |-> NoThread]

-----------------------------------------------------------------------------
(* Helpers *)

(* advanceWatermark *)
AdvanceAlways(mark, at) == at          \* mutant: an older reply moves it back
AdvancePast(mark, at) == at + 1        \* mutant: off by one
Advance(mark, at) == IF at > mark THEN at ELSE mark

Latest(S) == CHOOSE i \in S : \A j \in S : j <= i
First(S) == CHOOSE i \in S : \A j \in S : i <= j
Now == Len(log)

Open(s) == mem[s].live /\ ~mem[s].closed
Active(s) == Open(s) /\ ~mem[s].expired /\ mem[s].thread # NoThread
Live == {s \in Sessions : mem[s].live}
PendingOf(key) ==
    {x \in Sessions \X Replies :
        key \in {AnySession, x[1]} /\ x[2] \in mem[x[1]].pending}

(* The host's handlers.  dispose() clears those of replies; that of expiry *)
(* stays, but posts through the bridge there is then, not the disposed one.*)
Handlers == HasHandler /\ ~disposed

(* p awaits a hand-over or a notice it started. *)
Awaiting(p) == (\E h \in handing : h[1] = p) \/ (\E x \in notes : x[1] = p)

(* JavaScript runs to completion: while a pass has a step to take that     *)
(* awaits nothing outside the process, no timer, answer or call comes in   *)
(* between.                                                                *)
Settled == \A p \in Passes : pass[p].pc \in {"idle", "reading"} \/ Awaiting(p)

(* session lookup by key, which takes the first record, closed or not *)
ByKey(k, s) ==
    /\ mem[s].live /\ mem[s].key = k
    /\ \A u \in Sessions : mem[u].live /\ mem[u].key = k => s <= u

(* ensureSession: the first open session of the key, or a new record *)
Reused(k, s) ==
    /\ Open(s) /\ mem[s].key = k
    /\ \A u \in Sessions : Open(u) /\ mem[u].key = k => s <= u
Created(k, s) ==
    /\ \A u \in Sessions : Open(u) => mem[u].key # k
    /\ ~mem[s].live
    /\ \A u \in Sessions : ~mem[u].live => s <= u

(* persist writes every session as it now is; a no-op step writes nothing. *)
Persist == disk' = mem'

Without(s, r) == [mem EXCEPT ![s].pending = @ \ {r}]

-----------------------------------------------------------------------------
(* Initial state: nothing was ever notified; another process may already  *)
(* have claimed threads for some keys.                                     *)

Init ==
    /\ log = <<>>
    /\ registry \in [Keys -> Threads \cup {NoThread}]
    /\ \A k, l \in Keys : k # l /\ registry[k] = registry[l] => registry[k] = NoThread
    /\ made = {registry[k] : k \in Keys} \ {NoThread}
    /\ mem = [s \in Sessions |-> NoSession] /\ disk = mem
    /\ listening = HasHandler /\ disposed = FALSE
    /\ polling = FALSE /\ pass = [p \in Passes |-> IdlePass]
    /\ waiters = [k \in WaitKeys |-> {}] /\ call = [w \in Waits |-> "ready"]
    /\ returning = {}
    /\ post = [n \in Posts |-> NoPost]
    /\ claims = {} /\ handing = {}
    /\ lifecycle = [t \in Threads |-> "none"] /\ notes = {}
    /\ chat = [r \in Replies |-> 0] /\ returned = chat
    /\ dropped = {} /\ ignored = {} /\ cut = {} /\ stranded = {}
    /\ shown = [t \in Threads |-> "none"]

-----------------------------------------------------------------------------
(* The user and the clock *)

UserPosts(t, kind) ==
    /\ t \in made /\ Len(log) < MaxLog
    /\ log' = Append(log, [thread |-> t, kind |-> kind])
    /\ ignored' = IF shown[t] = "paused" THEN ignored \cup {Len(log) + 1} ELSE ignored
    /\ UNCHANGED <<made, registry, lists, flags, polling, pass, callers, post,
                   delivery, notices, chat, returned, dropped, shown, cut,
                   stranded>>

(* The idle window passes with no activity on session s. *)
IdleElapses(s) ==
    /\ "idle" \in Faults /\ mem[s].live /\ ~mem[s].quiet
    /\ mem' = [mem EXCEPT ![s].quiet = TRUE]
    /\ disk' = [disk EXCEPT ![s].quiet = disk[s].live]
    /\ UNCHANGED <<teams, flags, polling, pass, callers, post, delivery,
                   notices, history>>

-----------------------------------------------------------------------------
(* Held replies *)

(* Mutants of hold: a full list takes nothing more; nothing is written.    *)
HoldWhileRoom(s, r) ==
    /\ mem' = IF Cardinality(mem[s].pending) < MaxPending
              THEN [mem EXCEPT ![s].pending = @ \cup {r}] ELSE mem
    /\ Persist
    /\ UNCHANGED dropped

HoldInMemory(s, r) ==
    /\ mem' = [mem EXCEPT ![s].pending = @ \cup {r}]
    /\ UNCHANGED <<disk, dropped>>

(* hold: keeps a reply in its session's list.  A full list loses an older  *)
(* one; which one depends on the order of holding and is left open.        *)
Hold(s, r) ==
    LET held == mem[s].pending IN
    IF r \in held
    THEN UNCHANGED <<lists, dropped>>
    ELSE /\ \/ /\ Cardinality(held) < MaxPending
               /\ mem' = [mem EXCEPT ![s].pending = @ \cup {r}]
               /\ UNCHANGED dropped
            \/ /\ Cardinality(held) >= MaxPending
               /\ \E e \in held :
                    /\ mem' = [mem EXCEPT ![s].pending = (@ \ {e}) \cup {r}]
                    /\ dropped' = dropped \cup {e}
         /\ Persist

(* release: drops a retained reply once something has acted on it. *)
Release(s, r) ==
    IF r \in mem[s].pending THEN mem' = Without(s, r) /\ Persist
                            ELSE UNCHANGED lists

(* takeUndelivered, for a host that asks without waiting *)
Take(key) ==
    LET taken == PendingOf(key)
        replies == {x[2] : x \in taken} IN
    /\ Settled
    /\ "take" \in Calls /\ ~disposed /\ taken # {}
    /\ mem' = [s \in Sessions |->
                 [mem[s] EXCEPT !.pending = {r \in @ : <<s, r>> \notin taken}]]
    /\ Persist
    /\ returned' = [r \in Replies |-> returned[r] + IF r \in replies THEN 1 ELSE 0]
    /\ UNCHANGED <<teams, flags, polling, pass, callers, post, delivery,
                   notices, chat, dropped, ignored, shown, cut, stranded>>

-----------------------------------------------------------------------------
(* Dispatch *)

(* Mutant: the claim is written but never looked at. *)
HandOverUnclaimed(by, s, r) ==
    /\ claims' = claims \cup {r}
    /\ handing' = handing \cup {<<by, s, r>>}
    /\ UNCHANGED <<lists, dropped>>

(* The start of handOver, up to the adapter's deliver: a closing command   *)
(* is only shown; a reply already claimed is consumed without being        *)
(* delivered; any other one is claimed, and its delivery begins.           *)
HandOver(by, s, r) ==
    \/ /\ log[r].kind = "close"
       /\ dropped' = dropped \cup {r}
       /\ UNCHANGED <<lists, delivery>>
    \/ /\ log[r].kind # "close" /\ r \in claims
       /\ Release(s, r)
       /\ UNCHANGED <<delivery, dropped>>
    \/ /\ log[r].kind # "close" /\ r \notin claims
       /\ claims' = claims \cup {r}
       /\ handing' = handing \cup {<<by, s, r>>}
       /\ UNCHANGED <<lists, dropped>>

(* Mutant: what an abandoned call was given is not handed back. *)
ResolveForGood(w, s, r, back) ==
    /\ waiters' = [k \in WaitKeys |-> waiters[k] \ {w}]
    /\ call' = [call EXCEPT ![w] = "done"]
    /\ returning' = back
    /\ returned' = IF call[w] = "waiting" THEN [returned EXCEPT ![r] = @ + 1] ELSE returned

(* resolveWaiter: the promise is settled.  A call that was abandoned gives *)
(* the reply back; for a call that has ended, settling does nothing.       *)
Resolve(w, s, r, back) ==
    /\ waiters' = [k \in WaitKeys |-> waiters[k] \ {w}]
    /\ call' = [call EXCEPT ![w] = "done"]
    /\ returning' = IF call[w] = "abandoned" THEN back \cup {<<s, r>>} ELSE back
    /\ returned' = IF call[w] = "waiting" THEN [returned EXCEPT ![r] = @ + 1] ELSE returned

(* dispatch: a wait on this session first, then a wait on any, then the    *)
(* host's handler, else the reply is held.  back is what abandoned waits   *)
(* have handed back and is not being dispatched.                           *)
Dispatch(by, s, r, back) ==
    LET takers == IF waiters[s] # {} THEN waiters[s] ELSE waiters[AnySession] IN
    \/ /\ \E w \in takers : Resolve(w, s, r, back)
       /\ UNCHANGED <<lists, delivery, dropped>>
    \/ /\ takers = {} /\ Handlers
       /\ HandOver(by, s, r)
       /\ returning' = back
       /\ UNCHANGED <<waiters, call, returned>>
    \/ /\ takers = {} /\ ~Handlers
       /\ Hold(s, r)
       /\ returning' = back
       /\ UNCHANGED <<waiters, call, delivery, returned>>

-----------------------------------------------------------------------------
(* A pass of poll() *)

(* Mutant: the idle window decides what is read. *)
WatchedUnlessQuiet == {{s \in Sessions : Active(s) /\ ~mem[s].quiet}}

(* watchedSessions: with a grace period every sixth tick also reads the    *)
(* sessions expired within it.                                             *)
Watched ==
    {{s \in Sessions : Active(s)}} \cup
    IF Grace THEN {{s \in Sessions : Open(s) /\ mem[s].thread # NoThread}} ELSE {}

(* The pass reads its next thread.  After the last one it persists and     *)
(* gives the polling flag up, before anything is dispatched.               *)
NextFetch(p, rec) ==
    LET to(pc, todo, at, since, from, asked) ==
          pass' = [pass EXCEPT ![p] =
            [pc |-> pc, todo |-> todo, at |-> at, since |-> since, from |-> from,
             asked |-> asked, batch |-> rec.batch, revived |-> rec.revived]] IN
    \/ /\ rec.todo = {}
       /\ polling' = FALSE
       /\ disk' = mem'
       /\ IF rec.revived = {}
          THEN to("deliver", Sessions, AnySession, Never, NoThread, 0)
          ELSE to("confirm", rec.revived, AnySession, Never, NoThread, 0)
    \/ /\ polling' = TRUE
       /\ UNCHANGED disk
       /\ \E s \in rec.todo :
            to("reading", rec.todo \ {s}, s, mem'[s].mark, mem'[s].thread, Now)

(* Mutant: the flag is not looked at. *)
BeginPassAnyway(p) ==
    /\ UNCHANGED mem
    /\ \E watched \in Watched : NextFetch(p, [IdlePass EXCEPT !.todo = watched])

(* poll: at most one pass reads at a time. *)
BeginPass(p) ==
    /\ ~polling
    /\ UNCHANGED mem
    /\ \E watched \in Watched : NextFetch(p, [IdlePass EXCEPT !.todo = watched])

(* The listener's timer fires.  It is armed again when the whole pass,     *)
(* deliveries included, has settled.                                       *)
TickFires ==
    /\ Settled
    /\ listening /\ ~disposed /\ pass[Tick].pc = "idle"
    /\ BeginPass(Tick)
    /\ UNCHANGED <<teams, flags, callers, post, delivery, notices, history>>

FetchFails(p) ==
    /\ Settled
    /\ "fetch" \in Faults
    /\ pass[p].pc = "reading"
    /\ UNCHANGED mem
    /\ NextFetch(p, pass[p])
    /\ UNCHANGED <<teams, flags, callers, post, delivery, notices, history>>

(* What fetchReplies returned that this session has not seen, when Teams   *)
(* read the thread at time upto.                                           *)
Fresh(p, upto) ==
    {r \in 1..upto : /\ r > pass[p].since
                     /\ log[r].thread = pass[p].from
                     /\ r \notin mem[pass[p].at].seen}

(* The replies are marked seen, the watermark follows, an expired session  *)
(* is revived, a closing command closes it, and what has text is routed    *)
(* once every thread has been read.                                        *)
FetchReads(p, upto) ==
    LET s == pass[p].at
        fresh == Fresh(p, upto)
        said == {r \in fresh : log[r].kind # "empty"} IN
    /\ Settled
    /\ pass[p].pc = "reading"
    /\ mem' = [mem EXCEPT
         ![s].seen = @ \cup fresh,
         ![s].mark = IF fresh = {} THEN @ ELSE Advance(@, Latest(fresh)),
         ![s].quiet = @ /\ said = {},
         ![s].expired = @ /\ said = {},
         ![s].closed = @ \/ \E r \in said : log[r].kind = "close"]
    /\ NextFetch(p, [pass[p] EXCEPT
         !.batch = @ \cup {<<s, r>> : r \in said},
         !.revived = IF mem[s].expired /\ said # {} THEN @ \cup {s} ELSE @])
    /\ UNCHANGED <<teams, flags, callers, post, delivery, notices, history>>

FetchDone(p) == \E upto \in pass[p].asked..Now : FetchReads(p, upto)

(* postExpiryNotice and postResumedNotice up to the await: nothing is      *)
(* posted when the thread's last notice was of the same kind.              *)
BeginNotice(by, kind, s) ==
    LET t == mem[s].thread IN
    notes' = IF t = NoThread \/ lifecycle[t] = kind THEN notes
             ELSE notes \cup {<<by, kind, t>>}

Confirm(p) ==
    /\ pass[p].pc = "confirm" /\ ~Awaiting(p)
    /\ \E s \in pass[p].todo :
         /\ pass' = [pass EXCEPT ![p].todo = IF @ = {s} THEN Sessions ELSE @ \ {s},
                                 ![p].pc = IF pass[p].todo = {s} THEN "deliver" ELSE @]
         /\ BeginNotice(p, "active", s)
    /\ UNCHANGED <<teams, lists, flags, polling, callers, post, delivery,
                   lifecycle, history>>

(* The next reply of the batch; routed ones go in order per session. *)
Deliver(p) ==
    /\ pass[p].pc \in {"deliver", "redeliver"} /\ ~Awaiting(p)
    /\ \E x \in pass[p].batch :
         /\ pass[p].pc = "deliver" => \A y \in pass[p].batch : y[1] = x[1] => x[2] <= y[2]
         /\ pass' = [pass EXCEPT ![p].batch = @ \ {x}]
         /\ Dispatch(p, x[1], x[2], returning)
    /\ UNCHANGED <<teams, flags, polling, post, notices, chat, ignored, shown,
                   cut, stranded>>

(* redeliverRetained: each open session's held replies are copied, then    *)
(* dispatched one after the other.                                         *)
Retained(p) ==
    {s \in pass[p].todo : Open(s) /\ ~mem[s].expired /\ mem[s].pending # {}}

Redeliver(p) ==
    LET s == First(Retained(p)) IN
    /\ pass[p].pc \in {"deliver", "redeliver"} /\ ~Awaiting(p)
    /\ pass[p].batch = {} /\ Retained(p) # {}
    /\ \E r \in mem[s].pending :
         /\ pass' = [pass EXCEPT ![p].pc = "redeliver",
                                 ![p].todo = {u \in @ : u > s},
                                 ![p].batch = {s} \X (mem[s].pending \ {r})]
         /\ Dispatch(p, s, r, returning)
    /\ UNCHANGED <<teams, flags, polling, post, notices, chat, ignored, shown,
                   cut, stranded>>

(* expireIdleSessions, up to the expiry handlers *)
Expiring ==
    {s \in Sessions : Active(s) /\ mem[s].quiet /\ waiters[s] = {} /\ waiters[AnySession] = {}}

Expire(p) ==
    /\ pass[p].pc \in {"deliver", "redeliver"} /\ ~Awaiting(p)
    /\ pass[p].batch = {} /\ Retained(p) = {}
    /\ mem' = [s \in Sessions |-> [mem[s] EXCEPT !.expired = @ \/ s \in Expiring]]
    /\ disk' = IF Expiring = {} THEN disk ELSE mem'
    /\ pass' = [pass EXCEPT ![p] =
                  IF Expiring = {} \/ ~Handlers THEN IdlePass
                  ELSE [IdlePass EXCEPT !.pc = "warn", !.todo = Expiring]]
    /\ UNCHANGED <<teams, flags, polling, callers, post, delivery, notices, history>>

(* The expiry handler, session after session: the pause notice *)
Warn(p) ==
    /\ pass[p].pc = "warn" /\ ~Awaiting(p)
    /\ IF pass[p].todo = {}
       THEN /\ pass' = [pass EXCEPT ![p] = IdlePass]
            /\ UNCHANGED notes
       ELSE /\ pass' = [pass EXCEPT ![p].todo = @ \ {First(pass[p].todo)}]
            /\ BeginNotice(p, "paused", First(pass[p].todo))
    /\ UNCHANGED <<teams, lists, flags, polling, callers, post, delivery,
                   lifecycle, history>>

(* A notice has been posted, or Teams refused it. *)
NoticePosted(x) ==
    /\ Settled
    /\ x \in notes
    /\ notes' = notes \ {x}
    /\ lifecycle' = [lifecycle EXCEPT ![x[3]] = x[2]]
    /\ shown' = [shown EXCEPT ![x[3]] = x[2]]
    /\ disk' = mem
    /\ UNCHANGED <<teams, mem, flags, polling, pass, callers, post, delivery,
                   chat, returned, dropped, ignored, cut, stranded>>

NoticeFails(x) ==
    /\ Settled
    /\ "post" \in Faults /\ x \in notes
    /\ notes' = notes \ {x}
    /\ UNCHANGED <<teams, lists, flags, polling, pass, callers, post, delivery,
                   lifecycle, history>>

(* releaseClaim, after an attempt that put nothing in the chat *)
UnclaimNothing(r) == UNCHANGED claims   \* mutant: the claim outlives its attempt
Unclaim(r) == claims' = claims \ {r}

(* The end of handOver.  Only delivered and held keep the claim;           *)
(* unroutable is retained, unless the harness can never be reached.  The   *)
(* acknowledgement and the unroutable notice write the store when posted.  *)
Noticed == UNCHANGED <<mem, dropped>> /\ Persist

HandOverEnds(h) ==
    LET s == h[2]
        r == h[3] IN
    /\ Settled
    /\ h \in handing
    /\ handing' = handing \ {h}
    /\ \/ /\ "delivered" \in Outcomes \/ "held" \in Outcomes
          /\ chat' = [chat EXCEPT ![r] = @ + 1]
          /\ mem' = Without(s, r)
          /\ Persist \/ (mem' = mem /\ UNCHANGED disk)
          /\ UNCHANGED <<claims, dropped>>
       \/ /\ "abandoned" \in Outcomes
          /\ Unclaim(r) /\ dropped' = dropped \cup {r}
          /\ Release(s, r)
          /\ UNCHANGED chat
       \/ /\ "unroutable" \in Outcomes
          /\ Unclaim(r)
          /\ Hold(s, r) \/ (r \in mem[s].pending /\ Noticed)
          /\ UNCHANGED chat
       \/ /\ "unreachable" \in Outcomes
          /\ Unclaim(r) /\ dropped' = dropped \cup {r}
          /\ UNCHANGED <<mem, chat>> /\ (Persist \/ UNCHANGED disk)
       \/ /\ "failed" \in Outcomes
          /\ Unclaim(r)
          /\ UNCHANGED <<lists, chat, dropped>>
    /\ UNCHANGED <<teams, flags, polling, pass, callers, post, notices,
                   returned, ignored, shown, cut, stranded>>

(* returnUndelivered: what an abandoned wait took is dispatched again. *)
ReturnUndelivered ==
    /\ \E x \in returning : Dispatch(NoOwner, x[1], x[2], returning \ {x})
    /\ UNCHANGED <<teams, flags, polling, pass, post, notices, chat,
                   ignored, shown, cut, stranded>>

-----------------------------------------------------------------------------
(* Callers *)

(* wait: a held reply is returned at once and the others stay held;        *)
(* otherwise the caller is registered and a poll begins, unless one is     *)
(* reading already.                                                        *)
Wait(w, key) ==
    LET held == PendingOf(key) IN
    /\ Settled
    /\ call[w] = "ready" /\ ~disposed
    /\ key \in {AnySession} \cup Live
    /\ \/ \E x \in held :
            /\ \A y \in held : x[2] <= y[2]
            /\ mem' = Without(x[1], x[2]) /\ Persist
            /\ call' = [call EXCEPT ![w] = "done"]
            /\ returned' = [returned EXCEPT ![x[2]] = @ + 1]
            /\ UNCHANGED <<listening, waiters, polling, pass>>
       \/ /\ held = {}
          /\ listening' = TRUE
          /\ waiters' = [waiters EXCEPT ![key] = @ \cup {w}]
          /\ call' = [call EXCEPT ![w] = "waiting"]
          /\ BeginPass(w) \/ (polling /\ UNCHANGED <<lists, polling, pass>>)
          /\ UNCHANGED returned
    /\ UNCHANGED <<teams, disposed, returning, post, delivery, notices, chat,
                   dropped, ignored, shown, cut, stranded>>

(* Mutant: the timer leaves the waiter registered. *)
TimesOutRegistered(w) ==
    /\ Settled
    /\ call[w] \in {"waiting", "abandoned"}
    /\ call' = [call EXCEPT ![w] = "done"]
    /\ UNCHANGED <<teams, lists, flags, polling, pass, waiters, returning, post,
                   delivery, notices, history>>

(* The wait's own timer: nobody is registered for it afterwards. *)
TimesOut(w) ==
    /\ Settled
    /\ call[w] \in {"waiting", "abandoned"}
    /\ call' = [call EXCEPT ![w] = "done"]
    /\ waiters' = [k \in WaitKeys |-> waiters[k] \ {w}]
    /\ UNCHANGED <<teams, lists, flags, polling, pass, returning, post,
                   delivery, notices, history>>

(* The host gives the tool call up; its wait stays registered. *)
Abandon(w) ==
    /\ Settled
    /\ "abandon" \in Calls /\ call[w] = "waiting"
    /\ call' = [call EXCEPT ![w] = "abandoned"]
    /\ UNCHANGED <<teams, lists, flags, polling, pass, waiters, returning, post,
                   delivery, notices, history>>

(* notify, up to the post: the session is found or made, and takes the     *)
(* thread claimed for its key.                                             *)
NotifyBegins(n, k) ==
    \E s \in Sessions :
        LET known == IF Created(k, s) THEN NewSession(k) ELSE mem[s]
            thread == IF known.thread = NoThread THEN registry[k] ELSE known.thread IN
        /\ Settled
        /\ "notify" \in Calls /\ ~disposed /\ post[n].op = "none"
        /\ Reused(k, s) \/ Created(k, s)
        /\ mem' = [mem EXCEPT ![s] = [known EXCEPT !.thread = thread]]
        /\ post' = [post EXCEPT ![n] = [op |-> "notify", s |-> s, t |-> thread]]
        /\ UNCHANGED <<teams, disk, flags, polling, pass, callers, delivery,
                       notices, history>>

(* Teams has answered: postToThread, or createThread for a session that    *)
(* had no thread when the call was made.                                   *)
NotifyEnds(n) ==
    LET s == post[n].s IN
    /\ Settled
    /\ post[n].op = "notify"
    /\ \E t \in Threads :
         /\ IF post[n].t = NoThread THEN t \notin made ELSE t = post[n].t
         /\ made' = made \cup {t}
         /\ registry' = [registry EXCEPT ![mem[s].key] = t]
         /\ shown' = [shown EXCEPT ![t] = "active"]
         /\ mem' = [mem EXCEPT
              ![s].thread = t, ![s].closed = FALSE, ![s].expired = FALSE,
              ![s].quiet = FALSE, ![s].mark = IF @ = Never THEN Now ELSE @]
    /\ Persist
    /\ post' = [post EXCEPT ![n] = NoPost]
    /\ UNCHANGED <<log, flags, polling, pass, callers, delivery, notices, chat,
                   returned, dropped, ignored, cut, stranded>>

(* postTurnSummary, up to the post *)
TurnBegins(n, k) ==
    \E s \in Sessions :
        /\ Settled
        /\ "turn" \in Calls /\ ~disposed /\ post[n].op = "none"
        /\ ByKey(k, s) /\ Open(s) /\ mem[s].thread # NoThread
        /\ post' = [post EXCEPT ![n] = [op |-> "turn", s |-> s, t |-> mem[s].thread]]
        /\ disk' = mem
        /\ UNCHANGED <<teams, mem, flags, polling, pass, callers, delivery,
                       notices, history>>

TurnEnds(n) ==
    LET s == post[n].s IN
    /\ Settled
    /\ post[n].op = "turn"
    /\ mem' = [mem EXCEPT ![s].quiet = FALSE, ![s].expired = FALSE]
    /\ Persist
    /\ shown' = [shown EXCEPT ![post[n].t] = "active"]
    /\ post' = [post EXCEPT ![n] = NoPost]
    /\ UNCHANGED <<teams, flags, polling, pass, callers, delivery, notices,
                   chat, returned, dropped, ignored, cut, stranded>>

PostFails(n) ==
    /\ Settled
    /\ "post" \in Faults /\ post[n].op # "none"
    /\ post' = [post EXCEPT ![n] = NoPost]
    /\ UNCHANGED <<teams, lists, flags, polling, pass, callers, delivery,
                   notices, history>>

(* An expired session that is used again skips what was posted meanwhile. *)
Revived(s) ==
    [mem EXCEPT ![s].quiet = FALSE, ![s].expired = FALSE,
                ![s].mark = IF mem[s].expired THEN Advance(@, Now) ELSE @]

(* extendSession, and the resumed notice its command posts *)
Extend(s) ==
    /\ Settled
    /\ "extend" \in Calls /\ ~disposed /\ Open(s)
    /\ mem' = Revived(s) /\ Persist
    /\ listening' = TRUE
    /\ BeginNotice(NoOwner, "active", s)
    /\ UNCHANGED <<teams, disposed, polling, pass, callers, post, delivery,
                   lifecycle, history>>

(* recordActivity for a turn in the chat of key k, and the resumed notice *)
RecordActivity(k) ==
    \E s \in Sessions :
        /\ Settled
        /\ "activity" \in Calls /\ ~disposed
        /\ ByKey(k, s) /\ Open(s)
        /\ mem' = Revived(s) /\ Persist
        /\ listening' = (listening \/ mem[s].expired)
        /\ IF mem[s].expired THEN BeginNotice(NoOwner, "active", s) ELSE UNCHANGED notes
        /\ UNCHANGED <<teams, disposed, polling, pass, callers, post, delivery,
                       lifecycle, history>>

CloseSession(s) ==
    /\ Settled
    /\ "close" \in Calls /\ ~disposed /\ mem[s].live
    /\ mem' = [mem EXCEPT ![s].closed = TRUE] /\ Persist
    /\ UNCHANGED <<teams, flags, polling, pass, callers, post, delivery,
                   notices, history>>

RenameSession(s) ==
    /\ Settled
    /\ "rename" \in Calls /\ ~disposed /\ mem[s].live
    /\ mem' = [mem EXCEPT ![s].quiet = FALSE] /\ Persist
    /\ UNCHANGED <<teams, flags, polling, pass, callers, post, delivery,
                   notices, history>>

Stop ==
    /\ Settled
    /\ "stop" \in Calls /\ listening
    /\ listening' = FALSE
    /\ UNCHANGED <<teams, lists, disposed, polling, pass, callers, post,
                   delivery, notices, history>>

(* resetLocalState: dispose(), then the store and the shared files go.     *)
(* Settling a waiter removes it from the list dispose() walks, so every    *)
(* second waiter of a list is skipped and is left to its timer.            *)
Reset ==
    /\ Settled
    /\ "reset" \in Calls /\ HasHandler /\ ~disposed
    /\ disposed' = TRUE /\ listening' = FALSE
    /\ waiters' = [k \in WaitKeys |-> {}]
    /\ \E skipped \in SUBSET UNION {waiters[k] : k \in WaitKeys} :
         /\ \A k \in WaitKeys :
              Cardinality(skipped \cap waiters[k]) = Cardinality(waiters[k]) \div 2
         /\ call' = [w \in Waits |-> IF \E k \in WaitKeys : w \in waiters[k] \ skipped
                                    THEN "done" ELSE call[w]]
    /\ disk' = [s \in Sessions |-> NoSession]
    /\ registry' = [k \in Keys |-> NoThread]
    /\ claims' = {}
    /\ UNCHANGED <<log, made, mem, polling, pass, returning, post, handing,
                   notices, history>>

(* The replies only a pass, a hand-over or a returning wait still knows. *)
InFlight == {x[2] : x \in (UNION {pass[p].batch : p \in Passes}) \cup returning}
            \cup {h[3] : h \in handing}

(* publishThreads: the last open session of a key wins. *)
Published ==
    [k \in Keys |->
       LET own == {s \in Sessions : /\ disk[s].live /\ ~disk[s].closed
                                    /\ disk[s].key = k /\ disk[s].thread # NoThread} IN
       IF own = {} THEN registry[k] ELSE disk[Latest(own)].thread]

(* The window is reloaded, or the server restarted: the store is read      *)
(* again, and a host with a handler hands over its whole backlog.  The     *)
(* claim of a hand-over the reload cut short outlives it, so a reply of    *)
(* the backlog that was being handed over is consumed as delivered.        *)
Reload ==
    LET backlog == {x \in Sessions \X Replies : x[2] \in disk[x[1]].pending}
        held == {x[2] : x \in backlog}
        due == {r \in held : log[r].kind # "close" /\ r \notin claims} IN
    /\ Settled
    /\ "reload" \in Faults /\ ~disposed
    /\ IF HasHandler
       THEN /\ mem' = [s \in Sessions |-> [disk[s] EXCEPT !.pending = {}]]
            /\ handing' = {<<NoOwner, First({s \in Sessions : <<s, r>> \in backlog}), r>> : r \in due}
            /\ claims' = claims \cup due
            /\ dropped' = dropped \cup {x[2] : x \in {y \in backlog : log[y[2]].kind = "close"}}
       ELSE mem' = disk /\ handing' = {} /\ UNCHANGED <<claims, dropped>>
    /\ Persist
    /\ cut' = cut \cup (InFlight \ held)
    /\ stranded' = stranded \cup ({h[3] : h \in handing} \cap held)
    /\ listening' = HasHandler /\ polling' = FALSE
    /\ pass' = [p \in Passes |-> IdlePass]
    /\ waiters' = [k \in WaitKeys |-> {}] /\ returning' = {}
    /\ call' = [w \in Waits |-> IF call[w] = "ready" THEN "ready" ELSE "done"]
    /\ post' = [n \in Posts |-> NoPost]
    /\ lifecycle' = [t \in Threads |-> "none"] /\ notes' = {}
    /\ registry' = IF HasHandler THEN Published ELSE registry
    /\ UNCHANGED <<log, made, disposed, chat, returned, ignored, shown>>

-----------------------------------------------------------------------------
Continues(p) == Confirm(p) \/ Deliver(p) \/ Redeliver(p) \/ Expire(p) \/ Warn(p)

Answered ==
    \/ \E p \in Passes : FetchFails(p) \/ FetchDone(p)
    \/ \E h \in handing : HandOverEnds(h)
    \/ \E x \in notes : NoticePosted(x) \/ NoticeFails(x)
    \/ \E n \in Posts : NotifyEnds(n) \/ TurnEnds(n) \/ PostFails(n)

Called ==
    \/ \E w \in Waits : TimesOut(w) \/ Abandon(w)
    \/ \E w \in Waits, key \in WaitKeys : Wait(w, key)
    \/ \E key \in WaitKeys : Take(key)
    \/ \E n \in Posts, k \in Keys : NotifyBegins(n, k) \/ TurnBegins(n, k)
    \/ \E s \in Sessions : Extend(s) \/ CloseSession(s) \/ RenameSession(s)
    \/ \E k \in Keys : RecordActivity(k)
    \/ Stop \/ Reset \/ Reload

Next ==
    \/ \E t \in Threads, kind \in Kinds : UserPosts(t, kind)
    \/ \E s \in Sessions : IdleElapses(s)
    \/ \E p \in Passes : Continues(p)
    \/ ReturnUndelivered
    \/ TickFires \/ Answered \/ Called

Spec == Init /\ [][Next]_vars

-----------------------------------------------------------------------------
(* Properties *)

TeamsType ==
    /\ log \in Seq([thread: Threads, kind: Kinds]) /\ Len(log) <= MaxLog
    /\ made \subseteq Threads
    /\ registry \in [Keys -> Threads \cup {NoThread}]

ListsType == mem \in [Sessions -> SessionRec] /\ disk \in [Sessions -> SessionRec]

FlagsType == listening \in BOOLEAN /\ disposed \in BOOLEAN /\ polling \in BOOLEAN

PassType ==
    /\ pass \in [Passes -> PassRec]
    /\ \A p \in Passes : pass[p].pc = "reading" => pass[p].at # AnySession

CallersType ==
    /\ waiters \in [WaitKeys -> SUBSET Waits]
    /\ call \in [Waits -> {"ready", "waiting", "abandoned", "done"}]
    /\ returning \subseteq Sessions \X Replies

PostType == post \in [Posts -> PostRec]

DeliveryType ==
    /\ claims \subseteq Replies
    /\ handing \subseteq (Passes \cup {NoOwner}) \X Sessions \X Replies

NoticesType ==
    /\ lifecycle \in [Threads -> {"none", "paused", "active"}]
    /\ notes \subseteq (Passes \cup {NoOwner}) \X {"paused", "active"} \X Threads

HistoryType ==
    /\ chat \in [Replies -> Nat] /\ returned \in [Replies -> Nat]
    /\ dropped \subseteq Replies /\ ignored \subseteq Replies
    /\ cut \subseteq Replies /\ stranded \subseteq Replies
    /\ shown \in [Threads -> {"none", "paused", "active"}]

TypeOK ==
    /\ TeamsType /\ ListsType /\ FlagsType /\ PassType /\ CallersType
    /\ PostType /\ DeliveryType /\ NoticesType /\ HistoryType

(* A reply the bridge has marked seen will never be fetched again, so it   *)
(* must be somewhere: delivered, returned, given up on purpose, held, or   *)
(* on its way in a pass, a hand-over or an abandoned wait.                 *)
Accounted(r) ==
    \/ chat[r] > 0 \/ returned[r] > 0
    \/ r \in dropped \cup InFlight
    \/ \E s \in Sessions : r \in mem[s].pending

(* No reply with content is lost once it has been read, with two           *)
(* exceptions, both at a reload: one on its way and in no stored list, and *)
(* a stored one whose hand-over was running, since the claim that          *)
(* hand-over leaves behind makes the next process take it for delivered.   *)
NoReplyLost ==
    \A s \in Sessions : \A r \in mem[s].seen :
        log[r].kind = "empty" \/ r \in cut \cup stranded \/ Accounted(r)

(* A stored reply survives a restart, whatever was happening to it when    *)
(* the process stopped: the store keeps it so that it is not lost.         *)
HeldSurvivesReload ==
    \A s \in Sessions : \A r \in mem[s].seen :
        log[r].kind = "empty" \/ r \in cut \/ Accounted(r)

(* Nor is one lost that was on its way when the process stopped. *)
SurvivesRestart ==
    \A s \in Sessions : \A r \in mem[s].seen : log[r].kind = "empty" \/ Accounted(r)

(* However passes, retries and reloads overlap, the same instruction is    *)
(* never put into a chat a second time by this process.                    *)
InjectedOnce == \A r \in Replies : chat[r] <= 1

(* Two hand-overs of one reply never run side by side. *)
HandedByOne == \A g, h \in handing : g[3] = h[3] => g = h

(* A claim stands for an attempt that is running or that put the reply in  *)
(* a chat, never for one that failed: a claim left behind makes every      *)
(* later attempt believe the reply was delivered.  The exception is the    *)
(* claim of a hand-over that a reload cut short.                           *)
ClaimsCovered ==
    \A r \in claims : \/ chat[r] > 0 \/ r \in cut \cup stranded
                      \/ \E h \in handing : h[3] = r

(* What the process holds is in its store as well, whichever steps wrote   *)
(* the list last, so that a reload finds every held reply again.           *)
HeldOnDisk ==
    disposed \/ \A s \in Sessions : mem[s].pending = disk[s].pending

(* Whoever interleaves, at most one pass reads, and the flag says so: a    *)
(* flag left up would silence the listener for good, a flag taken down     *)
(* early would let two passes read the same replies.                       *)
OneReader ==
    /\ \A p, q \in Passes : pass[p].pc = "reading" /\ pass[q].pc = "reading" => p = q
    /\ polling <=> \E p \in Passes : pass[p].pc = "reading"

(* A waiter that is registered belongs to a call that has not ended, under *)
(* one key only: a stale one would swallow the reply it is offered.  Until *)
(* dispose(), a call that waits is registered.                             *)
WaitersRunning ==
    /\ \A k \in WaitKeys : \A w \in waiters[k] : call[w] \in {"waiting", "abandoned"}
    /\ \A k, l \in WaitKeys : waiters[k] \cap waiters[l] # {} => k = l
    /\ disposed \/ \A w \in Waits :
                     call[w] = "waiting" => \E k \in WaitKeys : w \in waiters[k]

(* A session's watermark never moves back while its record lives, so a     *)
(* reply once skipped or read is not offered again by a later fetch.       *)
MarkForward ==
    [][\A s \in Sessions : mem[s].live /\ mem'[s].live => mem'[s].mark >= mem[s].mark]_mem

(* What was posted while the thread said it was not being read is never    *)
(* acted on.                                                               *)
PausedStayIgnored == \A r \in ignored : chat[r] = 0 /\ returned[r] = 0

(* One instruction is acted on by one consumer, a caller or a chat. *)
ConsumedOnce == \A r \in Replies : chat[r] + returned[r] <= 1

(* No two open sessions read the same thread. *)
OneOwner ==
    \A s, u \in Sessions :
        Open(s) /\ Open(u) /\ mem[s].thread = mem[u].thread /\ mem[s].thread # NoThread
        => s = u

-----------------------------------------------------------------------------
(* Liveness.  The timer fires, each read and each notice is answered or    *)
(* times out, and Teams cannot fail every read for ever.  Nothing is       *)
(* assumed of a hand-over: the commands of VS Code have no timeout, and    *)
(* the injector's fallback waits for the user to close its warning.        *)

Fairness ==
    /\ WF_vars(TickFires)
    /\ \A p \in Passes : /\ WF_vars(Continues(p))
                         /\ WF_vars(FetchFails(p) \/ FetchDone(p))
                         /\ SF_vars(FetchDone(p))
    /\ WF_vars(\E x \in notes : NoticePosted(x) \/ NoticeFails(x))

FairSpec == Spec /\ Fairness

Unread(s, r) ==
    /\ Active(s) /\ r \in 1..Len(log)
    /\ log[r].thread = mem[s].thread /\ r > mem[s].mark

(* The listener's own pass awaits a hand-over that never ends. *)
ListenerStuck ==
    \E s \in Sessions, r \in Replies : <>[](<<Tick, s, r>> \in handing)

(* What a user writes in the thread of an active session is read in the    *)
(* end, whatever failed or overlapped before: no pass keeps the polling    *)
(* flag, and the listener always polls again, unless its own pass waits    *)
(* for ever for one hand-over to end, since the timer is armed again only  *)
(* after that.                                                             *)
EveryReplyRead ==
    ListenerStuck \/ \A s \in Sessions, r \in Replies : Unread(s, r) ~> ~Unread(s, r)

(* Every hand-over ends, whether VS Code ends a command or the user closes *)
(* the fallback's warning, and not every one of them fails.                *)
HandOverSucceeds == \E h \in handing : HandOverEnds(h) /\ chat' # chat
Reaching ==
    /\ WF_vars(\E h \in handing : HandOverEnds(h))
    /\ SF_vars(HandOverSucceeds)

(* When a chat that cannot be reached is reached again and again, a held   *)
(* reply of an active session ends up in it, or with a caller: the retries *)
(* of successive passes neither starve it nor mistake it for delivered.    *)
HeldIsDelivered ==
    Reaching =>
    \A s \in Sessions, r \in Replies :
        r \in mem[s].pending ~> \/ chat[r] > 0 \/ returned[r] > 0
                               \/ r \in dropped \/ ~Active(s)
=============================================================================
