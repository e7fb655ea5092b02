------------------------------ MODULE McpServer ------------------------------
(***************************************************************************)
(* The MCP server (hosts/mcp/server.ts, stdio.ts): tool calls of the       *)
(* agents of one client arrive as JSON-RPC requests, and may be cancelled  *)
(* while they run.  Of its Bridge it has what the calls use: sessions,     *)
(* undelivered replies, registered waits.  A reply is routed to a wait or  *)
(* to the undelivered ones as soon as a pass reads it; no host in this     *)
(* process handles replies otherwise.                                      *)
(*                                                                         *)
(* A call runs up to its next await in one step.                           *)
(***************************************************************************)
EXTENDS Naturals, Sequences, FiniteSets

CONSTANTS
    Requests,      \* tools/call requests, each with an id of its own
    Keys,          \* session keys
    MaxSessions,   \* bound: sessions ever opened
    MaxReplies,    \* bound: replies read from Teams
    Tools,         \* the tools this instance is asked for
    None

Sessions == 1 .. MaxSessions
AnySession == 0    \* ANY_SESSION
Replies == 1 .. MaxReplies
AllTools == {"notify", "notifyWait", "check", "checkWait", "list", "other"}

ASSUME McpServerAssumption ==
    /\ MaxSessions \in Nat \ {0} /\ MaxReplies \in Nat \ {0}
    /\ Tools \subseteq AllTools
    /\ None \notin Keys

VARIABLES
    bound,       \* boundSessionKey
    delegated,
    sessions,    \* the Bridge's sessions: key and closed, oldest first
    log,         \* the session of each reply that was read, oldest first
    queue,       \* the replies of each session that are undelivered
    waiters,     \* registered waits, by session, first come first
    call,        \* where each request stands
    running,     \* the process is up
    given,       \* history: the replies each answer contained
    answers,     \* history: the answers each request was sent
    missed,      \* history: replies a call had in hand when it was cancelled too late
                 \*          to give them back
    cut          \* history: replies in hand when the process ended or the store threw

history == <<given, answers, missed, cut>>
vars == <<bound, delegated, sessions, log, queue, waiters, call, running, history>>

\* pc: unsent; posting (notify awaits Teams); waiting (a wait is registered);
\* woken (its promise is settled); polling (check awaits a pass); acking
\* (acknowledgeReply awaits Teams); done.
Call == [pc : {"unsent", "posting", "waiting", "woken", "polling", "acking", "done"},
         tool : AllTools \union {None}, key : Keys \union {None},
         scope : Sessions \union {AnySession, None},
         got : SUBSET Replies, unacked : SUBSET Replies, cancelled : BOOLEAN]

Unsent == [pc |-> "unsent", tool |-> None, key |-> None, scope |-> None,
           got |-> {}, unacked |-> {}, cancelled |-> FALSE]

Known == DOMAIN sessions
Open == {s \in Known : ~sessions[s].closed}
NoWaiters == [s \in Sessions \union {AnySession} |-> <<>>]

First(rs) == CHOOSE r \in rs : \A other \in rs : r <= other

\* The sessions.json the process starts from may have the session of an agent
\* of another process, with a reply that is still to be delivered.
Init ==
    /\ bound \in Keys \union {None} /\ delegated \in BOOLEAN
    /\ \/ sessions = <<>> /\ log = <<>>
       \/ \E k \in Keys, c \in BOOLEAN :
            sessions = <<[key |-> k, closed |-> c]>> /\ log \in {<<>>, <<1>>}
    /\ queue = [s \in Sessions |-> {r \in DOMAIN log : log[r] = s}] /\ waiters = NoWaiters
    /\ call = [q \in Requests |-> Unsent]
    /\ running = TRUE
    /\ given = [q \in Requests |-> {}] /\ answers = [q \in Requests |-> 0] /\ missed = {} /\ cut = {}

\* A call that has ended, one that was woken with replies in hand, and one
\* that acknowledges them.
Done(c) == [c EXCEPT !.pc = "done", !.got = {}, !.unacked = {}]
Woken(c, replies) == [c EXCEPT !.pc = "woken", !.got = replies]
Acking(c, replies) == [c EXCEPT !.pc = "acking", !.got = replies, !.unacked = replies]

(***************************************************************************)
(* The answer: respond() in dispatch(), unless the client has cancelled.   *)
(***************************************************************************)
\* Mutant: a cancelled request is answered like any other.
AnswerAlways(q, replies) ==
    /\ call' = [call EXCEPT ![q] = Done(call[q])]
    /\ answers' = [answers EXCEPT ![q] = @ + 1]
    /\ given' = [given EXCEPT ![q] = replies]
    /\ UNCHANGED <<missed, cut>>

Answer(q, replies) ==
    /\ call' = [call EXCEPT ![q] = Done(call[q])]
    /\ IF call[q].cancelled
       THEN missed' = missed \union replies /\ UNCHANGED <<answers, given>>
       ELSE /\ answers' = [answers EXCEPT ![q] = @ + 1]
            /\ given' = [given EXCEPT ![q] = replies]
            /\ UNCHANGED missed
    /\ UNCHANGED cut

Acknowledges(q, replies) ==
    /\ call' = [call EXCEPT ![q] = Acking(call[q], replies)]
    /\ UNCHANGED history

(***************************************************************************)
(* The Bridge.  takeUndelivered() empties the queue of one session or of   *)
(* all; wait() takes the oldest held reply or registers a waiter;          *)
(* dispatch() prefers a wait on the session to a wait on any.              *)
(***************************************************************************)
Held(scope) == IF scope = AnySession THEN UNION {queue[s] : s \in Sessions} ELSE queue[scope]

Remaining(rs) == [s \in Sessions |-> queue[s] \ rs]

\* The wait that a reply of session s goes to, if there is one.
Waiting(s) ==
    IF waiters[s] # <<>> THEN {<<s, Head(waiters[s])>>}
    ELSE IF waiters[AnySession] # <<>> THEN {<<AnySession, Head(waiters[AnySession])>>}
    ELSE {}

Dispatch(s, r, calls) ==
    IF Waiting(s) = {}
    THEN queue' = [queue EXCEPT ![s] = @ \union {r}] /\ call' = calls /\ UNCHANGED waiters
    ELSE \E w \in Waiting(s) :
            /\ waiters' = [waiters EXCEPT ![w[1]] = Tail(@)]
            /\ call' = [calls EXCEPT ![w[2]] = Woken(@, {r})]
            /\ UNCHANGED queue

\* A pass reads a reply; a closing command closes its session.
Reads(s, closing) ==
    /\ running /\ ~delegated
    /\ s \in Open
    /\ Len(log) < MaxReplies
    /\ log' = Append(log, s)
    /\ sessions' = IF closing THEN [sessions EXCEPT ![s].closed = TRUE] ELSE sessions
    /\ Dispatch(s, Len(log'), call)
    /\ UNCHANGED <<bound, delegated, running, history>>

\* wait() called by q, whose state is c so far: it takes the oldest held reply
\* or registers a waiter.
WaitTakes(q, c, scope) ==
    /\ Held(scope) # {}
    /\ queue' = Remaining({First(Held(scope))})
    /\ call' = [call EXCEPT ![q] = Woken([c EXCEPT !.scope = scope], {First(Held(scope))})]
    /\ UNCHANGED waiters

WaitRegisters(q, c, scope) ==
    /\ Held(scope) = {}
    /\ waiters' = [waiters EXCEPT ![scope] = Append(@, q)]
    /\ call' = [call EXCEPT ![q] = [c EXCEPT !.pc = "waiting", !.scope = scope]]
    /\ UNCHANGED queue

Waits(q, c, scope) ==
    /\ WaitTakes(q, c, scope) \/ WaitRegisters(q, c, scope)
    /\ UNCHANGED history

config == <<bound, delegated>>

(***************************************************************************)
(* dispatch() of a tools/call, up to the first await of the tool.          *)
(***************************************************************************)
Serves(q, pc) == running /\ call[q].pc = pc

Sent(tool, key) == [Unsent EXCEPT !.tool = tool, !.key = key]

\* An answer that does not depend on the Bridge's replies: a refusal in
\* delegated mode, an unknown tool, the list of sessions.
AnswersAtOnce(q, tool, key) ==
    /\ call' = [call EXCEPT ![q] = [Sent(tool, key) EXCEPT !.pc = "done"]]
    /\ answers' = [answers EXCEPT ![q] = @ + 1]
    /\ UNCHANGED <<sessions, given, missed, cut, queue, waiters>>

\* A bound server ignores the key the caller names.
SessionKey(key) == IF bound = None THEN key ELSE bound

Newest(S) == CHOOSE s \in S : \A other \in S : other <= s
OfKey(key) == {s \in Known : sessions[s].key = key}

\* teams_notify finds or opens the session, and awaits the post.
Notifies(q, tool, key) ==
    /\ tool \in {"notify", "notifyWait"}
    /\ LET mine == OfKey(SessionKey(key)) \intersect Open
           c == [Sent(tool, SessionKey(key)) EXCEPT !.pc = "posting"]
       IN  \/ /\ mine # {}
              /\ call' = [call EXCEPT ![q] = [c EXCEPT !.scope = Newest(mine)]]
              /\ UNCHANGED sessions
           \/ /\ mine = {} /\ Len(sessions) < MaxSessions
              /\ sessions' = Append(sessions, [key |-> SessionKey(key), closed |-> FALSE])
              /\ call' = [call EXCEPT ![q] = [c EXCEPT !.scope = Len(sessions')]]
    /\ UNCHANGED <<history, queue, waiters>>

\* resolveOwnSession(): the newest open session of the key, or on an unbound
\* server the session, open or not, whose id the caller quotes.
resolveOwnSession(key) ==
    LET open == OfKey(SessionKey(key)) \intersect Open
    IN  (IF bound = None THEN OfKey(key) ELSE {}) \union (IF open = {} THEN {None} ELSE {Newest(open)})

\* Mutant: an unbound server serves an unscoped check as well.
UnscopedToo(owned) == {AnySession}

\* An unscoped check is rejected; a bound server without an open session of
\* its key goes on with no session, which means any.
Scope(owned) == IF owned # None THEN {owned} ELSE IF bound # None THEN {AnySession} ELSE {}

Checks(q, tool, key) ==
    /\ tool \in {"check", "checkWait"}
    /\ \E owned \in resolveOwnSession(key) :
        \/ /\ Scope(owned) = {}
           /\ AnswersAtOnce(q, tool, key)
        \/ \E scope \in Scope(owned) :
            /\ \/ /\ tool = "checkWait"
                  /\ Waits(q, Sent(tool, SessionKey(key)), scope)
               \/ /\ tool = "check"
                  /\ call' = [call EXCEPT ![q] = [Sent(tool, SessionKey(key))
                                                    EXCEPT !.pc = "polling", !.scope = scope]]
                  /\ UNCHANGED <<history, queue, waiters>>
            /\ UNCHANGED sessions

Request(q, tool, key) ==
    /\ Serves(q, "unsent")
    /\ \/ /\ delegated \/ tool \in {"list", "other"}
          /\ AnswersAtOnce(q, tool, key)
       \/ /\ ~delegated
          /\ Notifies(q, tool, key) \/ Checks(q, tool, key)
    /\ UNCHANGED <<config, log, running>>

\* notifications/cancelled
Cancel(q) ==
    /\ running
    /\ call[q].pc \notin {"unsent", "done"} /\ ~call[q].cancelled
    /\ call' = [call EXCEPT ![q].cancelled = TRUE]
    /\ UNCHANGED <<config, sessions, log, queue, waiters, running, history>>

(***************************************************************************)
(* The steps of a call after its awaits.                                   *)
(***************************************************************************)
\* The post succeeds: the session is open, whatever happened to it meanwhile.
Posted(q) ==
    /\ Serves(q, "posting")
    /\ sessions' = [sessions EXCEPT ![call[q].scope].closed = FALSE]
    /\ \/ call[q].tool = "notify" /\ Answer(q, {}) /\ UNCHANGED <<queue, waiters>>
       \/ call[q].tool = "notifyWait" /\ Waits(q, call[q], call[q].scope)
    /\ UNCHANGED <<config, log, running>>

PostFails(q) ==
    /\ Serves(q, "posting")
    /\ Answer(q, {})
    /\ UNCHANGED <<config, sessions, log, queue, waiters, running>>

\* removeWaiter(): the waiter is in its list once.
Position(ws, q) == CHOOSE i \in DOMAIN ws : ws[i] = q
Without(ws, q) == [i \in 1 .. Len(ws) - 1 |-> IF i < Position(ws, q) THEN ws[i] ELSE ws[i + 1]]

\* Mutant: a wait has no timer.
TimesOutNever(q) == FALSE /\ UNCHANGED vars

TimesOut(q) ==
    /\ Serves(q, "waiting")
    /\ waiters' = [waiters EXCEPT ![call[q].scope] = Without(@, q)]
    /\ call' = [call EXCEPT ![q] = Woken(@, {})]
    /\ UNCHANGED <<config, sessions, log, queue, running, history>>

\* takeUndelivered(), then the acknowledgement of what it returned.
Takes(q) ==
    /\ LET taken == Held(call[q].scope)
       IN  /\ queue' = Remaining(taken)
           /\ \/ taken = {} /\ Answer(q, {})
              \/ taken # {} /\ Acknowledges(q, taken)
    /\ UNCHANGED waiters

\* Mutant: the reply of an abandoned wait stays with the call.
DropsReply(q) ==
    /\ call[q].cancelled
    /\ call' = [call EXCEPT ![q] = Done(@)]
    /\ UNCHANGED <<queue, waiters, history>>

\* returnIfTaken(): what an abandoned wait took is dispatched again.
GivesBack(q) ==
    /\ call[q].cancelled
    /\ \/ /\ call[q].got = {}
          /\ call' = [call EXCEPT ![q] = Done(@)]
          /\ UNCHANGED <<queue, waiters>>
       \/ \E r \in call[q].got :
            Dispatch(log[r], r, [call EXCEPT ![q] = Done(@)])
    /\ UNCHANGED history

Awakes(q) ==
    /\ Serves(q, "woken")
    /\ \/ GivesBack(q)
       \/ /\ ~call[q].cancelled /\ call[q].got # {}
          /\ Acknowledges(q, call[q].got)
          /\ UNCHANGED <<queue, waiters>>
       \/ /\ ~call[q].cancelled /\ call[q].got = {}
          /\ \/ call[q].tool = "notifyWait" /\ Answer(q, {}) /\ UNCHANGED <<queue, waiters>>
             \/ call[q].tool = "checkWait" /\ Takes(q)
    /\ UNCHANGED <<config, sessions, log, running>>

\* The pass of a check is over; nobody looks whether it was cancelled.
Polled(q) ==
    /\ Serves(q, "polling")
    /\ Takes(q)
    /\ UNCHANGED <<config, sessions, log, running>>

\* The queue has been emptied in memory when the store throws.
TakeThrows(q) ==
    /\ Serves(q, "polling")
    /\ Held(call[q].scope) # {}
    /\ queue' = Remaining(Held(call[q].scope))
    /\ cut' = cut \union Held(call[q].scope)
    /\ call' = [call EXCEPT ![q] = Done(@)]
    /\ answers' = [answers EXCEPT ![q] = @ + 1]
    /\ UNCHANGED <<config, sessions, log, waiters, running, given, missed>>

\* acknowledgeReply() of one reply is over, posted or not.
Acked(q) ==
    /\ Serves(q, "acking")
    /\ LET rest == call[q].unacked \ {First(call[q].unacked)}
       IN  \/ rest # {} /\ call' = [call EXCEPT ![q].unacked = rest] /\ UNCHANGED history
           \/ rest = {} /\ Answer(q, call[q].got)
    /\ UNCHANGED <<config, sessions, log, queue, waiters, running>>

\* stdin ends, or a signal: the process exits; what is undelivered is on disk.
Exit ==
    /\ running /\ running' = FALSE
    /\ cut' = cut \union UNION {call[q].got : q \in Requests}
    /\ call' = [q \in Requests |-> Done(call[q])]
    /\ waiters' = NoWaiters
    /\ UNCHANGED <<config, sessions, log, queue, given, answers, missed>>

(***************************************************************************)
(* The specification                                                       *)
(***************************************************************************)
Continues(q) == Posted(q) \/ PostFails(q) \/ TimesOut(q) \/ Awakes(q) \/ Polled(q) \/ Acked(q)

Client(q) == Cancel(q) \/ \E tool \in Tools, key \in Keys : Request(q, tool, key)

Pass == \E s \in Sessions : Reads(s, TRUE) \/ Reads(s, FALSE)

Next == Pass \/ Exit \/ \E q \in Requests : Client(q) \/ Continues(q) \/ TakeThrows(q)

\* The process runs its own code; Teams answers or fails; timers fire.
Fairness == \A q \in Requests : WF_vars(Continues(q))

Spec == Init /\ [][Next]_vars
FairSpec == Spec /\ Fairness

(***************************************************************************)
(* Properties                                                              *)
(***************************************************************************)
\* Every variable keeps its type: above all, a session is opened under a key,
\* and no request is answered twice.  About every step of a call.
TypeOK ==
    /\ bound \in Keys \union {None} /\ delegated \in BOOLEAN
    /\ running \in BOOLEAN
    /\ sessions \in Seq([key : Keys, closed : BOOLEAN]) /\ Len(sessions) <= MaxSessions
    /\ log \in Seq(Sessions) /\ Len(log) <= MaxReplies
    /\ queue \in [Sessions -> SUBSET Replies]
    /\ waiters \in [Sessions \union {AnySession} -> Seq(Requests)]
    /\ call \in [Requests -> Call]
    /\ given \in [Requests -> SUBSET Replies] /\ answers \in [Requests -> 0 .. 1]
    /\ missed \subseteq Replies /\ cut \subseteq Replies

Queued == UNION {queue[s] : s \in Sessions}
InHand == UNION {call[q].got : q \in Requests}
Given == UNION {given[q] : q \in Requests}

\* Every reply that was read is in one place: with the undelivered ones, in
\* the hands of one call, in one answer, or lost in one of the known ways.  A
\* call that is abandoned while it waits gives back what it took.  About
\* returnIfTaken(), takeUndelivered() and the order of checks in the tools.
EachReplyInOnePlace ==
    /\ DOMAIN log = Queued \union InHand \union Given \union missed \union cut
    /\ Queued \intersect (InHand \union Given \union missed \union cut) = {}
    /\ InHand \intersect (Given \union missed \union cut) = {}
    /\ Given \intersect (missed \union cut) = {}
    /\ \A p, q \in Requests : p # q => call[p].got \intersect call[q].got = {}
                                       /\ given[p] \intersect given[q] = {}

\* A request that has ended in a running server was answered once, or was
\* cancelled and not answered.  About respond() in dispatch().
OneAnswer ==
    \A q \in Requests :
        /\ call[q].pc # "done" => answers[q] = 0
        /\ call[q].pc = "done" /\ running /\ ~call[q].cancelled => answers[q] = 1
        /\ call[q].cancelled /\ cut = {} => answers[q] = 0

\* "No session can see or consume another's state": the replies that a call
\* takes are those of a session of its key.  A bound server that has no open
\* session of its key is the exception: it takes the replies of any.  About
\* resolveOwnSession() and the calls that use what it returns.
OwnReplies ==
    \A q \in Requests : ~(bound # None /\ call[q].scope = AnySession) =>
        \A r \in call[q].got \union given[q] : sessions[log[r]].key = call[q].key

\* Every call ends, whatever Teams, the timers and the client do.  About
\* callTool().
CallsEnd == \A q \in Requests : call[q].pc # "unsent" ~> call[q].pc = "done"

\* "Anything the abandoned call has already taken from the bridge must be
\* handed back, or the user's reply dies with it" (server.ts, dispatch()).
\* Violated: the calls look at the cancellation after a wait, not after the
\* pass of a check nor while they acknowledge.
HandedBack == missed = {}

=============================================================================
