-------------------------- MODULE McpServerProofs --------------------------
(***************************************************************************)
(* Theorems about McpServer, for any number of requests, keys, sessions    *)
(* and replies, and any choice of tools.                                   *)
(***************************************************************************)
EXTENDS McpServer, SequenceTheorems, WellFoundedInduction, TLAPS

-----------------------------------------------------------------------------
(* Where replies are *)

(* EachReplyInOnePlace, reply by reply.                                    *)
OnePlace(L, Q, C, G, M, X) ==
    /\ \A r : r \in DOMAIN L <=> \/ \E s \in Sessions : r \in Q[s]
                                 \/ \E q \in Requests : r \in C[q].got
                                 \/ \E q \in Requests : r \in G[q]
                                 \/ r \in M \/ r \in X
    /\ \A s \in Sessions : \A r \in Q[s] :
            /\ r \notin M /\ r \notin X
            /\ \A q \in Requests : r \notin C[q].got /\ r \notin G[q]
    /\ \A p \in Requests : \A r \in C[p].got :
            /\ r \notin M /\ r \notin X
            /\ \A q \in Requests : r \notin G[q] /\ (q # p => r \notin C[q].got)
    /\ \A p \in Requests : \A r \in G[p] :
            /\ r \notin M /\ r \notin X
            /\ \A q \in Requests : q # p => r \notin G[q]

LEMMA PlaceIs == OnePlace(log, queue, call, given, missed, cut) <=> EachReplyInOnePlace
<1>1. OnePlace(log, queue, call, given, missed, cut) => EachReplyInOnePlace
  <2> SUFFICES ASSUME OnePlace(log, queue, call, given, missed, cut) PROVE EachReplyInOnePlace
    OBVIOUS
  <2>1. \A r : /\ r \in Queued <=> (\E s \in Sessions : r \in queue[s])
               /\ r \in InHand <=> (\E q \in Requests : r \in call[q].got)
               /\ r \in Given <=> (\E q \in Requests : r \in given[q])
    BY DEF Queued, InHand, Given
  <2>2. \A r : r \in DOMAIN log <=> r \in Queued \union InHand \union Given \union missed \union cut
    BY <2>1 DEF OnePlace
  <2>3. \A r \in Queued : r \notin InHand \union Given \union missed \union cut
    BY <2>1 DEF OnePlace
  <2>4. \A r \in InHand : r \notin Given \union missed \union cut
    BY <2>1 DEF OnePlace
  <2>5. \A r \in Given : r \notin missed \union cut
    BY <2>1 DEF OnePlace
  <2>6. \A p, q \in Requests : p # q => call[p].got \intersect call[q].got = {}
                                        /\ given[p] \intersect given[q] = {}
    BY DEF OnePlace
  <2> QED BY <2>2, <2>3, <2>4, <2>5, <2>6 DEF EachReplyInOnePlace
<1>2. EachReplyInOnePlace => OnePlace(log, queue, call, given, missed, cut)
  BY DEF OnePlace, EachReplyInOnePlace, Queued, InHand, Given
<1> QED BY <1>1, <1>2

(* Replies go from the undelivered ones into the hands of a call. *)
LEMMA PlaceTaken ==
    ASSUME NEW L, NEW Q, NEW C, NEW G, NEW M, NEW X, OnePlace(L, Q, C, G, M, X),
           NEW q \in Requests, NEW T, NEW R, NEW D,
           C[q].got = {}, \A r \in T : \E s \in Sessions : r \in Q[s],
           \A s \in Sessions : R[s] = Q[s] \ T,
           D[q].got = T, \A p \in Requests : p # q => D[p].got = C[p].got
    PROVE  OnePlace(L, R, D, G, M, X)
BY DEF OnePlace

(* The replies in the hands of a call go into its answer, or are missed. *)
LEMMA PlaceAnswered ==
    ASSUME NEW L, NEW Q, NEW C, NEW G, NEW M, NEW X, OnePlace(L, Q, C, G, M, X),
           NEW q \in Requests, NEW D, NEW H, NEW N,
           G[q] = {}, D[q].got = {},
           \A p \in Requests : p # q => D[p].got = C[p].got /\ H[p] = G[p],
           \/ H[q] = C[q].got /\ N = M
           \/ H[q] = {} /\ N = M \union C[q].got
    PROVE  OnePlace(L, Q, D, H, N, X)
BY DEF OnePlace

(* A reply in the hands of a call goes back to the undelivered ones. *)
LEMMA PlaceReturned ==
    ASSUME NEW L, NEW Q, NEW C, NEW G, NEW M, NEW X, OnePlace(L, Q, C, G, M, X),
           NEW q \in Requests, NEW r, NEW s \in Sessions, NEW R, NEW D,
           C[q].got = {r}, D[q].got = {},
           R[s] = Q[s] \union {r}, \A t \in Sessions : t # s => R[t] = Q[t],
           \A p \in Requests : p # q => D[p].got = C[p].got
    PROVE  OnePlace(L, R, D, G, M, X)
BY DEF OnePlace

(* A reply that was just read is queued, or given to a call. *)
LEMMA PlaceQueued ==
    ASSUME NEW L, NEW Q, NEW C, NEW G, NEW M, NEW X, OnePlace(L, Q, C, G, M, X),
           NEW K, NEW r, r \notin DOMAIN L, DOMAIN K = DOMAIN L \union {r},
           NEW s \in Sessions, NEW R, NEW D,
           R[s] = Q[s] \union {r}, \A t \in Sessions : t # s => R[t] = Q[t],
           \A p \in Requests : D[p].got = C[p].got
    PROVE  OnePlace(K, R, D, G, M, X)
BY DEF OnePlace

LEMMA PlaceHanded ==
    ASSUME NEW L, NEW Q, NEW C, NEW G, NEW M, NEW X, OnePlace(L, Q, C, G, M, X),
           NEW K, NEW r, r \notin DOMAIN L, DOMAIN K = DOMAIN L \union {r},
           NEW w \in Requests, NEW D,
           C[w].got = {}, D[w].got = {r}, \A p \in Requests : p # w => D[p].got = C[p].got
    PROVE  OnePlace(K, Q, D, G, M, X)
BY DEF OnePlace

(* Undelivered replies are lost with a store that throws, those in hand with *)
(* the process.                                                            *)
LEMMA PlaceThrown ==
    ASSUME NEW L, NEW Q, NEW C, NEW G, NEW M, NEW X, OnePlace(L, Q, C, G, M, X),
           NEW T, NEW R, NEW D, \A r \in T : \E s \in Sessions : r \in Q[s],
           \A s \in Sessions : R[s] = Q[s] \ T, \A p \in Requests : D[p].got = C[p].got
    PROVE  OnePlace(L, R, D, G, M, X \union T)
BY DEF OnePlace

LEMMA PlaceCut ==
    ASSUME NEW L, NEW Q, NEW C, NEW G, NEW M, NEW X, OnePlace(L, Q, C, G, M, X),
           NEW D, \A p \in Requests : D[p].got = {}
    PROVE  OnePlace(L, Q, D, G, M, X \union UNION {C[p].got : p \in Requests})
BY DEF OnePlace

(* Nothing is moved. *)
LEMMA PlaceStays ==
    ASSUME NEW L, NEW Q, NEW C, NEW G, NEW M, NEW X, OnePlace(L, Q, C, G, M, X),
           NEW D, \A p \in Requests : D[p].got = C[p].got
    PROVE  OnePlace(L, Q, D, G, M, X)
BY DEF OnePlace

-----------------------------------------------------------------------------
(* The inductive invariant *)

Active(c) == c.pc \notin {"unsent", "done"}

(* A reply that a call has is of a session of its key; S, B and L are the   *)
(* sessions, the bound key and the log.                                    *)
Owned(c, r, S, B, L) ==
    /\ r \in DOMAIN L /\ L[r] \in DOMAIN S
    /\ (B # None /\ c.scope = AnySession) \/ S[L[r]].key = c.key

(* A call that runs is for one session of its key, or for any.             *)
Placed(c, S, B) ==
    Active(c) => /\ c.scope \in DOMAIN S \union {AnySession}
                 /\ c.scope # AnySession => S[c.scope].key = c.key
                 /\ c.scope = AnySession => B # None /\ c.pc # "posting"

(* What a call has in hand, it has after its awaits only, and after a wait  *)
(* it is one reply.                                                        *)
Sane(c, S, B, L) ==
    /\ c \in Call
    /\ Placed(c, S, B)
    /\ \A r \in c.got : Owned(c, r, S, B, L)
    /\ c.pc \notin {"woken", "acking"} => c.got = {}
    /\ c.pc = "woken" => \A r, t \in c.got : r = t

CallsSane == \A q \in Requests : Sane(call[q], sessions, bound, log)

GivenSane ==
    \A q \in Requests : /\ call[q].pc # "done" => given[q] = {}
                        /\ \A r \in given[q] : Owned(call[q], r, sessions, bound, log)

LogSane ==
    /\ \A r \in DOMAIN log : log[r] \in DOMAIN sessions
    /\ \A s \in Sessions : \A r \in queue[s] : r \in DOMAIN log /\ log[r] = s

(* A registered wait is that of a waiting call, under its scope, once.     *)
WaitsSane ==
    /\ \A s \in Sessions \union {AnySession} : \A i \in DOMAIN waiters[s] :
            call[waiters[s][i]].pc = "waiting" /\ call[waiters[s][i]].scope = s
    /\ \A s \in Sessions \union {AnySession} : \A i, j \in DOMAIN waiters[s] :
            waiters[s][i] = waiters[s][j] => i = j
    /\ \A q \in Requests : call[q].pc = "waiting" =>
            \E i \in DOMAIN waiters[call[q].scope] : waiters[call[q].scope][i] = q

Places == OnePlace(log, queue, call, given, missed, cut)

(* OneAnswer, call by call.                                                *)
Counted(c, n, up, X) ==
    /\ c.pc # "done" => n = 0
    /\ c.pc = "done" /\ up /\ ~c.cancelled => n = 1
    /\ c.cancelled /\ X = {} => n = 0

AnswersCounted == \A q \in Requests : Counted(call[q], answers[q], running, cut)

IInv ==
    /\ TypeOK
    /\ CallsSane /\ GivenSane /\ LogSane /\ WaitsSane
    /\ Places /\ AnswersCounted

(* What a step of one call may do besides: sessions are opened, closed and  *)
(* reopened, and keep their keys.                                          *)
Around ==
    /\ bound' = bound /\ delegated' = delegated /\ running' = running /\ log' = log
    /\ sessions' \in Seq([key : Keys, closed : BOOLEAN]) /\ Len(sessions') <= MaxSessions
    /\ DOMAIN sessions \subseteq DOMAIN sessions'
    /\ \A s \in DOMAIN sessions : sessions'[s].key = sessions[s].key

LEMMA OwnedStays ==
    ASSUME NEW c, NEW d, NEW r, NEW S, NEW T, NEW B, NEW L, Owned(c, r, S, B, L),
           d.scope = c.scope, d.key = c.key,
           DOMAIN S \subseteq DOMAIN T, \A s \in DOMAIN S : T[s].key = S[s].key
    PROVE  Owned(d, r, T, B, L)
BY DEF Owned

LEMMA SaneStays ==
    ASSUME NEW c, NEW S, NEW T, NEW B, NEW L, Sane(c, S, B, L),
           DOMAIN S \subseteq DOMAIN T, \A s \in DOMAIN S : T[s].key = S[s].key
    PROVE  Sane(c, T, B, L)
BY OwnedStays DEF Sane, Placed, Active

(* The records of calls *)
LEMMA DoneIs ==
    ASSUME NEW c \in Call
    PROVE  /\ Done(c) \in Call /\ Done(c).pc = "done" /\ Done(c).got = {}
           /\ Done(c).scope = c.scope /\ Done(c).key = c.key /\ Done(c).cancelled = c.cancelled
BY DEF Done, Call

LEMMA WokenIs ==
    ASSUME NEW c \in Call, NEW rs \in SUBSET Replies
    PROVE  /\ Woken(c, rs) \in Call /\ Woken(c, rs).pc = "woken" /\ Woken(c, rs).got = rs
           /\ Woken(c, rs).scope = c.scope /\ Woken(c, rs).key = c.key
           /\ Woken(c, rs).cancelled = c.cancelled
BY DEF Woken, Call

LEMMA AckingIs ==
    ASSUME NEW c \in Call, NEW rs \in SUBSET Replies
    PROVE  /\ Acking(c, rs) \in Call /\ Acking(c, rs).pc = "acking" /\ Acking(c, rs).got = rs
           /\ Acking(c, rs).scope = c.scope /\ Acking(c, rs).key = c.key
           /\ Acking(c, rs).cancelled = c.cancelled
BY DEF Acking, Call

-----------------------------------------------------------------------------
(* One call goes on, and no wait begins or ends *)

(* Only call q changes, and what it has is what the steps below leave it.  *)
Moves(q) ==
    /\ q \in Requests
    /\ Around
    /\ \A p \in Requests : p # q => call'[p] = call[p] /\ given'[p] = given[p] /\ answers'[p] = answers[p]
    /\ DOMAIN call' = Requests /\ DOMAIN given' = Requests /\ DOMAIN answers' = Requests
    /\ Sane(call'[q], sessions', bound, log)
    /\ call'[q].pc # "done" => given'[q] = {}
    /\ \A r \in given'[q] : r \in Replies /\ Owned(call'[q], r, sessions', bound, log)
    /\ Counted(call'[q], answers'[q], running, cut') /\ answers'[q] \in 0 .. 1
    /\ cut \subseteq cut' /\ cut' \subseteq Replies /\ missed' \subseteq Replies
    /\ DOMAIN queue' = Sessions /\ \A s \in Sessions : queue'[s] \subseteq queue[s]
    /\ queue' = [s \in Sessions |-> queue'[s]]
    /\ call' = [p \in Requests |-> call'[p]] /\ given' = [p \in Requests |-> given'[p]]
    /\ answers' = [p \in Requests |-> answers'[p]]

LEMMA MovesKeeps ==
    ASSUME IInv, NEW q \in Requests, Moves(q)
    PROVE  /\ CallsSane' /\ GivenSane' /\ LogSane' /\ AnswersCounted'
           /\ waiters' \in [Sessions \union {AnySession} -> Seq(Requests)] => TypeOK'
<1> USE DEF IInv
<1>1. CallsSane'
  <2> SUFFICES ASSUME NEW p \in Requests PROVE Sane(call'[p], sessions', bound', log')
    BY DEF CallsSane
  <2>1. CASE p = q
    BY <2>1 DEF Moves, Around
  <2>2. CASE p # q
    <3>1. Sane(call[p], sessions, bound, log)
      BY DEF CallsSane
    <3>2. Sane(call[p], sessions', bound, log)
      BY <3>1, SaneStays DEF Moves, Around
    <3> QED BY <3>2, <2>2 DEF Moves, Around
  <2> QED BY <2>1, <2>2
<1>2. GivenSane'
  <2> SUFFICES ASSUME NEW p \in Requests
               PROVE  /\ call'[p].pc # "done" => given'[p] = {}
                      /\ \A r \in given'[p] : Owned(call'[p], r, sessions', bound', log')
    BY DEF GivenSane
  <2>1. CASE p = q
    BY <2>1 DEF Moves, Around
  <2>2. CASE p # q
    <3>1. call'[p] = call[p] /\ given'[p] = given[p] /\ bound' = bound /\ log' = log
      BY <2>2 DEF Moves, Around
    <3>2. \A r \in given[p] : Owned(call[p], r, sessions, bound, log)
      BY DEF GivenSane
    <3>3. \A r \in given[p] : Owned(call[p], r, sessions', bound, log)
      BY <3>2, OwnedStays DEF Moves, Around
    <3> QED BY <3>1, <3>3 DEF GivenSane
  <2> QED BY <2>1, <2>2
<1>3. LogSane'
  BY DEF LogSane, Moves, Around
<1>4. AnswersCounted'
  <2> SUFFICES ASSUME NEW p \in Requests PROVE Counted(call'[p], answers'[p], running', cut')
    BY DEF AnswersCounted
  <2>1. running' = running /\ cut \subseteq cut'
    BY DEF Moves, Around
  <2>2. CASE p = q
    BY <2>1, <2>2 DEF Moves
  <2>3. CASE p # q
    <3>1. call'[p] = call[p] /\ answers'[p] = answers[p] /\ Counted(call[p], answers[p], running, cut)
      BY <2>3 DEF Moves, AnswersCounted
    <3> QED BY <3>1, <2>1 DEF Counted
  <2> QED BY <2>2, <2>3
<1>5. ASSUME waiters' \in [Sessions \union {AnySession} -> Seq(Requests)] PROVE TypeOK'
  <2>1. \A p \in Requests : call'[p] \in Call
    BY <1>1 DEF CallsSane, Sane
  <2>2. call' \in [Requests -> Call]
    BY <2>1 DEF Moves
  <2>3. \A p \in Requests : given'[p] \in SUBSET Replies /\ answers'[p] \in 0 .. 1
    BY DEF Moves, TypeOK
  <2>4. given' \in [Requests -> SUBSET Replies] /\ answers' \in [Requests -> 0 .. 1]
    BY <2>3 DEF Moves
  <2>5. queue' \in [Sessions -> SUBSET Replies]
    BY DEF Moves, TypeOK
  <2>6. /\ bound' \in Keys \union {None} /\ delegated' \in BOOLEAN /\ running' \in BOOLEAN
        /\ sessions' \in Seq([key : Keys, closed : BOOLEAN]) /\ Len(sessions') <= MaxSessions
        /\ log' \in Seq(Sessions) /\ Len(log') <= MaxReplies
        /\ missed' \subseteq Replies /\ cut' \subseteq Replies
    BY DEF Moves, Around, TypeOK
  <2> QED BY <1>5, <2>2, <2>4, <2>5, <2>6 DEF TypeOK
<1> QED BY <1>1, <1>2, <1>3, <1>4, <1>5

(* A call that was not waiting, and is not, leaves the waits alone. *)
LEMMA NoWaitMoves ==
    ASSUME IInv, NEW q \in Requests, Moves(q), waiters' = waiters,
           call[q].pc # "waiting", call'[q].pc # "waiting"
    PROVE  WaitsSane'
<1>1. \A s \in Sessions \union {AnySession} : \A i \in DOMAIN waiters[s] :
          waiters[s][i] \in Requests /\ waiters[s][i] # q
  BY DEF IInv, WaitsSane, TypeOK
<1>2. \A p \in Requests : p # q => call'[p] = call[p]
  BY DEF Moves
<1>3. \A s \in Sessions \union {AnySession} : \A i \in DOMAIN waiters'[s] :
          call'[waiters'[s][i]].pc = "waiting" /\ call'[waiters'[s][i]].scope = s
  BY <1>1, <1>2 DEF IInv, WaitsSane
<1>4. \A p \in Requests : call'[p].pc = "waiting" =>
          \E i \in DOMAIN waiters'[call'[p].scope] : waiters'[call'[p].scope][i] = p
  BY <1>2 DEF IInv, WaitsSane
<1> QED BY <1>3, <1>4 DEF IInv, WaitsSane

LEMMA QuietMove ==
    ASSUME IInv, NEW q \in Requests, Moves(q), waiters' = waiters,
           call[q].pc # "waiting", call'[q].pc # "waiting",
           OnePlace(log, queue', call', given', missed', cut')
    PROVE  IInv'
<1>1. waiters' \in [Sessions \union {AnySession} -> Seq(Requests)]
  BY DEF IInv, TypeOK
<1>2. Places'
  BY DEF Places, Moves, Around
<1> QED BY <1>1, <1>2, MovesKeeps, NoWaitMoves DEF IInv

-----------------------------------------------------------------------------
(* The steps that several actions end with *)

LEMMA AroundUnchanged == UNCHANGED <<config, sessions, log, running>> /\ TypeOK => Around
BY DEF Around, TypeOK, config

(* A call that is not waiting answers with what it has. *)
LEMMA AnswerKeeps ==
    ASSUME IInv, NEW q \in Requests, Active(call[q]), call[q].pc # "waiting",
           Around, Answer(q, call[q].got), UNCHANGED <<queue, waiters>>
    PROVE  IInv'
<1> DEFINE c == call[q]
<1>1. /\ call \in [Requests -> Call] /\ given \in [Requests -> SUBSET Replies]
      /\ answers \in [Requests -> 0 .. 1] /\ queue \in [Sessions -> SUBSET Replies]
      /\ missed \subseteq Replies /\ cut \subseteq Replies
  BY DEF IInv, TypeOK
<1>2. Sane(c, sessions, bound, log) /\ given[q] = {} /\ answers[q] = 0
  BY DEF IInv, CallsSane, GivenSane, AnswersCounted, Counted, Active
<1>3. c \in Call /\ Done(c) \in Call /\ Done(c).pc = "done" /\ Done(c).got = {} /\ Done(c).scope = c.scope
      /\ Done(c).key = c.key /\ Done(c).cancelled = c.cancelled
  BY <1>1, DoneIs
<1>4. call' = [call EXCEPT ![q] = Done(c)] /\ cut' = cut
  BY DEF Answer
<1>5. \/ /\ c.cancelled /\ missed' = missed \union c.got /\ answers' = answers /\ given' = given
      \/ /\ ~c.cancelled /\ answers' = [answers EXCEPT ![q] = @ + 1]
         /\ given' = [given EXCEPT ![q] = c.got] /\ missed' = missed
  BY DEF Answer
<1>6. c.got \subseteq Replies
  BY <1>3 DEF Call
<1>7. Sane(Done(c), sessions', bound, log)
  BY <1>3 DEF Sane, Placed, Active
<1>8. \A r \in c.got : Owned(Done(c), r, sessions', bound, log)
  BY <1>2, <1>3, OwnedStays DEF Sane, Around
<1>9. /\ \A p \in Requests : p # q => call'[p] = call[p] /\ given'[p] = given[p] /\ answers'[p] = answers[p]
      /\ call'[q] = Done(c) /\ DOMAIN call' = Requests /\ call' = [p \in Requests |-> call'[p]]
      /\ given' \in [Requests -> SUBSET Replies] /\ answers' \in [Requests -> 0 .. 1]
      /\ missed' \subseteq Replies
  <2>1. /\ \A p \in Requests : p # q => call'[p] = call[p]
        /\ call'[q] = Done(c) /\ DOMAIN call' = Requests /\ call' = [p \in Requests |-> call'[p]]
    BY <1>1, <1>4
  <2> HIDE DEF c
  <2>2. /\ \A p \in Requests : p # q => given'[p] = given[p]
        /\ given' \in [Requests -> SUBSET Replies]
    BY <1>1, <1>5, <1>6
  <2>3. /\ \A p \in Requests : p # q => answers'[p] = answers[p]
        /\ answers' \in [Requests -> 0 .. 1]
    <3>1. CASE answers' = answers
      BY <3>1, <1>1
    <3>2. CASE answers' = [answers EXCEPT ![q] = 0 + 1]
      BY <3>2, <1>1
    <3> QED BY <3>1, <3>2, <1>2, <1>5
  <2>4. missed' \subseteq Replies
    BY <1>1, <1>5, <1>6
  <2> QED BY <2>1, <2>2, <2>3, <2>4
<1>10. \/ given'[q] = c.got /\ missed' = missed /\ answers'[q] = 1 /\ ~c.cancelled
       \/ given'[q] = {} /\ missed' = missed \union c.got /\ answers'[q] = 0 /\ c.cancelled
  BY <1>1, <1>2, <1>5
<1> HIDE DEF c
<1>11. Counted(call'[q], answers'[q], running, cut')
  BY <1>3, <1>9, <1>10 DEF Counted
<1>12. Moves(q)
  BY <1>1, <1>3, <1>4, <1>6, <1>7, <1>8, <1>9, <1>10, <1>11 DEF Moves
<1>13. OnePlace(log, queue, call, given, missed, cut) /\ c = call[q]
  BY DEF IInv, Places, c
<1>14. OnePlace(log, queue, call', given', missed', cut)
  BY <1>2, <1>3, <1>9, <1>10, <1>13, PlaceAnswered
<1> QED BY <1>3, <1>4, <1>9, <1>12, <1>14, QuietMove

(* What was taken is acknowledged before it is returned. *)
LEMMA AcknowledgeKeeps ==
    ASSUME IInv, NEW q \in Requests, Active(call[q]), call[q].pc # "waiting",
           NEW rs \in SUBSET Replies, Around, Acknowledges(q, rs), UNCHANGED waiters,
           \A r \in rs : Owned(call[q], r, sessions, bound, log),
           call[q].pc # "posting",
           \/ rs = call[q].got /\ queue' = queue
           \/ call[q].got = {} /\ (\A r \in rs : \E s \in Sessions : r \in queue[s])
              /\ queue' = [s \in Sessions |-> queue[s] \ rs]
    PROVE  IInv'
<1> DEFINE c == call[q]
<1>1. /\ call \in [Requests -> Call] /\ given \in [Requests -> SUBSET Replies]
      /\ answers \in [Requests -> 0 .. 1] /\ queue \in [Sessions -> SUBSET Replies]
      /\ missed \subseteq Replies /\ cut \subseteq Replies
  BY DEF IInv, TypeOK
<1>2. Sane(c, sessions, bound, log) /\ given[q] = {} /\ answers[q] = 0
  BY DEF IInv, CallsSane, GivenSane, AnswersCounted, Counted, Active
<1>3. c \in Call /\ Acking(c, rs) \in Call /\ Acking(c, rs).pc = "acking" /\ Acking(c, rs).got = rs
      /\ Acking(c, rs).scope = c.scope /\ Acking(c, rs).key = c.key
      /\ Acking(c, rs).cancelled = c.cancelled
  BY <1>1, AckingIs
<1>4. call' = [call EXCEPT ![q] = Acking(c, rs)] /\ given' = given /\ answers' = answers
      /\ missed' = missed /\ cut' = cut
  BY DEF Acknowledges, history
<1>5. Sane(Acking(c, rs), sessions', bound, log)
  <2>1. Sane(c, sessions', bound, log)
    BY <1>2, SaneStays DEF Around
  <2>2. Placed(Acking(c, rs), sessions', bound)
    BY <2>1, <1>3 DEF Sane, Placed, Active
  <2>3. \A r \in rs : Owned(Acking(c, rs), r, sessions', bound, log)
    BY <1>3, OwnedStays DEF Around
  <2> QED BY <2>2, <2>3, <1>3 DEF Sane
<1>6. /\ \A p \in Requests : p # q => call'[p] = call[p]
      /\ call'[q] = Acking(c, rs) /\ DOMAIN call' = Requests /\ call' = [p \in Requests |-> call'[p]]
  BY <1>1, <1>4
<1>7. DOMAIN queue' = Sessions /\ queue' = [s \in Sessions |-> queue'[s]]
      /\ \A s \in Sessions : queue'[s] \subseteq queue[s]
  BY <1>1
<1>8. Counted(call'[q], answers'[q], running, cut')
  BY <1>2, <1>3, <1>4, <1>6 DEF Counted
<1>9. OnePlace(log, queue, call, given, missed, cut)
  BY DEF IInv, Places
<1>10. OnePlace(log, queue', call', given, missed, cut)
  <2>1. CASE rs = c.got /\ queue' = queue
    <3>1. \A p \in Requests : call'[p].got = call[p].got
      BY <2>1, <1>3, <1>6
    <3> QED BY <3>1, <2>1, <1>9, PlaceStays
  <2>2. CASE /\ c.got = {} /\ (\A r \in rs : \E s \in Sessions : r \in queue[s])
             /\ queue' = [s \in Sessions |-> queue[s] \ rs]
    <3>1. \A s \in Sessions : queue'[s] = queue[s] \ rs
      BY <2>2
    <3> QED BY <3>1, <2>2, <1>3, <1>6, <1>9, PlaceTaken
  <2> QED BY <2>1, <2>2
<1>11. Moves(q)
  BY <1>1, <1>2, <1>3, <1>4, <1>5, <1>6, <1>7, <1>8 DEF Moves
<1> QED BY <1>3, <1>4, <1>6, <1>10, <1>11, QuietMove

-----------------------------------------------------------------------------
(* The first reply and the newest session there are *)

Less == {jk \in Nat \X Nat : jk[1] < jk[2]}

LEMMA LeastExists ==
    ASSUME NEW S \in SUBSET Nat, S # {}
    PROVE  \E i \in S : \A j \in S : i <= j
<1>1. IsWellFoundedOn(Less, Nat)
  BY NatLessThanWellFounded DEF OpToRel, Less
<1>2. \E i \in S : \A j \in S : <<j, i>> \notin Less
  BY <1>1, WFMin
<1>3. \A i, j \in Nat : <<j, i>> \notin Less => i <= j
  BY SMT DEF Less
<1> QED BY <1>2, <1>3

LEMMA FirstIn ==
    ASSUME NEW S \in SUBSET Nat, S # {}
    PROVE  First(S) \in S
BY LeastExists DEF First

LEMMA NewestIn ==
    ASSUME NEW n \in Nat, NEW S \in SUBSET (1 .. n), S # {}
    PROVE  Newest(S) \in S
<1> DEFINE T == {n - j : j \in S}
<1>1. \A j \in S : j \in Nat /\ n - j \in Nat
  OBVIOUS
<1>2. PICK k \in T : \A m \in T : k <= m
  BY <1>1, LeastExists, T \in SUBSET Nat, T # {}
<1>3. PICK i \in S : k = n - i
  BY <1>2
<1>4. ASSUME NEW j \in S PROVE j <= i
  <2>1. n - i <= n - j
    BY <1>2, <1>3
  <2> QED BY <1>1, <2>1
<1> QED BY <1>4 DEF Newest

-----------------------------------------------------------------------------
(* Calls that take replies from the queues, or wait *)

(* A scope is that of call c: a session of its key, or any on a bound server. *)
ScopeOf(c, scope) ==
    /\ scope \in DOMAIN sessions \union {AnySession}
    /\ scope # AnySession => sessions[scope].key = c.key
    /\ scope = AnySession => bound # None

LEMMA HeldOwned ==
    ASSUME IInv, NEW c, NEW scope, ScopeOf(c, scope), c.scope = scope,
           NEW r \in Held(scope)
    PROVE  /\ r \in Replies /\ Owned(c, r, sessions, bound, log)
           /\ \E s \in Sessions : r \in queue[s]
<1>1. /\ DOMAIN sessions \subseteq Sessions /\ log \in Seq(Sessions)
      /\ queue \in [Sessions -> SUBSET Replies]
  <2>1. Len(sessions) \in Nat /\ DOMAIN sessions = 1 .. Len(sessions) /\ Len(sessions) <= MaxSessions
    BY DEF IInv, TypeOK
  <2>2. MaxSessions \in Nat
    BY McpServerAssumption
  <2> QED BY <2>1, <2>2 DEF IInv, TypeOK, Sessions
<1>2. PICK s \in Sessions : r \in queue[s] /\ (scope # AnySession => s = scope)
  BY <1>1 DEF Held, ScopeOf
<1>3. r \in DOMAIN log /\ log[r] = s /\ log[r] \in DOMAIN sessions
  BY <1>2 DEF IInv, LogSane
<1> QED BY <1>1, <1>2, <1>3 DEF Owned, ScopeOf

(* wait() finds a reply that is held. *)
LEMMA WaitTakesKeeps ==
    ASSUME IInv, NEW q \in Requests, call[q].pc \in {"unsent", "posting"},
           NEW c \in Call, c.got = {}, NEW scope, ScopeOf(c, scope),
           scope \in Sessions \union {AnySession},
           Around, WaitTakes(q, c, scope), UNCHANGED history
    PROVE  IInv'
<1> DEFINE r == First(Held(scope))
           d == [c EXCEPT !.scope = scope]
<1>1. /\ call \in [Requests -> Call] /\ given \in [Requests -> SUBSET Replies]
      /\ answers \in [Requests -> 0 .. 1] /\ queue \in [Sessions -> SUBSET Replies]
      /\ missed \subseteq Replies /\ cut \subseteq Replies
  BY DEF IInv, TypeOK
<1>2. given[q] = {} /\ answers[q] = 0 /\ call[q].got = {}
  BY DEF IInv, CallsSane, Sane, GivenSane, AnswersCounted, Counted
<1>3. d \in Call /\ d.scope = scope /\ d.key = c.key
  BY DEF Call
<1>4. Held(scope) \in SUBSET Nat
  BY <1>1 DEF Held, Replies
<1>5. r \in Held(scope)
  BY <1>4, FirstIn DEF WaitTakes
<1>6. ScopeOf(d, scope)
  BY <1>3 DEF ScopeOf
<1> HIDE DEF r, d
<1>7. r \in Replies /\ Owned(d, r, sessions, bound, log) /\ \E s \in Sessions : r \in queue[s]
  BY <1>3, <1>5, <1>6, HeldOwned
<1>8. /\ call' = [call EXCEPT ![q] = Woken(d, {r})] /\ queue' = [s \in Sessions |-> queue[s] \ {r}]
      /\ given' = given /\ answers' = answers /\ missed' = missed /\ cut' = cut /\ waiters' = waiters
  BY DEF WaitTakes, Remaining, history, r, d
<1>9. /\ Woken(d, {r}) \in Call /\ Woken(d, {r}).pc = "woken" /\ Woken(d, {r}).got = {r}
      /\ Woken(d, {r}).scope = scope /\ Woken(d, {r}).key = d.key
  BY <1>3, <1>7, WokenIs
<1>10. Sane(Woken(d, {r}), sessions', bound, log)
  <2>1. Placed(Woken(d, {r}), sessions', bound)
    BY <1>6, <1>9 DEF Placed, ScopeOf, Around
  <2>2. Owned(Woken(d, {r}), r, sessions', bound, log)
    BY <1>3, <1>7, <1>9, OwnedStays DEF Around
  <2> QED BY <1>9, <2>1, <2>2 DEF Sane
<1>11. /\ \A p \in Requests : p # q => call'[p] = call[p]
       /\ call'[q] = Woken(d, {r}) /\ DOMAIN call' = Requests /\ call' = [p \in Requests |-> call'[p]]
  BY <1>1, <1>8
<1>12. /\ DOMAIN queue' = Sessions /\ queue' = [s \in Sessions |-> queue'[s]]
       /\ \A s \in Sessions : queue'[s] = queue[s] \ {r}
  BY <1>1, <1>8
<1>13. Counted(call'[q], answers'[q], running, cut')
  BY <1>2, <1>8, <1>9, <1>11 DEF Counted
<1>14. Moves(q)
  BY <1>1, <1>2, <1>8, <1>9, <1>10, <1>11, <1>12, <1>13 DEF Moves
<1>15. OnePlace(log, queue, call, given, missed, cut)
  BY DEF IInv, Places
<1>16. OnePlace(log, queue', call', given, missed, cut)
  <2>1. \A t \in {r} : \E s \in Sessions : t \in queue[s]
    BY <1>7
  <2>2. call'[q].got = {r} /\ \A p \in Requests : p # q => call'[p].got = call[p].got
    BY <1>9, <1>11
  <2> QED BY <2>1, <2>2, <1>2, <1>12, <1>15, PlaceTaken
<1> QED BY <1>8, <1>9, <1>11, <1>14, <1>16, QuietMove

(* wait() finds nothing, and registers a waiter at the end of its list. *)
LEMMA WaitRegistersKeeps ==
    ASSUME IInv, NEW q \in Requests, call[q].pc \in {"unsent", "posting"},
           NEW c \in Call, c.got = {}, NEW scope, ScopeOf(c, scope),
           scope \in Sessions \union {AnySession},
           Around, WaitRegisters(q, c, scope), UNCHANGED history
    PROVE  IInv'
<1> DEFINE d == [c EXCEPT !.pc = "waiting", !.scope = scope]
<1>1. /\ call \in [Requests -> Call] /\ given \in [Requests -> SUBSET Replies]
      /\ answers \in [Requests -> 0 .. 1] /\ queue \in [Sessions -> SUBSET Replies]
      /\ missed \subseteq Replies /\ cut \subseteq Replies
      /\ waiters \in [Sessions \union {AnySession} -> Seq(Requests)]
  BY DEF IInv, TypeOK
<1>2. given[q] = {} /\ answers[q] = 0 /\ call[q].got = {}
  BY DEF IInv, CallsSane, Sane, GivenSane, AnswersCounted, Counted
<1>3. d \in Call /\ d.scope = scope /\ d.key = c.key /\ d.pc = "waiting" /\ d.got = {}
  BY DEF Call
<1>4. /\ call' = [call EXCEPT ![q] = d] /\ waiters' = [waiters EXCEPT ![scope] = Append(@, q)]
      /\ given' = given /\ answers' = answers /\ missed' = missed /\ cut' = cut /\ queue' = queue
  BY DEF WaitRegisters, history
<1> HIDE DEF d
<1>5. Sane(d, sessions', bound, log)
  BY <1>3 DEF Sane, Placed, ScopeOf, Around
<1>6. /\ \A p \in Requests : p # q => call'[p] = call[p]
      /\ call'[q] = d /\ DOMAIN call' = Requests /\ call' = [p \in Requests |-> call'[p]]
  BY <1>1, <1>4
<1>7. Counted(call'[q], answers'[q], running, cut')
  BY <1>2, <1>3, <1>4, <1>6 DEF Counted
<1>8. Moves(q)
  BY <1>1, <1>2, <1>3, <1>4, <1>5, <1>6, <1>7 DEF Moves
<1>9. Places'
  <2>1. \A p \in Requests : call'[p].got = call[p].got
    BY <1>2, <1>3, <1>6
  <2>2. OnePlace(log, queue, call, given, missed, cut)
    BY DEF IInv, Places
  <2>3. OnePlace(log, queue, call', given, missed, cut)
    BY <2>1, <2>2, PlaceStays
  <2> QED BY <2>3, <1>4 DEF Places, Around
<1> DEFINE old == waiters[scope]
           new == Append(old, q)
           n == Len(old)
<1>10. old \in Seq(Requests) /\ n \in Nat /\ DOMAIN old = 1 .. n
       /\ new \in Seq(Requests) /\ DOMAIN new = 1 .. n + 1 /\ new[n + 1] = q
       /\ \A i \in 1 .. n : new[i] = old[i]
  BY <1>1
<1>11. waiters'[scope] = new /\ (\A s \in Sessions \union {AnySession} : s # scope => waiters'[s] = waiters[s])
       /\ waiters' \in [Sessions \union {AnySession} -> Seq(Requests)]
  BY <1>1, <1>4, <1>10
<1> HIDE DEF new, n
<1>12. \A s \in Sessions \union {AnySession} : \A i \in DOMAIN waiters[s] :
           /\ waiters[s][i] \in Requests /\ waiters[s][i] # q
           /\ call'[waiters[s][i]].pc = "waiting" /\ call'[waiters[s][i]].scope = s
  BY <1>1, <1>6 DEF IInv, WaitsSane
<1>13. \A i \in 1 .. n : old[i] # q /\ call'[old[i]].pc = "waiting" /\ call'[old[i]].scope = scope
  BY <1>10, <1>12
<1>14. \A i, j \in 1 .. n : old[i] = old[j] => i = j
  BY <1>10 DEF IInv, WaitsSane
<1> HIDE DEF old
<1>15. \A i \in DOMAIN new : call'[new[i]].pc = "waiting" /\ call'[new[i]].scope = scope
  <2> SUFFICES ASSUME NEW i \in 1 .. n + 1
               PROVE  call'[new[i]].pc = "waiting" /\ call'[new[i]].scope = scope
    BY <1>10
  <2>1. CASE i = n + 1
    BY <2>1, <1>3, <1>6, <1>10
  <2>2. CASE i \in 1 .. n
    BY <2>2, <1>10, <1>13
  <2> QED BY <1>10, <2>1, <2>2
<1>16. \A i, j \in DOMAIN new : new[i] = new[j] => i = j
  <2> SUFFICES ASSUME NEW i \in 1 .. n + 1, NEW j \in 1 .. n + 1, new[i] = new[j] PROVE i = j
    BY <1>10
  <2>1. CASE i = n + 1 /\ j = n + 1
    BY <2>1
  <2>2. CASE i \in 1 .. n /\ j = n + 1
    BY <2>2, <1>10, <1>13
  <2>3. CASE i = n + 1 /\ j \in 1 .. n
    BY <2>3, <1>10, <1>13
  <2>4. CASE i \in 1 .. n /\ j \in 1 .. n
    BY <2>4, <1>10, <1>14
  <2> QED BY <1>10, <2>1, <2>2, <2>3, <2>4
<1>17. ASSUME NEW p \in Requests, call'[p].pc = "waiting"
       PROVE  \E i \in DOMAIN waiters'[call'[p].scope] : waiters'[call'[p].scope][i] = p
  <2>1. CASE p = q
    BY <2>1, <1>3, <1>6, <1>10, <1>11
  <2>2. CASE p # q
    <3>1. call'[p] = call[p] /\ call[p].pc = "waiting"
      BY <2>2, <1>6, <1>17
    <3>2. PICK i \in DOMAIN waiters[call[p].scope] : waiters[call[p].scope][i] = p
      BY <3>1 DEF IInv, WaitsSane
    <3>3. call[p].scope \in Sessions \union {AnySession}
      <4>1. call[p].scope \in DOMAIN sessions \union {AnySession}
        BY <3>1 DEF IInv, CallsSane, Sane, Placed, Active
      <4>2. DOMAIN sessions \subseteq Sessions
        <5>1. Len(sessions) \in Nat /\ DOMAIN sessions = 1 .. Len(sessions) /\ Len(sessions) <= MaxSessions
          BY DEF IInv, TypeOK
        <5> QED BY <5>1, McpServerAssumption DEF Sessions
      <4> QED BY <4>1, <4>2
    <3>4. CASE call[p].scope = scope
      BY <3>1, <3>2, <3>4, <1>10, <1>11 DEF old
    <3>5. CASE call[p].scope # scope
      BY <3>1, <3>2, <3>3, <3>5, <1>11
    <3> QED BY <3>4, <3>5
  <2> QED BY <2>1, <2>2
<1>18. WaitsSane'
  <2>1. \A s \in Sessions \union {AnySession} : \A i \in DOMAIN waiters'[s] :
            call'[waiters'[s][i]].pc = "waiting" /\ call'[waiters'[s][i]].scope = s
    BY <1>11, <1>12, <1>15
  <2>2. \A s \in Sessions \union {AnySession} : \A i, j \in DOMAIN waiters'[s] :
            waiters'[s][i] = waiters'[s][j] => i = j
    BY <1>11, <1>16 DEF IInv, WaitsSane
  <2> QED BY <2>1, <2>2, <1>17 DEF WaitsSane
<1> QED BY <1>8, <1>9, <1>11, <1>18, MovesKeeps DEF IInv

-----------------------------------------------------------------------------
(* A waiter leaves its list *)

(* The list has lost w, and keeps the others. *)
Lost(old, new, w) ==
    /\ new \in Seq(Requests)
    /\ \A i, j \in DOMAIN new : new[i] = new[j] => i = j
    /\ \A i \in DOMAIN new : new[i] # w /\ \E j \in DOMAIN old : old[j] = new[i]
    /\ \A j \in DOMAIN old : old[j] # w => \E i \in DOMAIN new : new[i] = old[j]

LEMMA TailLoses ==
    ASSUME NEW s \in Seq(Requests), s # <<>>, \A i, j \in DOMAIN s : s[i] = s[j] => i = j
    PROVE  Lost(s, Tail(s), Head(s)) /\ 1 \in DOMAIN s /\ s[1] = Head(s)
<1> DEFINE n == Len(s)
           t == Tail(s)
<1>1. n \in Nat /\ n >= 1 /\ DOMAIN s = 1 .. n /\ Head(s) = s[1]
  <2>1. Len(s) \in Nat /\ DOMAIN s = 1 .. Len(s) /\ Head(s) = s[1]
    OBVIOUS
  <2>2. Len(s) # 0
    BY EmptySeq
  <2> QED BY <2>1, <2>2
<1>2. t \in Seq(Requests) /\ DOMAIN t = 1 .. n - 1 /\ \A i \in 1 .. n - 1 : t[i] = s[i + 1]
  BY HeadTailProperties
<1> HIDE DEF n, t
<1>3. ASSUME NEW i \in DOMAIN t, NEW j \in DOMAIN t, t[i] = t[j] PROVE i = j
  <2>1. i + 1 \in DOMAIN s /\ j + 1 \in DOMAIN s /\ s[i + 1] = s[j + 1]
    BY <1>1, <1>2, <1>3
  <2> QED BY <2>1, <1>1, <1>2
<1>4. ASSUME NEW i \in DOMAIN t PROVE t[i] # Head(s) /\ \E j \in DOMAIN s : s[j] = t[i]
  <2>1. i \in Nat /\ i + 1 \in DOMAIN s /\ 1 \in DOMAIN s /\ i + 1 # 1 /\ t[i] = s[i + 1]
    BY <1>1, <1>2
  <2> QED BY <2>1, <1>1
<1>5. ASSUME NEW j \in DOMAIN s, s[j] # Head(s) PROVE \E i \in DOMAIN t : t[i] = s[j]
  <2>1. j - 1 \in DOMAIN t /\ t[j - 1] = s[j]
    BY <1>1, <1>2, <1>5
  <2> QED BY <2>1
<1> QED BY <1>1, <1>2, <1>3, <1>4, <1>5 DEF Lost, t

LEMMA WithoutLoses ==
    ASSUME NEW s \in Seq(Requests), NEW w, \E i \in DOMAIN s : s[i] = w,
           \A i, j \in DOMAIN s : s[i] = s[j] => i = j
    PROVE  Lost(s, Without(s, w), w)
<1> DEFINE n == Len(s)
           k == Position(s, w)
           t == Without(s, w)
<1>1. n \in Nat /\ DOMAIN s = 1 .. n /\ \A i \in 1 .. n : s[i] \in Requests
  OBVIOUS
<1>2. k \in 1 .. n /\ s[k] = w
  BY <1>1 DEF Position
<1> HIDE DEF k
<1>3. t = [i \in 1 .. n - 1 |-> IF i < k THEN s[i] ELSE s[i + 1]]
  BY DEF Without, k
<1>4. t \in Seq(Requests) /\ DOMAIN t = 1 .. n - 1
  <2>1. n - 1 \in Nat /\ \A i \in 1 .. n - 1 : (IF i < k THEN s[i] ELSE s[i + 1]) \in Requests
    BY <1>1, <1>2
  <2>2. t \in [1 .. n - 1 -> Requests]
    BY <2>1, <1>3
  <2> QED BY <2>1, <2>2
<1>5. \A i \in 1 .. n - 1 : t[i] = IF i < k THEN s[i] ELSE s[i + 1]
  BY <1>3
<1> HIDE DEF t, n
<1>6. \A i, j \in DOMAIN t : t[i] = t[j] => i = j
  <2> SUFFICES ASSUME NEW i \in 1 .. n - 1, NEW j \in 1 .. n - 1, t[i] = t[j] PROVE i = j
    BY <1>4
  <2>1. CASE i < k /\ j < k
    BY <2>1, <1>1, <1>2, <1>5
  <2>2. CASE i < k /\ ~(j < k)
    BY <2>2, <1>1, <1>2, <1>5
  <2>3. CASE ~(i < k) /\ j < k
    BY <2>3, <1>1, <1>2, <1>5
  <2>4. CASE ~(i < k) /\ ~(j < k)
    BY <2>4, <1>1, <1>2, <1>5
  <2> QED BY <2>1, <2>2, <2>3, <2>4
<1>7. ASSUME NEW i \in DOMAIN t PROVE t[i] # w /\ \E j \in DOMAIN s : s[j] = t[i]
  <2>1. CASE i < k
    BY <2>1, <1>1, <1>2, <1>4, <1>5
  <2>2. CASE ~(i < k)
    <3>1. t[i] = s[i + 1] /\ i + 1 \in 1 .. n /\ i + 1 # k
      BY <2>2, <1>1, <1>2, <1>4, <1>5
    <3> QED BY <3>1, <1>1, <1>2
  <2> QED BY <2>1, <2>2
<1>8. ASSUME NEW j \in DOMAIN s, s[j] # w PROVE \E i \in DOMAIN t : t[i] = s[j]
  <2>1. CASE j < k
    <3>1. j \in 1 .. n - 1 /\ t[j] = s[j]
      BY <2>1, <1>1, <1>2, <1>5
    <3> QED BY <3>1, <1>4
  <2>2. CASE j > k
    <3>1. j - 1 \in 1 .. n - 1 /\ t[j - 1] = s[j]
      BY <2>2, <1>1, <1>2, <1>5
    <3> QED BY <3>1, <1>4
  <2> QED BY <1>1, <1>2, <1>8, <2>1, <2>2
<1> QED BY <1>4, <1>6, <1>7, <1>8 DEF Lost, t

(* The waits that remain are registered as they were. *)
LEMMA WaitLeaves ==
    ASSUME IInv, NEW w \in Requests, call[w].pc = "waiting",
           NEW k \in Sessions \union {AnySession}, k = call[w].scope,
           NEW new, Lost(waiters[k], new, w), waiters' = [waiters EXCEPT ![k] = new],
           call'[w].pc # "waiting",
           \A p \in Requests : p # w /\ (call[p].pc = "waiting" \/ call'[p].pc = "waiting")
                                  => call'[p] = call[p]
    PROVE  WaitsSane' /\ waiters' \in [Sessions \union {AnySession} -> Seq(Requests)]
<1>1. waiters \in [Sessions \union {AnySession} -> Seq(Requests)]
  BY DEF IInv, TypeOK
<1>2. /\ waiters'[k] = new /\ \A s \in Sessions \union {AnySession} : s # k => waiters'[s] = waiters[s]
      /\ waiters' \in [Sessions \union {AnySession} -> Seq(Requests)]
  BY <1>1 DEF Lost
<1>3. \A s \in Sessions \union {AnySession} : \A i \in DOMAIN waiters[s] :
          /\ waiters[s][i] \in Requests
          /\ call[waiters[s][i]].pc = "waiting" /\ call[waiters[s][i]].scope = s
  BY <1>1 DEF IInv, WaitsSane
<1>4. ASSUME NEW s \in Sessions \union {AnySession}, NEW i \in DOMAIN waiters'[s]
      PROVE  call'[waiters'[s][i]].pc = "waiting" /\ call'[waiters'[s][i]].scope = s
  <2>1. CASE s # k
    BY <2>1, <1>2, <1>3
  <2>2. CASE s = k
    <3>1. PICK j \in DOMAIN waiters[k] : waiters[k][j] = new[i] /\ new[i] # w
      BY <2>2, <1>2, <1>4 DEF Lost
    <3> QED BY <3>1, <2>2, <1>2, <1>3
  <2> QED BY <2>1, <2>2
<1>5. \A s \in Sessions \union {AnySession} : \A i, j \in DOMAIN waiters'[s] :
          waiters'[s][i] = waiters'[s][j] => i = j
  BY <1>2 DEF Lost, IInv, WaitsSane
<1>6. ASSUME NEW p \in Requests, call'[p].pc = "waiting"
      PROVE  \E i \in DOMAIN waiters'[call'[p].scope] : waiters'[call'[p].scope][i] = p
  <2>1. p # w /\ call'[p] = call[p]
    BY <1>6
  <2>2. PICK j \in DOMAIN waiters[call[p].scope] : waiters[call[p].scope][j] = p
    BY <2>1, <1>6 DEF IInv, WaitsSane
  <2>3. CASE call[p].scope = k
    BY <2>1, <2>2, <2>3, <1>2 DEF Lost
  <2>4. CASE call[p].scope # k
    <3>1. call[p].scope \in Sessions \union {AnySession}
      <4>1. call[p].scope \in DOMAIN sessions \union {AnySession}
        BY <2>1, <1>6 DEF IInv, CallsSane, Sane, Placed, Active
      <4>2. Len(sessions) \in Nat /\ DOMAIN sessions = 1 .. Len(sessions) /\ Len(sessions) <= MaxSessions
        BY DEF IInv, TypeOK
      <4> QED BY <4>1, <4>2, McpServerAssumption DEF Sessions
    <3> QED BY <3>1, <2>1, <2>2, <2>4, <1>2
  <2> QED BY <2>3, <2>4
<1> QED BY <1>2, <1>4, <1>5, <1>6 DEF WaitsSane

(* A reply of session s that no place holds is dispatched; calls are the    *)
(* calls besides the wait that it may go to.                               *)
Dispatches(calls, s, r) ==
    /\ Dispatch(s, r, calls) /\ UNCHANGED history
    /\ bound' = bound /\ delegated' = delegated /\ running' = running
    /\ sessions' \in Seq([key : Keys, closed : BOOLEAN]) /\ Len(sessions') <= MaxSessions
    /\ log' \in Seq(Sessions) /\ Len(log') <= MaxReplies
    /\ \A t \in DOMAIN log' : log'[t] \in DOMAIN sessions'
    /\ r \in DOMAIN log' /\ log'[r] = s
    /\ \A t \in DOMAIN log : t \in DOMAIN log' /\ log'[t] = log[t]
    /\ \A p \in Requests :
        /\ Sane(calls[p], sessions', bound, log')
        /\ call[p].pc = "waiting" \/ calls[p].pc = "waiting" => calls[p] = call[p]
        /\ calls[p].pc # "done" => given[p] = {}
        /\ \A t \in given[p] : Owned(calls[p], t, sessions', bound, log')
        /\ Counted(calls[p], answers[p], running, cut)

(* Wherever it goes, each reply is in one place. *)
Dispatched(calls, s, r) ==
    /\ \A R, D : (/\ R[s] = queue[s] \union {r}
                  /\ \A t \in Sessions : t # s => R[t] = queue[t]
                  /\ \A p \in Requests : D[p].got = calls[p].got)
                 => OnePlace(log', R, D, given, missed, cut)
    /\ \A w \in Requests : \A D :
            (/\ calls[w].got = {} /\ call[w].pc = "waiting" /\ D[w].got = {r}
             /\ \A p \in Requests : p # w => D[p].got = calls[p].got)
            => OnePlace(log', queue, D, given, missed, cut)

LEMMA DispatchKeeps ==
    ASSUME IInv, NEW calls \in [Requests -> Call], NEW s \in Sessions, NEW r \in Replies,
           Dispatches(calls, s, r), Dispatched(calls, s, r)
    PROVE  IInv'
<1>1. /\ queue \in [Sessions -> SUBSET Replies]
      /\ waiters \in [Sessions \union {AnySession} -> Seq(Requests)]
      /\ given' = given /\ answers' = answers /\ missed' = missed /\ cut' = cut
      /\ bound' = bound /\ running' = running
  BY DEF IInv, TypeOK, Dispatches, history
<1>2. ASSUME call' \in [Requests -> Call], queue' \in [Sessions -> SUBSET Replies],
             waiters' \in [Sessions \union {AnySession} -> Seq(Requests)]
      PROVE  TypeOK'
  <2>1. /\ given' \in [Requests -> SUBSET Replies] /\ answers' \in [Requests -> 0 .. 1]
        /\ missed' \subseteq Replies /\ cut' \subseteq Replies
    BY <1>1 DEF IInv, TypeOK
  <2>2. /\ bound' \in Keys \union {None} /\ delegated' \in BOOLEAN /\ running' \in BOOLEAN
        /\ sessions' \in Seq([key : Keys, closed : BOOLEAN]) /\ Len(sessions') <= MaxSessions
        /\ log' \in Seq(Sessions) /\ Len(log') <= MaxReplies
    BY DEF IInv, TypeOK, Dispatches
  <2> QED BY <1>2, <2>1, <2>2 DEF TypeOK
<1>3. CASE Waiting(s) = {}
  <2>1. queue' = [queue EXCEPT ![s] = @ \union {r}] /\ call' = calls /\ waiters' = waiters
    BY <1>3 DEF Dispatches, Dispatch
  <2>2. /\ queue' \in [Sessions -> SUBSET Replies] /\ queue'[s] = queue[s] \union {r}
        /\ \A t \in Sessions : t # s => queue'[t] = queue[t]
    BY <1>1, <2>1
  <2>3. TypeOK'
    BY <1>1, <1>2, <2>1, <2>2
  <2>4. CallsSane' /\ GivenSane' /\ AnswersCounted'
    BY <1>1, <2>1 DEF Dispatches, CallsSane, GivenSane, AnswersCounted
  <2>5. LogSane'
    <3>1. ASSUME NEW t \in Sessions, NEW x \in queue'[t] PROVE x \in DOMAIN log' /\ log'[x] = t
      <4>1. CASE x \in queue[t]
        BY <4>1 DEF IInv, LogSane, Dispatches
      <4>2. CASE x \notin queue[t]
        <5>1. t = s /\ x = r
          BY <3>1, <4>2, <2>2
        <5> QED BY <5>1 DEF Dispatches
      <4> QED BY <4>1, <4>2
    <3>2. \A t \in DOMAIN log' : log'[t] \in DOMAIN sessions'
      BY DEF Dispatches
    <3> QED BY <3>1, <3>2 DEF LogSane
  <2>6. WaitsSane'
    <3>1. \A t \in Sessions \union {AnySession} : \A i \in DOMAIN waiters[t] :
              waiters[t][i] \in Requests
      BY <1>1
    <3>2. \A p \in Requests : call[p].pc = "waiting" \/ call'[p].pc = "waiting" => call'[p] = call[p]
      BY <2>1 DEF Dispatches
    <3>3. \A t \in Sessions \union {AnySession} : \A i \in DOMAIN waiters[t] :
              call'[waiters[t][i]].pc = "waiting" /\ call'[waiters[t][i]].scope = t
      BY <3>1, <3>2 DEF IInv, WaitsSane
    <3>4. \A p \in Requests : call'[p].pc = "waiting" =>
              \E i \in DOMAIN waiters[call'[p].scope] : waiters[call'[p].scope][i] = p
      BY <3>2 DEF IInv, WaitsSane
    <3> QED BY <3>3, <3>4, <2>1 DEF IInv, WaitsSane
  <2>7. Places'
    <3>1. OnePlace(log', queue', call', given, missed, cut)
      BY <2>1, <2>2 DEF Dispatched
    <3> QED BY <3>1, <1>1 DEF Places
  <2> QED BY <2>3, <2>4, <2>5, <2>6, <2>7 DEF IInv
<1>4. CASE Waiting(s) # {}
  <2>1. PICK k \in {s, AnySession} :
            /\ waiters[k] # <<>>
            /\ waiters' = [waiters EXCEPT ![k] = Tail(waiters[k])]
            /\ call' = [calls EXCEPT ![Head(waiters[k])] = Woken(calls[Head(waiters[k])], {r})]
            /\ queue' = queue
    <3>1. PICK v \in Waiting(s) :
              /\ waiters' = [waiters EXCEPT ![v[1]] = Tail(waiters[v[1]])]
              /\ call' = [calls EXCEPT ![v[2]] = Woken(calls[v[2]], {r})]
              /\ queue' = queue
      BY <1>4 DEF Dispatches, Dispatch
    <3>2. v[1] \in {s, AnySession} /\ waiters[v[1]] # <<>> /\ v[2] = Head(waiters[v[1]])
      BY DEF Waiting
    <3> QED BY <3>1, <3>2
  <2> DEFINE w == Head(waiters[k])
  <2>2. k \in Sessions \union {AnySession} /\ waiters[k] \in Seq(Requests)
    BY <1>1
  <2>3. /\ Lost(waiters[k], Tail(waiters[k]), w) /\ 1 \in DOMAIN waiters[k] /\ waiters[k][1] = w
        /\ w \in Requests
    <3>1. \A i, j \in DOMAIN waiters[k] : waiters[k][i] = waiters[k][j] => i = j
      BY <2>2 DEF IInv, WaitsSane
    <3>2. w \in Requests
      BY <2>1, <2>2, HeadTailProperties
    <3> QED BY <3>1, <3>2, <2>1, <2>2, TailLoses
  <2>4. call[w].pc = "waiting" /\ call[w].scope = k
    BY <2>2, <2>3 DEF IInv, WaitsSane
  <2>5. calls[w] = call[w] /\ calls[w] \in Call /\ Sane(calls[w], sessions', bound, log') /\ given[w] = {}
        /\ Counted(calls[w], answers[w], running, cut)
    BY <2>3, <2>4 DEF Dispatches
  <2> HIDE DEF w
  <2>6. /\ Woken(calls[w], {r}) \in Call /\ Woken(calls[w], {r}).pc = "woken"
        /\ Woken(calls[w], {r}).got = {r} /\ Woken(calls[w], {r}).scope = k
        /\ Woken(calls[w], {r}).key = calls[w].key
        /\ Woken(calls[w], {r}).cancelled = calls[w].cancelled
    BY <2>4, <2>5, WokenIs
  <2>7. Sane(Woken(calls[w], {r}), sessions', bound, log')
    <3>1. Placed(Woken(calls[w], {r}), sessions', bound)
      BY <2>4, <2>5, <2>6 DEF Sane, Placed, Active
    <3>2. Owned(Woken(calls[w], {r}), r, sessions', bound, log')
      <4>1. r \in DOMAIN log' /\ log'[r] = s /\ s \in DOMAIN sessions'
        BY DEF Dispatches
      <4>2. k = AnySession => bound # None
        BY <2>4, <2>5 DEF Sane, Placed, Active
      <4>3. k # AnySession => sessions'[s].key = calls[w].key
        BY <2>4, <2>5 DEF Sane, Placed, Active
      <4> QED BY <4>1, <4>2, <4>3, <2>6 DEF Owned
    <3> QED BY <3>1, <3>2, <2>6 DEF Sane
  <2>8. /\ call' \in [Requests -> Call] /\ call'[w] = Woken(calls[w], {r})
        /\ \A p \in Requests : p # w => call'[p] = calls[p]
    BY <2>1, <2>3, <2>6 DEF w
  <2>9. WaitsSane' /\ waiters' \in [Sessions \union {AnySession} -> Seq(Requests)]
    <3>1. waiters' = [waiters EXCEPT ![k] = Tail(waiters[k])]
      BY <2>1
    <3>2. \A p \in Requests : p # w /\ (call[p].pc = "waiting" \/ call'[p].pc = "waiting")
                                 => call'[p] = call[p]
      BY <2>8 DEF Dispatches
    <3>3. call'[w].pc # "waiting"
      BY <2>6, <2>8
    <3> QED BY <3>1, <3>2, <3>3, <2>2, <2>3, <2>4, WaitLeaves
  <2>10. TypeOK'
    BY <1>1, <1>2, <2>1, <2>8, <2>9
  <2>11. CallsSane'
    <3> SUFFICES ASSUME NEW p \in Requests PROVE Sane(call'[p], sessions', bound, log')
      BY <1>1 DEF CallsSane
    <3>1. CASE p = w
      BY <3>1, <2>7, <2>8
    <3>2. CASE p # w
      BY <3>2, <2>8 DEF Dispatches
    <3> QED BY <3>1, <3>2
  <2>12. GivenSane' /\ AnswersCounted'
    <3> SUFFICES ASSUME NEW p \in Requests
                 PROVE  /\ call'[p].pc # "done" => given[p] = {}
                        /\ \A t \in given[p] : Owned(call'[p], t, sessions', bound, log')
                        /\ Counted(call'[p], answers[p], running, cut)
      BY <1>1 DEF GivenSane, AnswersCounted
    <3>1. CASE p = w
      <4>1. Counted(call'[w], answers[w], running, cut)
        BY <2>4, <2>5, <2>6, <2>8 DEF Counted
      <4> QED BY <4>1, <3>1, <2>5
    <3>2. CASE p # w
      BY <3>2, <2>8 DEF Dispatches
    <3> QED BY <3>1, <3>2
  <2>13. LogSane'
    BY <2>1 DEF IInv, LogSane, Dispatches
  <2>14. Places'
    <3>1. calls[w].got = {}
      BY <2>4, <2>5 DEF Sane
    <3>2. call'[w].got = {r} /\ \A p \in Requests : p # w => call'[p].got = calls[p].got
      BY <2>6, <2>8
    <3>3. \A D : D[w].got = {r} /\ (\A p \in Requests : p # w => D[p].got = calls[p].got)
                 => OnePlace(log', queue, D, given, missed, cut)
      BY <2>3, <2>4, <3>1 DEF Dispatched
    <3>4. OnePlace(log', queue, call', given, missed, cut)
      BY <3>2, <3>3
    <3> QED BY <3>4, <2>1, <1>1 DEF Places
  <2> QED BY <2>9, <2>10, <2>11, <2>12, <2>13, <2>14 DEF IInv
<1> QED BY <1>3, <1>4

LEMMA Replaced ==
    ASSUME NEW S, NEW seq \in Seq(S), NEW i \in DOMAIN seq
    PROVE  /\ seq[i] \in S
           /\ \A e \in S : /\ [seq EXCEPT ![i] = e] \in Seq(S)
                          /\ Len([seq EXCEPT ![i] = e]) = Len(seq)
                          /\ DOMAIN [seq EXCEPT ![i] = e] = DOMAIN seq
OBVIOUS

(* A reply that is read is owned as before by those that have it. *)
LEMMA SaneGrows ==
    ASSUME NEW c, NEW S, NEW T, NEW B, NEW L, NEW K, Sane(c, S, B, L),
           DOMAIN S \subseteq DOMAIN T, \A s \in DOMAIN S : T[s].key = S[s].key,
           \A r \in DOMAIN L : r \in DOMAIN K /\ K[r] = L[r]
    PROVE  Sane(c, T, B, K)
<1>1. \A r \in c.got : Owned(c, r, T, B, K)
  BY DEF Sane, Owned
<1>2. Placed(c, T, B)
  BY DEF Sane, Placed
<1> QED BY <1>1, <1>2 DEF Sane

LEMMA ReadsKeeps ==
    ASSUME IInv, NEW s \in Sessions, NEW closing \in BOOLEAN, Reads(s, closing)
    PROVE  IInv'
<1> DEFINE r == Len(log')
<1>1. /\ call \in [Requests -> Call] /\ log \in Seq(Sessions) /\ Len(log) < MaxReplies
      /\ log' = Append(log, s) /\ s \in DOMAIN sessions /\ Dispatch(s, r, call)
      /\ bound' = bound /\ delegated' = delegated /\ running' = running /\ UNCHANGED history
      /\ sessions \in Seq([key : Keys, closed : BOOLEAN]) /\ Len(sessions) <= MaxSessions
  BY DEF IInv, TypeOK, Reads, Open, Known
<1>2. /\ Len(log) \in Nat /\ DOMAIN log = 1 .. Len(log) /\ r = Len(log) + 1 /\ MaxReplies \in Nat
      /\ log' \in Seq(Sessions) /\ Len(log') = r /\ DOMAIN log' = 1 .. r /\ log'[r] = s
      /\ \A t \in 1 .. Len(log) : log'[t] = log[t]
  BY <1>1, McpServerAssumption
<1> HIDE DEF r
<1>3. /\ r \in Replies /\ Len(log') <= MaxReplies
      /\ r \notin DOMAIN log /\ DOMAIN log' = DOMAIN log \union {r}
      /\ \A t \in DOMAIN log : t \in DOMAIN log' /\ log'[t] = log[t]
  BY <1>1, <1>2 DEF Replies
<1>4. /\ sessions' \in Seq([key : Keys, closed : BOOLEAN]) /\ Len(sessions') <= MaxSessions
      /\ DOMAIN sessions' = DOMAIN sessions /\ \A t \in DOMAIN sessions : sessions'[t].key = sessions[t].key
  <2>1. CASE sessions' = sessions
    BY <2>1, <1>1
  <2>2. CASE sessions' = [sessions EXCEPT ![s].closed = TRUE]
    <3>1. sessions[s] \in [key : Keys, closed : BOOLEAN]
      BY <1>1, Replaced
    <3>2. [sessions[s] EXCEPT !.closed = TRUE] \in [key : Keys, closed : BOOLEAN]
          /\ [sessions[s] EXCEPT !.closed = TRUE].key = sessions[s].key
      BY <3>1
    <3>3. sessions' = [sessions EXCEPT ![s] = [sessions[s] EXCEPT !.closed = TRUE]]
      BY <2>2
    <3> DEFINE e == [sessions[s] EXCEPT !.closed = TRUE]
    <3> HIDE DEF e
    <3>4. sessions' = [sessions EXCEPT ![s] = e] /\ e \in [key : Keys, closed : BOOLEAN]
          /\ e.key = sessions[s].key
      BY <3>2, <3>3 DEF e
    <3>5. sessions' \in Seq([key : Keys, closed : BOOLEAN]) /\ Len(sessions') = Len(sessions)
          /\ DOMAIN sessions' = DOMAIN sessions
      BY <3>4, <1>1
    <3> QED BY <3>4, <3>5, <1>1
  <2> QED BY <2>1, <2>2 DEF Reads
<1>5. \A p \in Requests : Sane(call[p], sessions', bound, log')
  BY <1>3, <1>4, SaneGrows DEF IInv, CallsSane
<1>6. \A p \in Requests : \A t \in given[p] : Owned(call[p], t, sessions', bound, log')
  BY <1>3, <1>4 DEF IInv, GivenSane, Owned
<1>7. \A t \in DOMAIN log' : log'[t] \in DOMAIN sessions'
  BY <1>1, <1>2, <1>3, <1>4 DEF IInv, LogSane
<1>8. \A p \in Requests : /\ call[p].pc # "done" => given[p] = {}
                          /\ Counted(call[p], answers[p], running, cut)
  BY DEF IInv, GivenSane, AnswersCounted
<1>9. Dispatches(call, s, r)
  BY <1>1, <1>2, <1>3, <1>4, <1>5, <1>6, <1>7, <1>8 DEF Dispatches
<1>10. OnePlace(log, queue, call, given, missed, cut)
  BY DEF IInv, Places
<1>11. ASSUME NEW R, NEW D, R[s] = queue[s] \union {r}, \A t \in Sessions : t # s => R[t] = queue[t],
              \A p \in Requests : D[p].got = call[p].got
       PROVE  OnePlace(log', R, D, given, missed, cut)
  BY <1>3, <1>10, <1>11, PlaceQueued
<1>12. ASSUME NEW w \in Requests, NEW D, call[w].got = {}, D[w].got = {r},
              \A p \in Requests : p # w => D[p].got = call[p].got
       PROVE  OnePlace(log', queue, D, given, missed, cut)
  BY <1>3, <1>10, <1>12, PlaceHanded
<1>13. Dispatched(call, s, r)
  BY <1>11, <1>12 DEF Dispatched
<1> QED BY <1>1, <1>3, <1>9, <1>13, DispatchKeeps

(* An abandoned wait ends, and what it took is dispatched again. *)
LEMMA GivesBackKeeps ==
    ASSUME IInv, NEW q \in Requests, call[q].pc = "woken", GivesBack(q), call[q].got # {},
           UNCHANGED <<config, sessions, log, running>>
    PROVE  IInv'
<1> DEFINE d == Done(call[q])
           calls == [call EXCEPT ![q] = d]
<1>1. call \in [Requests -> Call] /\ call[q] \in Call /\ Sane(call[q], sessions, bound, log)
  BY DEF IInv, TypeOK, CallsSane
<1>2. d \in Call /\ d.pc = "done" /\ d.got = {} /\ d.scope = call[q].scope /\ d.key = call[q].key
      /\ d.cancelled = call[q].cancelled
  BY <1>1, DoneIs
<1>3. PICK r \in call[q].got : Dispatch(log[r], r, calls)
  BY DEF GivesBack
<1> DEFINE s == log[r]
<1>4. /\ call[q].got = {r} /\ r \in DOMAIN log /\ s \in Sessions /\ r \in Replies
  <2>1. call[q].got = {r} /\ Owned(call[q], r, sessions, bound, log)
    BY <1>1 DEF Sane
  <2>2. r \in Replies
    BY <1>1 DEF Call
  <2>3. log \in Seq(Sessions)
    BY DEF IInv, TypeOK
  <2> QED BY <2>1, <2>2, <2>3 DEF Owned
<1> HIDE DEF d
<1>5. calls \in [Requests -> Call] /\ calls[q] = d /\ \A p \in Requests : p # q => calls[p] = call[p]
  BY <1>1, <1>2
<1>6. call[q].cancelled /\ UNCHANGED history
  BY DEF GivesBack
<1> HIDE DEF calls, s
<1>7. Dispatches(calls, s, r)
  <2>1. Dispatch(s, r, calls)
    BY <1>3 DEF s
  <2>2. /\ bound' = bound /\ delegated' = delegated /\ running' = running
        /\ sessions' = sessions /\ log' = log
    BY DEF config
  <2>3. /\ sessions \in Seq([key : Keys, closed : BOOLEAN]) /\ Len(sessions) <= MaxSessions
        /\ log \in Seq(Sessions) /\ Len(log) <= MaxReplies
    BY DEF IInv, TypeOK
  <2>4. r \in DOMAIN log /\ log[r] = s /\ \A t \in DOMAIN log : log[t] \in DOMAIN sessions
    BY <1>4 DEF IInv, LogSane, s
  <2>5. ASSUME NEW p \in Requests
        PROVE  /\ Sane(calls[p], sessions, bound, log)
               /\ call[p].pc = "waiting" \/ calls[p].pc = "waiting" => calls[p] = call[p]
               /\ calls[p].pc # "done" => given[p] = {}
               /\ \A t \in given[p] : Owned(calls[p], t, sessions, bound, log)
               /\ Counted(calls[p], answers[p], running, cut)
    <3>1. /\ Sane(call[p], sessions, bound, log)
          /\ call[p].pc # "done" => given[p] = {}
          /\ \A t \in given[p] : Owned(call[p], t, sessions, bound, log)
          /\ Counted(call[p], answers[p], running, cut)
      BY DEF IInv, CallsSane, GivenSane, AnswersCounted
    <3>2. CASE p # q
      BY <3>1, <3>2, <1>5
    <3>3. CASE p = q
      <4>1. Sane(d, sessions, bound, log)
        BY <1>2 DEF Sane, Placed, Active
      <4>2. given[q] = {} /\ Counted(d, answers[q], running, cut)
        BY <3>1, <3>3, <1>2, <1>6 DEF Counted
      <4> QED BY <3>3, <4>1, <4>2, <1>2, <1>5
    <3> QED BY <3>2, <3>3
  <2> QED BY <2>1, <2>2, <2>3, <2>4, <2>5, <1>6 DEF Dispatches
<1>8. OnePlace(log, queue, call, given, missed, cut) /\ log' = log
  BY DEF IInv, Places
<1>9. ASSUME NEW R, NEW D, R[s] = queue[s] \union {r}, \A t \in Sessions : t # s => R[t] = queue[t],
             \A p \in Requests : D[p].got = calls[p].got
      PROVE  OnePlace(log', R, D, given, missed, cut)
  <2>1. D[q].got = {} /\ \A p \in Requests : p # q => D[p].got = call[p].got
    BY <1>2, <1>5, <1>9
  <2> QED BY <2>1, <1>4, <1>8, <1>9, PlaceReturned DEF s
<1>10. ASSUME NEW w \in Requests, NEW D, calls[w].got = {}, call[w].pc = "waiting", D[w].got = {r},
              \A p \in Requests : p # w => D[p].got = calls[p].got
       PROVE  OnePlace(log', queue, D, given, missed, cut)
  <2>1. w # q /\ call[w].got = {} /\ D[q].got = {}
        /\ D[w].got = {r} /\ \A p \in Requests : p # q /\ p # w => D[p].got = call[p].got
    BY <1>2, <1>5, <1>10
  <2>2. OnePlace(log, queue, call, given, missed, cut) /\ call[q].got = {r}
    BY <1>4, <1>8
  <2>3. OnePlace(log, queue, D, given, missed, cut)
    BY <2>1, <2>2 DEF OnePlace
  <2> QED BY <2>3, <1>8
<1>11. Dispatched(calls, s, r)
  BY <1>9, <1>10 DEF Dispatched
<1> QED BY <1>4, <1>5, <1>7, <1>11, DispatchKeeps

(* A call goes on, and no reply moves. *)
LEMMA PlainMove ==
    ASSUME IInv, NEW q \in Requests, NEW d, Around, call' = [call EXCEPT ![q] = d],
           Sane(d, sessions', bound, log), d.got = call[q].got, given[q] = {},
           \/ call[q].pc # "waiting" /\ d.pc # "waiting"
           \/ d.pc = call[q].pc /\ d.scope = call[q].scope,
           NEW n \in 0 .. 1, Counted(d, n, running, cut), answers' = [answers EXCEPT ![q] = n],
           UNCHANGED <<queue, waiters, given, missed, cut>>
    PROVE  IInv'
<1>1. /\ call \in [Requests -> Call] /\ given \in [Requests -> SUBSET Replies]
      /\ answers \in [Requests -> 0 .. 1] /\ queue \in [Sessions -> SUBSET Replies]
      /\ missed \subseteq Replies /\ cut \subseteq Replies
      /\ waiters \in [Sessions \union {AnySession} -> Seq(Requests)]
  BY DEF IInv, TypeOK
<1>2. /\ \A p \in Requests : p # q => call'[p] = call[p] /\ answers'[p] = answers[p]
      /\ call'[q] = d /\ DOMAIN call' = Requests /\ call' = [p \in Requests |-> call'[p]]
      /\ answers'[q] = n /\ DOMAIN answers' = Requests /\ answers' = [p \in Requests |-> answers'[p]]
  BY <1>1
<1>3. Moves(q)
  BY <1>1, <1>2 DEF Moves
<1>4. Places'
  <2>1. \A p \in Requests : call'[p].got = call[p].got
    BY <1>2
  <2>2. OnePlace(log, queue, call', given, missed, cut)
    BY <2>1, PlaceStays DEF IInv, Places
  <2> QED BY <2>2 DEF Places, Around
<1>5. WaitsSane'
  <2>1. CASE call[q].pc # "waiting" /\ d.pc # "waiting"
    BY <2>1, <1>2, <1>3, NoWaitMoves
  <2>2. CASE d.pc = call[q].pc /\ d.scope = call[q].scope
    <3>1. \A p \in Requests : call'[p].pc = call[p].pc /\ call'[p].scope = call[p].scope
      BY <2>2, <1>2
    <3>2. \A s \in Sessions \union {AnySession} : \A i \in DOMAIN waiters[s] : waiters[s][i] \in Requests
      BY <1>1
    <3> QED BY <3>1, <3>2 DEF IInv, WaitsSane
  <2> QED BY <2>1, <2>2
<1> QED BY <1>1, <1>3, <1>4, <1>5, MovesKeeps DEF IInv

(* The undelivered replies of the scope of a call are taken. *)
LEMMA TakesKeeps ==
    ASSUME IInv, NEW q \in Requests, call[q].pc \in {"polling", "woken"}, call[q].got = {}, Takes(q),
           UNCHANGED <<config, sessions, log, running>>
    PROVE  IInv'
<1> DEFINE taken == Held(call[q].scope)
<1>1. Active(call[q]) /\ call[q].pc # "waiting" /\ call[q].pc # "posting" /\ Around /\ waiters' = waiters
  BY AroundUnchanged DEF Active, IInv, Takes
<1>2. ScopeOf(call[q], call[q].scope)
  BY <1>1 DEF IInv, CallsSane, Sane, Placed, ScopeOf
<1>3. \A r \in taken : /\ r \in Replies /\ Owned(call[q], r, sessions, bound, log)
                      /\ \E s \in Sessions : r \in queue[s]
  BY <1>2, HeldOwned
<1>4. queue' = [s \in Sessions |-> queue[s] \ taken]
  BY DEF Takes, Remaining
<1>5. CASE taken = {} /\ Answer(q, {})
  <2>1. queue' = queue
    BY <1>4, <1>5 DEF IInv, TypeOK
  <2> QED BY <2>1, <1>1, <1>5, AnswerKeeps
<1>6. CASE Acknowledges(q, taken)
  <2>1. taken \in SUBSET Replies
    BY <1>3
  <2> HIDE DEF taken
  <2> QED BY <2>1, <1>1, <1>3, <1>4, <1>6, AcknowledgeKeeps
<1> QED BY <1>5, <1>6 DEF Takes

-----------------------------------------------------------------------------
(* The steps of a call *)

LEMMA AwakesKeeps == ASSUME IInv, NEW q \in Requests, Awakes(q) PROVE IInv'
<1>1. /\ call[q].pc = "woken" /\ UNCHANGED <<config, sessions, log, running>>
      /\ Active(call[q]) /\ call[q].pc # "waiting" /\ call[q].pc # "posting" /\ Around
  BY AroundUnchanged DEF Awakes, Serves, Active, IInv
<1>2. Sane(call[q], sessions, bound, log)
  BY DEF IInv, CallsSane
<1>3. CASE GivesBack(q)
  <2>1. CASE call[q].got # {}
    BY <2>1, <1>1, <1>3, GivesBackKeeps
  <2>2. CASE call[q].got = {}
    <3> DEFINE d == Done(call[q])
    <3>1. call' = [call EXCEPT ![q] = d] /\ call[q].cancelled /\ UNCHANGED <<history, queue, waiters>>
      BY <2>2, <1>3 DEF GivesBack
    <3>2. call[q] \in Call
      BY DEF IInv, TypeOK
    <3>3. d \in Call /\ d.pc = "done" /\ d.got = {} /\ d.cancelled
      BY <3>1, <3>2, DoneIs
    <3> HIDE DEF d
    <3>4. given[q] = {} /\ answers[q] = 0 /\ answers \in [Requests -> 0 .. 1]
      BY <1>1 DEF IInv, GivenSane, AnswersCounted, Counted, TypeOK
    <3>5. answers' = [answers EXCEPT ![q] = 0] /\ Counted(d, 0, running, cut)
      BY <3>1, <3>3, <3>4 DEF Counted, history
    <3>6. Sane(d, sessions', bound, log)
      BY <3>3 DEF Sane, Placed, Active
    <3>7. UNCHANGED <<queue, waiters, given, missed, cut>>
      BY <3>1 DEF history
    <3> QED BY <1>1, <2>2, <3>1, <3>3, <3>4, <3>5, <3>6, <3>7, PlainMove
  <2> QED BY <2>1, <2>2
<1>4. CASE Acknowledges(q, call[q].got) /\ UNCHANGED <<queue, waiters>>
  <2>1. call[q].got \in SUBSET Replies /\ \A r \in call[q].got : Owned(call[q], r, sessions, bound, log)
    BY <1>2 DEF Sane, Call
  <2> QED BY <2>1, <1>1, <1>4, AcknowledgeKeeps
<1>5. CASE call[q].got = {} /\ Answer(q, {}) /\ UNCHANGED <<queue, waiters>>
  BY <1>1, <1>5, AnswerKeeps
<1>6. CASE call[q].got = {} /\ Takes(q)
  BY <1>1, <1>6, TakesKeeps
<1> QED BY <1>3, <1>4, <1>5, <1>6 DEF Awakes

LEMMA PolledKeeps == ASSUME IInv, NEW q \in Requests, Polled(q) PROVE IInv'
<1>1. call[q].pc = "polling" /\ Takes(q) /\ UNCHANGED <<config, sessions, log, running>>
  BY DEF Polled, Serves
<1>2. call[q].got = {}
  BY <1>1 DEF IInv, CallsSane, Sane
<1> QED BY <1>1, <1>2, TakesKeeps

LEMMA PostFailsKeeps == ASSUME IInv, NEW q \in Requests, PostFails(q) PROVE IInv'
<1>1. /\ call[q].pc = "posting" /\ UNCHANGED <<config, sessions, log, running, queue, waiters>>
      /\ Active(call[q]) /\ Around /\ Answer(q, {})
  BY AroundUnchanged DEF PostFails, Serves, Active, IInv
<1>2. call[q].got = {}
  BY <1>1 DEF IInv, CallsSane, Sane
<1> QED BY <1>1, <1>2, AnswerKeeps

LEMMA AckedKeeps == ASSUME IInv, NEW q \in Requests, Acked(q) PROVE IInv'
<1>1. /\ call[q].pc = "acking" /\ UNCHANGED <<config, sessions, log, running, queue, waiters>>
      /\ Active(call[q]) /\ Around
  BY AroundUnchanged DEF Acked, Serves, Active, IInv
<1> DEFINE rest == call[q].unacked \ {First(call[q].unacked)}
           d == [call[q] EXCEPT !.unacked = rest]
<1>2. CASE Answer(q, call[q].got)
  BY <1>1, <1>2, AnswerKeeps
<1>3. CASE call' = [call EXCEPT ![q].unacked = rest] /\ UNCHANGED history
  <2>1. call[q] \in Call /\ call \in [Requests -> Call] /\ answers \in [Requests -> 0 .. 1]
    BY DEF IInv, TypeOK
  <2>2. rest \in SUBSET Replies
    BY <2>1 DEF Call
  <2> HIDE DEF rest
  <2>3. d \in Call /\ d.pc = "acking" /\ d.got = call[q].got /\ d.scope = call[q].scope
        /\ d.key = call[q].key /\ d.cancelled = call[q].cancelled
    BY <2>1, <2>2, <1>1 DEF Call
  <2>4. call' = [call EXCEPT ![q] = d]
    BY <1>3
  <2> HIDE DEF d
  <2>5. Sane(d, sessions', bound, log)
    <3>1. Sane(call[q], sessions, bound, log) /\ sessions' = sessions
      BY <1>1 DEF IInv, CallsSane
    <3>2. Placed(d, sessions, bound)
      BY <3>1, <2>3, <1>1 DEF Sane, Placed, Active
    <3>3. \A r \in d.got : Owned(d, r, sessions, bound, log)
      BY <3>1, <2>3, OwnedStays DEF Sane
    <3> QED BY <3>1, <3>2, <3>3, <2>3 DEF Sane
  <2>6. given[q] = {} /\ answers[q] = 0
    BY <1>1 DEF IInv, GivenSane, AnswersCounted, Counted
  <2>7. answers' = [answers EXCEPT ![q] = 0] /\ Counted(d, 0, running, cut)
    BY <1>3, <2>1, <2>3, <2>6 DEF Counted, history
  <2>8. UNCHANGED <<queue, waiters, given, missed, cut>>
    BY <1>1, <1>3 DEF history
  <2>9. Around /\ d.got = call[q].got /\ 0 \in 0 .. 1 /\ d.pc = call[q].pc /\ d.scope = call[q].scope
    BY <1>1, <2>3
  <2> QED BY <2>4, <2>5, <2>6, <2>7, <2>8, <2>9, PlainMove
<1> QED BY <1>2, <1>3 DEF Acked

LEMMA CancelKeeps == ASSUME IInv, NEW q \in Requests, Cancel(q) PROVE IInv'
<1> DEFINE d == [call[q] EXCEPT !.cancelled = TRUE]
<1>1. /\ Active(call[q]) /\ Around /\ call' = [call EXCEPT ![q] = d]
      /\ sessions' = sessions /\ UNCHANGED <<queue, waiters, history>>
  BY AroundUnchanged DEF Cancel, Active, IInv
<1>2. call[q] \in Call /\ call \in [Requests -> Call] /\ answers \in [Requests -> 0 .. 1]
  BY DEF IInv, TypeOK
<1>3. d \in Call /\ d.pc = call[q].pc /\ d.got = call[q].got /\ d.scope = call[q].scope /\ d.key = call[q].key
  BY <1>2 DEF Call
<1> HIDE DEF d
<1>4. Sane(d, sessions', bound, log)
  <2>1. Sane(call[q], sessions, bound, log)
    BY DEF IInv, CallsSane
  <2>2. Placed(d, sessions, bound)
    BY <2>1, <1>3 DEF Sane, Placed, Active
  <2>3. \A r \in d.got : Owned(d, r, sessions, bound, log)
    BY <2>1, <1>3, OwnedStays DEF Sane
  <2> QED BY <2>1, <2>2, <2>3, <1>1, <1>3 DEF Sane
<1>5. given[q] = {} /\ answers[q] = 0
  BY <1>1 DEF IInv, GivenSane, AnswersCounted, Counted, Active
<1>6. answers' = [answers EXCEPT ![q] = 0] /\ Counted(d, 0, running, cut)
  BY <1>1, <1>2, <1>3, <1>5 DEF Counted, Active, history
<1>7. UNCHANGED <<queue, waiters, given, missed, cut>>
  BY <1>1 DEF history
<1>8. /\ Around /\ call' = [call EXCEPT ![q] = d] /\ d.got = call[q].got /\ 0 \in 0 .. 1
      /\ d.pc = call[q].pc /\ d.scope = call[q].scope
  BY <1>1, <1>3
<1> QED BY <1>4, <1>5, <1>6, <1>7, <1>8, PlainMove

LEMMA PostedKeeps == ASSUME IInv, NEW q \in Requests, Posted(q) PROVE IInv'
<1> DEFINE scope == call[q].scope
<1>1. call[q].pc = "posting" /\ UNCHANGED <<config, log, running>> /\ Active(call[q])
  BY DEF Posted, Serves, Active
<1>2. /\ call[q] \in Call /\ call[q].got = {} /\ scope \in DOMAIN sessions
      /\ ScopeOf(call[q], scope)
  BY <1>1 DEF IInv, CallsSane, Sane, Placed, ScopeOf, TypeOK
<1>3. /\ sessions \in Seq([key : Keys, closed : BOOLEAN]) /\ Len(sessions) \in Nat
      /\ Len(sessions) <= MaxSessions /\ DOMAIN sessions = 1 .. Len(sessions)
  BY DEF IInv, TypeOK
<1>4. scope \in Sessions \union {AnySession}
  BY <1>2, <1>3, McpServerAssumption DEF Sessions
<1>5. Around
  <2> DEFINE e == [sessions[scope] EXCEPT !.closed = FALSE]
  <2>1. sessions' = [sessions EXCEPT ![scope] = e]
    BY DEF Posted
  <2>2. sessions[scope] \in [key : Keys, closed : BOOLEAN]
    BY <1>2, <1>3, Replaced
  <2>3. e \in [key : Keys, closed : BOOLEAN] /\ e.key = sessions[scope].key
    BY <2>2
  <2> HIDE DEF e
  <2>4. sessions' \in Seq([key : Keys, closed : BOOLEAN]) /\ Len(sessions') = Len(sessions)
        /\ DOMAIN sessions' = DOMAIN sessions
    BY <2>1, <2>3, <1>2, <1>3, Replaced
  <2>5. \A s \in DOMAIN sessions : sessions'[s].key = sessions[s].key
    BY <2>1, <2>3, <1>2
  <2> QED BY <2>4, <2>5, <1>1, <1>3 DEF Around, config
<1>6. CASE Answer(q, {}) /\ UNCHANGED <<queue, waiters>>
  BY <1>1, <1>2, <1>5, <1>6, AnswerKeeps
<1>7. CASE WaitTakes(q, call[q], scope) /\ UNCHANGED history
  BY <1>1, <1>2, <1>4, <1>5, <1>7, WaitTakesKeeps
<1>8. CASE WaitRegisters(q, call[q], scope) /\ UNCHANGED history
  BY <1>1, <1>2, <1>4, <1>5, <1>8, WaitRegistersKeeps
<1> QED BY <1>6, <1>7, <1>8 DEF Posted, Waits

LEMMA TimesOutKeeps == ASSUME IInv, NEW q \in Requests, TimesOut(q) PROVE IInv'
<1> DEFINE k == call[q].scope
           d == Woken(call[q], {})
           new == Without(waiters[k], q)
<1>1. /\ call[q].pc = "waiting" /\ Around /\ UNCHANGED <<queue, history>>
      /\ call' = [call EXCEPT ![q] = d] /\ waiters' = [waiters EXCEPT ![k] = new]
      /\ sessions' = sessions
  BY AroundUnchanged DEF TimesOut, Serves, IInv
<1>2. /\ call \in [Requests -> Call] /\ given \in [Requests -> SUBSET Replies]
      /\ answers \in [Requests -> 0 .. 1] /\ queue \in [Sessions -> SUBSET Replies]
      /\ missed \subseteq Replies /\ cut \subseteq Replies
      /\ waiters \in [Sessions \union {AnySession} -> Seq(Requests)]
  BY DEF IInv, TypeOK
<1>3. /\ Sane(call[q], sessions, bound, log) /\ given[q] = {} /\ answers[q] = 0 /\ call[q].got = {}
  BY <1>1 DEF IInv, CallsSane, GivenSane, AnswersCounted, Counted, Sane
<1>4. k \in Sessions \union {AnySession}
  <2>1. k \in DOMAIN sessions \union {AnySession}
    BY <1>1, <1>3 DEF Sane, Placed, Active
  <2>2. Len(sessions) \in Nat /\ DOMAIN sessions = 1 .. Len(sessions) /\ Len(sessions) <= MaxSessions
    BY DEF IInv, TypeOK
  <2> QED BY <2>1, <2>2, McpServerAssumption DEF Sessions
<1>5. /\ waiters[k] \in Seq(Requests) /\ \E i \in DOMAIN waiters[k] : waiters[k][i] = q
      /\ \A i, j \in DOMAIN waiters[k] : waiters[k][i] = waiters[k][j] => i = j
  BY <1>1, <1>2, <1>4 DEF IInv, WaitsSane
<1>6. Lost(waiters[k], new, q)
  BY <1>5, WithoutLoses
<1>7. d \in Call /\ d.pc = "woken" /\ d.got = {} /\ d.scope = call[q].scope
      /\ d.key = call[q].key /\ d.cancelled = call[q].cancelled
  BY <1>2, WokenIs
<1> HIDE DEF d, new, k
<1>8. Sane(d, sessions', bound, log)
  BY <1>1, <1>3, <1>7 DEF Sane, Placed, Active
<1>9. /\ \A p \in Requests : p # q => call'[p] = call[p]
      /\ call'[q] = d /\ DOMAIN call' = Requests /\ call' = [p \in Requests |-> call'[p]]
  BY <1>1, <1>2
<1>10. given' = given /\ answers' = answers /\ missed' = missed /\ cut' = cut /\ queue' = queue
  BY <1>1 DEF history
<1>11. Counted(d, answers[q], running, cut)
  BY <1>3, <1>7 DEF Counted
<1>12. Moves(q)
  BY <1>1, <1>2, <1>3, <1>8, <1>9, <1>10, <1>11 DEF Moves
<1>13. WaitsSane' /\ waiters' \in [Sessions \union {AnySession} -> Seq(Requests)]
  <2>1. call'[q].pc # "waiting"
    BY <1>7, <1>9
  <2> QED BY <2>1, <1>1, <1>4, <1>6, <1>9, WaitLeaves DEF k
<1>14. Places'
  <2>1. \A p \in Requests : call'[p].got = call[p].got
    BY <1>3, <1>7, <1>9
  <2>2. OnePlace(log, queue, call', given, missed, cut)
    BY <2>1, PlaceStays DEF IInv, Places
  <2> QED BY <2>2, <1>1, <1>10 DEF Places, Around
<1> QED BY <1>12, <1>13, <1>14, MovesKeeps DEF IInv

LEMMA TakeThrowsKeeps == ASSUME IInv, NEW q \in Requests, TakeThrows(q) PROVE IInv'
<1> DEFINE taken == Held(call[q].scope)
           d == Done(call[q])
<1>1. /\ call[q].pc = "polling" /\ Around /\ UNCHANGED <<waiters, given, missed>>
      /\ taken # {} /\ cut' = cut \union taken /\ queue' = [s \in Sessions |-> queue[s] \ taken]
      /\ call' = [call EXCEPT ![q] = d] /\ answers' = [answers EXCEPT ![q] = @ + 1]
      /\ sessions' = sessions /\ Active(call[q])
  BY AroundUnchanged DEF TakeThrows, Serves, IInv, Remaining, Active
<1>2. /\ call \in [Requests -> Call] /\ given \in [Requests -> SUBSET Replies]
      /\ answers \in [Requests -> 0 .. 1] /\ queue \in [Sessions -> SUBSET Replies]
      /\ missed \subseteq Replies /\ cut \subseteq Replies
  BY DEF IInv, TypeOK
<1>3. /\ Sane(call[q], sessions, bound, log) /\ given[q] = {} /\ answers[q] = 0 /\ call[q].got = {}
  BY <1>1 DEF IInv, CallsSane, GivenSane, AnswersCounted, Counted, Sane
<1>4. ScopeOf(call[q], call[q].scope)
  BY <1>1, <1>3 DEF Sane, Placed, ScopeOf
<1>5. \A r \in taken : r \in Replies /\ \E s \in Sessions : r \in queue[s]
  BY <1>4, HeldOwned
<1>6. d \in Call /\ d.pc = "done" /\ d.got = {} /\ d.scope = call[q].scope
      /\ d.key = call[q].key /\ d.cancelled = call[q].cancelled
  BY <1>2, DoneIs
<1> HIDE DEF d, taken
<1>7. Sane(d, sessions', bound, log)
  BY <1>6 DEF Sane, Placed, Active
<1>8. /\ \A p \in Requests : p # q => call'[p] = call[p]
      /\ call'[q] = d /\ DOMAIN call' = Requests /\ call' = [p \in Requests |-> call'[p]]
  BY <1>1, <1>2
<1>9. /\ \A p \in Requests : p # q => answers'[p] = answers[p]
      /\ answers'[q] = 1 /\ DOMAIN answers' = Requests /\ answers' = [p \in Requests |-> answers'[p]]
  <2>1. answers' = [answers EXCEPT ![q] = 1]
    BY <1>1, <1>3
  <2> QED BY <2>1, <1>2
<1>10. Counted(d, 1, running, cut')
  BY <1>1, <1>6 DEF Counted
<1>11. /\ DOMAIN queue' = Sessions /\ queue' = [s \in Sessions |-> queue'[s]]
       /\ \A s \in Sessions : queue'[s] = queue[s] \ taken
  BY <1>1
<1>12. cut \subseteq cut' /\ cut' \subseteq Replies
  BY <1>1, <1>2, <1>5
<1>13. Moves(q)
  BY <1>1, <1>2, <1>3, <1>7, <1>8, <1>9, <1>10, <1>11, <1>12 DEF Moves
<1>14. OnePlace(log, queue', call', given, missed, cut \union taken)
  <2>1. \A p \in Requests : call'[p].got = call[p].got
    BY <1>3, <1>6, <1>8
  <2>2. OnePlace(log, queue, call, given, missed, cut)
    BY DEF IInv, Places
  <2>3. \A r \in taken : \E s \in Sessions : r \in queue[s]
    BY <1>5
  <2>4. \A s \in Sessions : queue'[s] = queue[s] \ taken
    BY <1>11
  <2> QED BY <2>1, <2>2, <2>3, <2>4, PlaceThrown
<1>15. OnePlace(log, queue', call', given', missed', cut')
  BY <1>1, <1>14
<1> QED BY <1>1, <1>6, <1>8, <1>13, <1>15, QuietMove

LEMMA ExitKeeps == ASSUME IInv, Exit PROVE IInv'
<1>1. /\ running' = FALSE /\ cut' = cut \union UNION {call[q].got : q \in Requests}
      /\ call' = [q \in Requests |-> Done(call[q])] /\ waiters' = NoWaiters
      /\ bound' = bound /\ delegated' = delegated /\ sessions' = sessions /\ log' = log
      /\ queue' = queue /\ given' = given /\ answers' = answers /\ missed' = missed
  BY DEF Exit, config
<1>2. \A q \in Requests : /\ call[q] \in Call /\ Sane(call[q], sessions, bound, log)
                         /\ Counted(call[q], answers[q], running, cut)
  BY DEF IInv, CallsSane, TypeOK, AnswersCounted
<1>3. \A q \in Requests : /\ call'[q] \in Call /\ call'[q].pc = "done" /\ call'[q].got = {}
                         /\ call'[q].scope = call[q].scope /\ call'[q].key = call[q].key
                         /\ call'[q].cancelled = call[q].cancelled
  BY <1>1, <1>2, DoneIs
<1>4. TypeOK'
  <2>1. call' \in [Requests -> Call]
    BY <1>1, <1>3
  <2>2. cut' \subseteq Replies
    BY <1>1, <1>2 DEF IInv, TypeOK, Call
  <2>3. waiters' \in [Sessions \union {AnySession} -> Seq(Requests)]
    BY <1>1 DEF NoWaiters
  <2> QED BY <2>1, <2>2, <2>3, <1>1 DEF IInv, TypeOK
<1>5. CallsSane'
  BY <1>3 DEF CallsSane, Sane, Placed, Active
<1>6. GivenSane'
  BY <1>1, <1>3 DEF IInv, GivenSane, Owned
<1>7. LogSane'
  BY <1>1 DEF IInv, LogSane
<1>8. WaitsSane'
  BY <1>1, <1>3 DEF WaitsSane, NoWaiters
<1>9. Places'
  <2>1. OnePlace(log, queue, call', given, missed, cut \union UNION {call[p].got : p \in Requests})
    BY <1>3, PlaceCut DEF IInv, Places
  <2> QED BY <2>1, <1>1 DEF Places
<1>10. AnswersCounted'
  BY <1>1, <1>2, <1>3 DEF AnswersCounted, Counted
<1> QED BY <1>4, <1>5, <1>6, <1>7, <1>8, <1>9, <1>10 DEF IInv

-----------------------------------------------------------------------------
(* A request arrives *)

(* What is known of a request before it is sent. *)
LEMMA UnsentIs ==
    ASSUME IInv, NEW q \in Requests, call[q].pc = "unsent"
    PROVE  given[q] = {} /\ answers[q] = 0 /\ call[q].got = {} /\ answers \in [Requests -> 0 .. 1]
BY DEF IInv, CallsSane, Sane, GivenSane, AnswersCounted, Counted, TypeOK

LEMMA SessionKeyIs ==
    ASSUME IInv, NEW key \in Keys
    PROVE  SessionKey(key) \in Keys /\ (bound = None => SessionKey(key) = key)
BY DEF IInv, TypeOK, SessionKey

LEMMA KnownIs ==
    ASSUME IInv
    PROVE  /\ sessions \in Seq([key : Keys, closed : BOOLEAN]) /\ Len(sessions) \in Nat
           /\ DOMAIN sessions = 1 .. Len(sessions) /\ Len(sessions) <= MaxSessions
           /\ MaxSessions \in Nat /\ DOMAIN sessions \subseteq Sessions
<1>1. /\ sessions \in Seq([key : Keys, closed : BOOLEAN]) /\ Len(sessions) \in Nat
      /\ DOMAIN sessions = 1 .. Len(sessions) /\ Len(sessions) <= MaxSessions
  BY DEF IInv, TypeOK
<1> QED BY <1>1, McpServerAssumption DEF Sessions

LEMMA AnswersAtOnceKeeps ==
    ASSUME IInv, NEW q \in Requests, NEW tool \in AllTools, NEW key \in Keys, call[q].pc = "unsent",
           AnswersAtOnce(q, tool, key), UNCHANGED <<config, log, running>>
    PROVE  IInv'
<1> DEFINE d == [Sent(tool, key) EXCEPT !.pc = "done"]
<1>1. d \in Call /\ d.pc = "done" /\ d.got = {} /\ ~d.cancelled
  BY DEF Sent, Unsent, Call
<1>2. call' = [call EXCEPT ![q] = d] /\ Around
  BY AroundUnchanged DEF AnswersAtOnce, IInv, TypeOK, Around, config
<1> HIDE DEF d
<1>3. Sane(d, sessions', bound, log) /\ Counted(d, 1, running, cut)
  BY <1>1 DEF Sane, Placed, Active, Counted
<1>4. answers' = [answers EXCEPT ![q] = 1] /\ 1 \in 0 .. 1
  <2>1. answers' = [answers EXCEPT ![q] = answers[q] + 1]
    BY DEF AnswersAtOnce
  <2>2. answers[q] + 1 = 1 /\ 1 \in 0 .. 1
    BY UnsentIs
  <2>3. answers' = [answers EXCEPT ![q] = 1]
    BY <2>1, <2>2, Zenon
  <2> QED BY <2>2, <2>3
<1>5. UNCHANGED <<queue, waiters, given, missed, cut>>
  BY DEF AnswersAtOnce
<1>6. d.got = call[q].got /\ given[q] = {} /\ call[q].pc # "waiting" /\ d.pc # "waiting"
  BY <1>1, UnsentIs
<1> QED BY <1>2, <1>3, <1>4, <1>5, <1>6, PlainMove

(* A call begins to post, or a check to wait for its pass. *)
LEMMA StartsKeeps ==
    ASSUME IInv, NEW q \in Requests, call[q].pc = "unsent", NEW d \in Call, Around,
           call' = [call EXCEPT ![q] = d], d.pc \in {"posting", "polling"}, d.got = {}, ~d.cancelled,
           Placed(d, sessions', bound), UNCHANGED <<history, queue, waiters>>
    PROVE  IInv'
<1>1. Sane(d, sessions', bound, log) /\ Counted(d, 0, running, cut)
  BY DEF Sane, Counted
<1>2. answers' = [answers EXCEPT ![q] = 0] /\ 0 \in 0 .. 1
  BY UnsentIs DEF history
<1>3. UNCHANGED <<queue, waiters, given, missed, cut>>
  BY DEF history
<1>4. d.got = call[q].got /\ given[q] = {} /\ call[q].pc # "waiting" /\ d.pc # "waiting"
  BY UnsentIs
<1> QED BY <1>1, <1>2, <1>3, <1>4, PlainMove

LEMMA NotifiesKeeps ==
    ASSUME IInv, NEW q \in Requests, NEW tool \in AllTools, NEW key \in Keys, call[q].pc = "unsent",
           Notifies(q, tool, key), UNCHANGED <<config, log, running>>
    PROVE  IInv'
<1> DEFINE mine == OfKey(SessionKey(key)) \intersect Open
           own == SessionKey(key)
           c == [Sent(tool, own) EXCEPT !.pc = "posting"]
<1>1. own \in Keys
  BY SessionKeyIs
<1>2. UNCHANGED <<history, queue, waiters>> /\ bound' = bound /\ delegated' = delegated
      /\ log' = log /\ running' = running
  BY DEF Notifies, config
<1>3. c \in Call /\ c.pc = "posting" /\ c.got = {} /\ c.key = own /\ ~c.cancelled
  BY <1>1 DEF Sent, Unsent, Call
<1>4. CASE mine # {} /\ call' = [call EXCEPT ![q] = [c EXCEPT !.scope = Newest(mine)]] /\ sessions' = sessions
  <2>1. mine \in SUBSET (1 .. Len(sessions)) /\ Len(sessions) \in Nat
    BY KnownIs DEF OfKey, Known
  <2>2. Newest(mine) \in mine
    BY <2>1, <1>4, NewestIn
  <2>3. Newest(mine) \in DOMAIN sessions /\ sessions[Newest(mine)].key = own /\ Newest(mine) \in Sessions
    BY <2>2, KnownIs DEF OfKey, Known
  <2> DEFINE d == [c EXCEPT !.scope = Newest(mine)]
  <2> HIDE DEF c, mine, own
  <2>4. d \in Call /\ d.pc = "posting" /\ d.got = {} /\ d.key = own /\ ~d.cancelled
        /\ d.scope = Newest(mine)
    BY <1>3, <2>3 DEF Call
  <2>5. call' = [call EXCEPT ![q] = d]
    BY <1>4
  <2> HIDE DEF d
  <2>6. Placed(d, sessions', bound)
    BY <2>3, <2>4, <1>4 DEF Placed, Sessions, AnySession
  <2>7. Around
    BY <1>2, <1>4, KnownIs DEF Around
  <2> QED BY <1>2, <2>4, <2>5, <2>6, <2>7, StartsKeeps
<1>5. CASE /\ Len(sessions) < MaxSessions
           /\ sessions' = Append(sessions, [key |-> own, closed |-> FALSE])
           /\ call' = [call EXCEPT ![q] = [c EXCEPT !.scope = Len(sessions')]]
  <2> DEFINE n == Len(sessions')
             e == [key |-> own, closed |-> FALSE]
             d == [c EXCEPT !.scope = n]
  <2>1. e \in [key : Keys, closed : BOOLEAN] /\ e.key = own
    BY <1>1
  <2> HIDE DEF e, c, own
  <2>2. /\ sessions' \in Seq([key : Keys, closed : BOOLEAN]) /\ n = Len(sessions) + 1
        /\ DOMAIN sessions' = 1 .. n /\ sessions'[n] = e
        /\ \A s \in DOMAIN sessions : sessions'[s] = sessions[s]
    BY <1>5, <2>1, KnownIs DEF e
  <2>3. n \in Nat /\ n >= 1 /\ n \in Sessions /\ n \in DOMAIN sessions' /\ n # AnySession
    BY <2>2, <1>5, KnownIs DEF Sessions, AnySession
  <2>4. Around
    BY <1>2, <1>5, <2>2, KnownIs DEF Around
  <2>5. call' = [call EXCEPT ![q] = d]
    BY <1>5
  <2> HIDE DEF n
  <2>6. d \in Call /\ d.pc = "posting" /\ d.got = {} /\ d.key = own /\ ~d.cancelled /\ d.scope = n
    BY <1>3, <2>3 DEF Call
  <2> HIDE DEF d
  <2>7. Placed(d, sessions', bound)
    BY <2>1, <2>2, <2>3, <2>6 DEF Placed
  <2> QED BY <1>2, <2>4, <2>5, <2>6, <2>7, StartsKeeps
<1> QED BY <1>4, <1>5 DEF Notifies

(* The scope of a check is a session of the key it was resolved for, or any *)
(* on a bound server.                                                      *)
LEMMA ResolvedIs ==
    ASSUME IInv, NEW key \in Keys, NEW owned \in resolveOwnSession(key), NEW scope \in Scope(owned),
           NEW c, c.key = SessionKey(key)
    PROVE  ScopeOf(c, scope) /\ scope \in Sessions \union {AnySession}
<1> DEFINE open == OfKey(SessionKey(key)) \intersect Open
<1>1. ASSUME open # {} PROVE Newest(open) \in open
  <2>1. open \in SUBSET (1 .. Len(sessions)) /\ Len(sessions) \in Nat
    BY KnownIs DEF OfKey, Known
  <2> QED BY <2>1, <1>1, NewestIn
<1>2. owned # None => owned \in DOMAIN sessions /\ sessions[owned].key = SessionKey(key)
  BY <1>1, SessionKeyIs DEF resolveOwnSession, OfKey, Known
<1>3. CASE owned # None
  <2>1. scope = owned
    BY <1>3 DEF Scope
  <2> QED BY <2>1, <1>2, <1>3, KnownIs DEF ScopeOf, Sessions, AnySession
<1>4. CASE owned = None
  BY <1>4 DEF Scope, ScopeOf
<1> QED BY <1>3, <1>4

LEMMA ChecksKeeps ==
    ASSUME IInv, NEW q \in Requests, NEW tool \in AllTools, NEW key \in Keys, call[q].pc = "unsent",
           Checks(q, tool, key), UNCHANGED <<config, log, running>>
    PROVE  IInv'
<1>1. PICK owned \in resolveOwnSession(key) :
          \/ Scope(owned) = {} /\ AnswersAtOnce(q, tool, key)
          \/ \E scope \in Scope(owned) :
                /\ \/ Waits(q, Sent(tool, SessionKey(key)), scope)
                   \/ /\ call' = [call EXCEPT ![q] = [Sent(tool, SessionKey(key))
                                                     EXCEPT !.pc = "polling", !.scope = scope]]
                      /\ UNCHANGED <<history, queue, waiters>>
                /\ UNCHANGED sessions
  BY DEF Checks
<1>2. CASE AnswersAtOnce(q, tool, key)
  BY <1>2, AnswersAtOnceKeeps
<1>3. ASSUME NEW scope \in Scope(owned), UNCHANGED sessions,
             \/ Waits(q, Sent(tool, SessionKey(key)), scope)
             \/ /\ call' = [call EXCEPT ![q] = [Sent(tool, SessionKey(key))
                                               EXCEPT !.pc = "polling", !.scope = scope]]
                /\ UNCHANGED <<history, queue, waiters>>
      PROVE  IInv'
  <2> DEFINE c == Sent(tool, SessionKey(key))
  <2>1. c \in Call /\ c.got = {} /\ c.key = SessionKey(key) /\ ~c.cancelled
    BY SessionKeyIs DEF Sent, Unsent, Call
  <2>2. Around
    BY <1>3, AroundUnchanged DEF IInv
  <2> HIDE DEF c
  <2>3. ScopeOf(c, scope) /\ scope \in Sessions \union {AnySession}
    BY <2>1, ResolvedIs
  <2>4. CASE WaitTakes(q, c, scope) /\ UNCHANGED history
    BY <2>1, <2>2, <2>3, <2>4, WaitTakesKeeps
  <2>5. CASE WaitRegisters(q, c, scope) /\ UNCHANGED history
    BY <2>1, <2>2, <2>3, <2>5, WaitRegistersKeeps
  <2>6. CASE /\ call' = [call EXCEPT ![q] = [c EXCEPT !.pc = "polling", !.scope = scope]]
             /\ UNCHANGED <<history, queue, waiters>>
    <3> DEFINE d == [c EXCEPT !.pc = "polling", !.scope = scope]
    <3>1. d \in Call /\ d.pc = "polling" /\ d.got = {} /\ d.key = c.key /\ ~d.cancelled /\ d.scope = scope
      BY <2>1, <2>3 DEF Call
    <3>2. call' = [call EXCEPT ![q] = d]
      BY <2>6
    <3> HIDE DEF d
    <3>3. Placed(d, sessions', bound)
      BY <3>1, <2>3, <1>3 DEF Placed, ScopeOf
    <3> QED BY <3>1, <3>2, <3>3, <2>2, <2>6, StartsKeeps
  <2> QED BY <1>3, <2>4, <2>5, <2>6 DEF Waits, c
<1> QED BY <1>1, <1>2, <1>3

LEMMA RequestKeeps ==
    ASSUME IInv, NEW q \in Requests, NEW tool \in Tools, NEW key \in Keys, Request(q, tool, key)
    PROVE  IInv'
<1>1. tool \in AllTools /\ call[q].pc = "unsent" /\ UNCHANGED <<config, log, running>>
  BY McpServerAssumption DEF Request, Serves
<1> QED BY <1>1, AnswersAtOnceKeeps, NotifiesKeeps, ChecksKeeps DEF Request

-----------------------------------------------------------------------------
(* The theorems *)

(* What the process reads from sessions.json. *)
LEMMA InitHolds == Init => IInv
<1> SUFFICES ASSUME Init PROVE IInv
  OBVIOUS
<1>1. /\ MaxSessions \in Nat \ {0} /\ MaxReplies \in Nat \ {0} /\ 1 \in Sessions /\ 1 \in Replies
  BY McpServerAssumption DEF Sessions, Replies
<1>2. /\ sessions \in Seq([key : Keys, closed : BOOLEAN]) /\ Len(sessions) <= MaxSessions
      /\ log \in Seq(Sessions) /\ Len(log) <= MaxReplies /\ DOMAIN log \subseteq Replies
      /\ \A r \in DOMAIN log : log[r] \in DOMAIN sessions /\ log[r] \in Sessions
  <2>1. CASE sessions = <<>> /\ log = <<>>
    BY <2>1, <1>1
  <2>2. CASE \E k \in Keys, c \in BOOLEAN :
                sessions = <<[key |-> k, closed |-> c]>> /\ log \in {<<>>, <<1>>}
    <3>1. PICK k \in Keys, c \in BOOLEAN :
              sessions = <<[key |-> k, closed |-> c]>> /\ log \in {<<>>, <<1>>}
      BY <2>2
    <3> DEFINE e == [key |-> k, closed |-> c]
               E == [key : Keys, closed : BOOLEAN]
    <3>2. e \in E /\ sessions = <<e>>
      BY <3>1
    <3> HIDE DEF e, E
    <3>3. sessions \in Seq(E) /\ Len(sessions) = 1 /\ DOMAIN sessions = {1}
      BY <3>2
    <3>4. CASE log = <<>>
      BY <3>3, <3>4, <1>1 DEF E
    <3>5. CASE log = <<1>>
      <4>1. log \in Seq(Sessions) /\ Len(log) = 1 /\ DOMAIN log = {1} /\ log[1] = 1
        BY <3>5, <1>1
      <4> QED BY <4>1, <3>3, <1>1 DEF E
    <3> QED BY <3>1, <3>4, <3>5
  <2> QED BY <2>1, <2>2 DEF Init
<1>3. /\ queue = [s \in Sessions |-> {r \in DOMAIN log : log[r] = s}] /\ waiters = NoWaiters
      /\ call = [q \in Requests |-> Unsent] /\ running = TRUE
      /\ given = [q \in Requests |-> {}] /\ answers = [q \in Requests |-> 0] /\ missed = {} /\ cut = {}
      /\ bound \in Keys \union {None} /\ delegated \in BOOLEAN
  BY DEF Init
<1>4. Unsent \in Call /\ Unsent.pc = "unsent" /\ Unsent.got = {} /\ ~Unsent.cancelled
  BY DEF Unsent, Call
<1>5. TypeOK
  <2>1. queue \in [Sessions -> SUBSET Replies]
    BY <1>2, <1>3
  <2>2. waiters \in [Sessions \union {AnySession} -> Seq(Requests)]
    BY <1>3 DEF NoWaiters
  <2>3. /\ call \in [Requests -> Call] /\ given \in [Requests -> SUBSET Replies]
        /\ answers \in [Requests -> 0 .. 1]
    BY <1>3, <1>4
  <2> QED BY <1>2, <1>3, <2>1, <2>2, <2>3 DEF TypeOK
<1>6. CallsSane
  <2>1. Sane(Unsent, sessions, bound, log)
    BY <1>4 DEF Sane, Placed, Active
  <2> QED BY <2>1, <1>3 DEF CallsSane
<1>7. GivenSane /\ AnswersCounted
  BY <1>3, <1>4 DEF GivenSane, AnswersCounted, Counted
<1>8. LogSane
  BY <1>2, <1>3 DEF LogSane
<1>9. WaitsSane
  BY <1>3, <1>4 DEF WaitsSane, NoWaiters
<1>10. Places
  <2>1. \A s \in Sessions : queue[s] = {r \in DOMAIN log : log[r] = s}
    BY <1>3
  <2>2. \A r : r \in DOMAIN log <=> (\E s \in Sessions : r \in queue[s])
    BY <2>1, <1>2
  <2>3. \A q \in Requests : call[q].got = {} /\ given[q] = {}
    BY <1>3, <1>4
  <2> QED BY <2>2, <2>3, <1>3 DEF Places, OnePlace
<1> QED BY <1>5, <1>6, <1>7, <1>8, <1>9, <1>10 DEF IInv

LEMMA NextKeeps == IInv /\ [Next]_vars => IInv'
<1> SUFFICES ASSUME IInv, [Next]_vars PROVE IInv'
  OBVIOUS
<1>1. CASE UNCHANGED vars
  BY <1>1 DEF IInv, TypeOK, CallsSane, GivenSane, LogSane, WaitsSane, Places, AnswersCounted, vars, history
<1>2. CASE Pass
  BY <1>2, ReadsKeeps DEF Pass
<1>3. CASE Exit
  BY <1>3, ExitKeeps
<1>4. CASE \E q \in Requests : Client(q)
  BY <1>4, CancelKeeps, RequestKeeps DEF Client
<1>5. CASE \E q \in Requests : Continues(q)
  BY <1>5, PostedKeeps, PostFailsKeeps, TimesOutKeeps, AwakesKeeps, PolledKeeps, AckedKeeps DEF Continues
<1>6. CASE \E q \in Requests : TakeThrows(q)
  BY <1>6, TakeThrowsKeeps
<1> QED BY <1>1, <1>2, <1>3, <1>4, <1>5, <1>6 DEF Next

THEOREM McpInvariant == Spec => []IInv
BY InitHolds, NextKeeps, PTL DEF Spec

(* Every variable keeps its type, whatever the calls, their cancellations,  *)
(* the passes and an exit interleave.                                      *)
THEOREM McpTypeCorrect == Spec => []TypeOK
<1>1. IInv => TypeOK
  BY DEF IInv
<1> QED BY <1>1, McpInvariant, PTL

(* No reply is answered twice, and none is nowhere: dispatch(),             *)
(* takeUndelivered() and returnIfTaken() move each from one place to one.   *)
THEOREM RepliesInOnePlace == Spec => []EachReplyInOnePlace
<1>1. IInv => EachReplyInOnePlace
  BY PlaceIs DEF IInv, Places
<1> QED BY <1>1, McpInvariant, PTL

(* A request is answered once, or not at all if it was cancelled: respond() *)
(* in dispatch().                                                          *)
THEOREM RequestsAnsweredOnce == Spec => []OneAnswer
<1>1. IInv => OneAnswer
  BY DEF IInv, AnswersCounted, Counted, OneAnswer
<1> QED BY <1>1, McpInvariant, PTL

(* A call has and returns replies of its own key, but for a bound server    *)
(* with no open session: resolveOwnSession().                              *)
THEOREM CallsTakeTheirOwn == Spec => []OwnReplies
<1>1. IInv => OwnReplies
  BY DEF IInv, CallsSane, Sane, GivenSane, Owned, OwnReplies
<1> QED BY <1>1, McpInvariant, PTL

=============================================================================
