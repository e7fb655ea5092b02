-------------------------- MODULE TransportProofs --------------------------
(***************************************************************************)
(* Theorems about Transport, for any number of posts, fetches, subprocesses *)
(* and faults.                                                             *)
(***************************************************************************)
EXTENDS Transport, TLAPS

-----------------------------------------------------------------------------
(* Calls and subprocesses *)

(* The state of a call after each of its edits. *)
LEMMA EndedIs ==
    ASSUME NEW s \in CallState, NEW how \in {"ok", "failed"}
    PROVE  LET e == [s EXCEPT !.pc = how, !.answer = "none", !.saw = {}]
           IN  e \in CallState /\ e.pc = how /\ e.stage = s.stage /\ e.try = s.try
BY DEF CallState

LEMMA SentIs ==
    ASSUME NEW s \in CallState, NEW c \in Children \union {NoChild}
    PROVE  LET e == [s EXCEPT !.pc = "sent", !.on = c]
           IN  e \in CallState /\ e.pc = "sent" /\ e.stage = s.stage /\ e.try = s.try
BY DEF CallState

LEMMA RejectedIs ==
    ASSUME NEW s \in CallState
    PROVE  LET e == [s EXCEPT !.pc = "answered", !.answer = "error"]
           IN  e \in CallState /\ e.pc = "answered" /\ e.answer = "error" /\ e.stage = s.stage /\ e.try = s.try
BY DEF CallState

(* A call that begins, or goes on after its lookup. *)
Asked == {Idle, [Idle EXCEPT !.stage = "lookup"]}

LEMMA StartingIs ==
    ASSUME NEW s \in CallState, NEW c \in Children
    PROVE  LET e == [s EXCEPT !.pc = "starting", !.on = c]
           IN  e \in CallState /\ e.pc = "starting" /\ e.stage = s.stage /\ e.try = s.try
BY DEF CallState

LEMMA AskedIs ==
    ASSUME NEW s \in Asked
    PROVE  s \in CallState /\ s.try = 0 /\ s.stage \in Stages
BY DEF Asked, Idle, CallState, Stages

LEMMA AgainIs ==
    ASSUME NEW s \in CallState
    PROVE  LET e == [s EXCEPT !.try = 1, !.answer = "none"]
           IN  e \in CallState /\ e.stage = s.stage /\ e.try = 1
BY DEF CallState

(* A subprocess that is interrupted, killed, launched. *)
LEMMA InterruptedIs ==
    ASSUME proc \in [Children -> Proc], NEW c \in Children
    PROVE  /\ Interrupted(c) \in Proc /\ Interrupted(c).alive = proc[c].alive
           /\ Interrupted(c).killed = proc[c].killed /\ Interrupted(c).hook = proc[c].hook
BY DEF Proc, Interrupted

LEMMA KilledIs ==
    ASSUME proc \in [Children -> Proc], NEW hook \in BOOLEAN
    PROVE  /\ Killed(hook) \in [Children -> Proc]
           /\ \A c \in Children :
                 /\ Killed(hook)[c].alive = proc[c].alive
                 /\ c # child => /\ Killed(hook)[c].killed = proc[c].killed
                                 /\ Killed(hook)[c].hook = proc[c].hook
                 /\ c = child => /\ Killed(hook)[c].killed = TRUE
                                 /\ Killed(hook)[c].hook = (proc[c].hook /\ hook)
<1>1. ASSUME NEW c \in Children
      PROVE  /\ Killed(hook)[c] \in Proc
             /\ Killed(hook)[c].alive = proc[c].alive
             /\ c # child => /\ Killed(hook)[c].killed = proc[c].killed
                             /\ Killed(hook)[c].hook = proc[c].hook
             /\ c = child => /\ Killed(hook)[c].killed = TRUE
                             /\ Killed(hook)[c].hook = (proc[c].hook /\ hook)
  <2> DEFINE i == Interrupted(c)
  <2>1. i \in Proc /\ i.alive = proc[c].alive /\ i.killed = proc[c].killed /\ i.hook = proc[c].hook
    BY InterruptedIs
  <2>2. Killed(hook)[c] = (IF c = child THEN [i EXCEPT !.killed = TRUE, !.hook = @ /\ hook] ELSE i)
    BY DEF Killed
  <2> HIDE DEF i
  <2>3. CASE c # child
    BY <2>1, <2>2, <2>3
  <2>4. CASE c = child
    <3> DEFINE h == i.hook /\ hook
    <3>1. h \in BOOLEAN
      BY <2>1 DEF Proc
    <3>2. Killed(hook)[c] = [i EXCEPT !.killed = TRUE, !.hook = h]
      BY <2>2, <2>4
    <3>3. h = (proc[c].hook /\ hook)
      BY <2>1
    <3> HIDE DEF h
    <3>4. Killed(hook)[c] \in Proc /\ Killed(hook)[c].alive = i.alive
          /\ Killed(hook)[c].killed = TRUE /\ Killed(hook)[c].hook = h
      BY <2>1, <3>1, <3>2 DEF Proc
    <3> QED BY <2>1, <2>4, <3>3, <3>4
  <2> QED BY <2>3, <2>4
<1>2. Killed(hook) = [c \in Children |-> Killed(hook)[c]]
  BY DEF Killed
<1> QED BY <1>1, <1>2

-----------------------------------------------------------------------------
(* The inductive invariant *)

(* Where a call stands with the request of its own, not of its lookup: it  *)
(* has not sent attempt t; it was told that the session has lapsed; it has *)
(* made its second attempt.                                                *)
Unsent(s, t) == \/ s.pc = "idle" \/ s.stage = "lookup" \/ s.try < t
                \/ s.pc = "starting" /\ s.try = t
ToldStale(s) == s.pc = "answered" /\ s.stage = "main" /\ s.try = 0 /\ s.answer = "stale"
Again(s) == s.pc # "idle" /\ s.stage = "main" /\ s.try = 1

Req(k, t) == <<k, "main", t>>
Waiting(id, ib) == \E c \in Children : id \in ib[c]
Answering(id, pp) == \E a \in pp : a.id = id

(* Of a post in state s, of which n messages were made: a request is       *)
(* written once, and then waits in one place or is answered; the second    *)
(* attempt is made when the first has made nothing and will make nothing.  *)
PostedOnceAt(k, s, ib, pp, n) ==
    /\ \A t \in {0, 1} :
          /\ Unsent(s, t) => ~Waiting(Req(k, t), ib) /\ ~Answering(Req(k, t), pp)
          /\ \A c, d \in Children : Req(k, t) \in ib[c] /\ Req(k, t) \in ib[d] => c = d
          /\ Waiting(Req(k, t), ib) => ~Answering(Req(k, t), pp) /\ n = 0
    /\ n \in {0, 1}
    /\ Unsent(s, 0) => n = 0
    /\ Again(s) /\ s.pc = "starting" => n = 0
    /\ Again(s) => ~Waiting(Req(k, 0), ib)
    /\ ToldStale(s) => ~Waiting(Req(k, 0), ib) /\ n = 0
    /\ \A a \in pp : a.id = Req(k, 0) /\ a.answer = "stale" /\ ~Again(s) => n = 0

PostsOnce == \A k \in Posts : PostedOnceAt(k, call[k], inbox, pipe, made[k])

(* The subprocess the transport has is the only one that is up and not     *)
(* told to go, and the only one up whose exit it listens to.               *)
Sole(ch, p) == \A c \in Children : p[c].alive /\ (~p[c].killed \/ p[c].hook) => c = ch
OneChild == ~slow /\ ~disposed => child = starting /\ Sole(child, proc)

(* A post that has ended well is recorded, or its recording failed. *)
Recorded == \A k \in Posts : call[k].pc = "ok" => k \in posted \union unrecorded

IInv == TypeOK /\ PostsOnce /\ OneChild /\ Recorded

(* What a step of a call may do to it, when it does not write a request.   *)
Moves(a, b) ==
    /\ \A t \in {0, 1} : Unsent(b, t) => Unsent(a, t)
    /\ Again(a) => Again(b)
    /\ Again(b) => Again(a) \/ ToldStale(a)
    /\ Again(b) /\ b.pc = "starting" => (Again(a) /\ a.pc = "starting") \/ ToldStale(a)

LEMMA PostMoves ==
    ASSUME NEW k, NEW s, NEW u, NEW ib, NEW jb, NEW pp, NEW qq, NEW n,
           PostedOnceAt(k, s, ib, pp, n), Moves(s, u),
           ToldStale(u) => ToldStale(s) \/ (~Waiting(Req(k, 0), ib) /\ n = 0),
           \A t \in {0, 1} : \A c \in Children : Req(k, t) \in jb[c] => Req(k, t) \in ib[c],
           \A t \in {0, 1} : \A a \in qq : a.id = Req(k, t) => a \in pp
    PROVE  PostedOnceAt(k, u, jb, qq, n)
<1>1. \A t \in {0, 1} : /\ Waiting(Req(k, t), jb) => Waiting(Req(k, t), ib)
                        /\ Answering(Req(k, t), qq) => Answering(Req(k, t), pp)
  BY DEF Waiting, Answering
<1>2. \A t \in {0, 1} :
        /\ Unsent(u, t) => ~Waiting(Req(k, t), jb) /\ ~Answering(Req(k, t), qq)
        /\ \A c, d \in Children : Req(k, t) \in jb[c] /\ Req(k, t) \in jb[d] => c = d
        /\ Waiting(Req(k, t), jb) => ~Answering(Req(k, t), qq) /\ n = 0
  BY <1>1 DEF Moves, PostedOnceAt
<1>3. /\ n \in {0, 1}
      /\ Unsent(u, 0) => n = 0
      /\ Again(u) /\ u.pc = "starting" => n = 0
      /\ Again(u) => ~Waiting(Req(k, 0), jb)
      /\ ToldStale(u) => ~Waiting(Req(k, 0), jb) /\ n = 0
  BY <1>1 DEF Moves, PostedOnceAt
<1>4. \A a \in qq : a.id = Req(k, 0) /\ a.answer = "stale" /\ ~Again(u) => n = 0
  BY DEF Moves, PostedOnceAt
<1> QED BY <1>2, <1>3, <1>4 DEF PostedOnceAt

(* Steps that write no request and serve none. *)
LEMMA CallsMove ==
    ASSUME IInv, \A k \in Posts : Moves(call[k], call'[k]) /\ (ToldStale(call'[k]) => ToldStale(call[k])),
           \A c \in Children : inbox'[c] \subseteq inbox[c], pipe' \subseteq pipe, made' = made
    PROVE  PostsOnce'
<1> SUFFICES ASSUME NEW k \in Posts PROVE PostedOnceAt(k, call'[k], inbox', pipe', made[k])
  BY DEF PostsOnce
<1>1. PostedOnceAt(k, call[k], inbox, pipe, made[k])
  BY DEF IInv, PostsOnce
<1>2. Moves(call[k], call'[k]) /\ (ToldStale(call'[k]) => ToldStale(call[k]))
  OBVIOUS
<1>3. /\ \A t \in {0, 1} : \A c \in Children : Req(k, t) \in inbox'[c] => Req(k, t) \in inbox[c]
      /\ \A t \in {0, 1} : \A a \in pipe' : a.id = Req(k, t) => a \in pipe
  OBVIOUS
<1> QED BY <1>1, <1>2, <1>3, PostMoves

(* ensureStarted(): the call waits for a launch, and there is one child.   *)
LEMMA LaunchesIs ==
    ASSUME IInv, NEW k \in Calls, NEW s \in CallState, NEW calls \in [Calls -> CallState],
           NEW procs \in [Children -> Proc], Launches(k, s, calls, procs)
    PROVE  /\ launched' \in 0 .. MaxChildren /\ child' \in Children /\ starting' = child'
           /\ proc' \in [Children -> Proc] /\ call' \in [Calls -> CallState]
           /\ \A j \in Calls : j # k => call'[j] = calls[j]
           /\ call'[k].pc = "starting" /\ call'[k].stage = s.stage /\ call'[k].try = s.try
           /\ (\A c \in Children : ~(procs[c].alive /\ (~procs[c].killed \/ procs[c].hook))) => Sole(child', proc')
<1> DEFINE n == launched + 1
           e == [s EXCEPT !.pc = "starting", !.on = n]
           new == [alive |-> TRUE, killed |-> FALSE, stale |-> FALSE, hook |-> TRUE, launch |-> "pending"]
<1>1. /\ launched' = n /\ child' = n /\ starting' = n
      /\ proc' = [procs EXCEPT ![n] = new] /\ call' = [calls EXCEPT ![k] = e]
  BY DEF Launches
<1>2. n \in Children /\ n \in 0 .. MaxChildren
  BY TransportAssumption DEF Launches, IInv, TypeOK, Children
<1>3. new \in Proc
  BY DEF Proc
<1>4. e \in CallState /\ e.pc = "starting" /\ e.stage = s.stage /\ e.try = s.try
  BY <1>2, StartingIs
<1> HIDE DEF n, e, new
<1>5. proc' \in [Children -> Proc] /\ call' \in [Calls -> CallState]
      /\ call'[k] = e /\ \A j \in Calls : j # k => call'[j] = calls[j]
  BY <1>1, <1>2, <1>3, <1>4
<1>6. \A c \in Children : c # n => proc'[c] = procs[c]
  BY <1>1, <1>2
<1> QED BY <1>1, <1>2, <1>4, <1>5, <1>6 DEF Sole

LEMMA InvokesIs ==
    ASSUME IInv, NEW k \in Calls, NEW s \in Asked, Invokes(k, s)
    PROVE  /\ launched' \in 0 .. MaxChildren /\ child' \in Children \union {NoChild}
           /\ starting' \in Children \union {NoChild}
           /\ proc' \in [Children -> Proc] /\ call' \in [Calls -> CallState]
           /\ \A j \in Calls : j # k => call'[j] = call[j]
           /\ call'[k].pc = "starting" /\ call'[k].try = 0
           /\ ~slow /\ ~disposed => child' = starting' /\ Sole(child', proc')
<1>1. s \in CallState /\ s.try = 0
  BY AskedIs
<1>2. call \in [Calls -> CallState] /\ proc \in [Children -> Proc]
  BY DEF IInv, TypeOK
<1>3. CASE Joins(k, s, proc)
  <2> DEFINE e == [s EXCEPT !.pc = "starting", !.on = starting]
  <2>1. /\ starting \in Children /\ call' = [call EXCEPT ![k] = e] /\ proc' = proc
        /\ UNCHANGED <<child, starting, launched>>
    BY <1>3 DEF Joins, IInv, TypeOK
  <2>2. e \in CallState /\ e.pc = "starting" /\ e.try = 0
    BY <1>1, <2>1, StartingIs
  <2> HIDE DEF e
  <2>3. call' \in [Calls -> CallState] /\ call'[k] = e /\ \A j \in Calls : j # k => call'[j] = call[j]
    BY <1>2, <2>1, <2>2
  <2> QED BY <2>1, <2>2, <2>3 DEF IInv, TypeOK, OneChild
<1>4. CASE starting = NoChild /\ Launches(k, s, call, proc)
  <2>1. ~slow /\ ~disposed => \A c \in Children : ~(proc[c].alive /\ (~proc[c].killed \/ proc[c].hook))
    BY <1>4 DEF IInv, OneChild, Sole, Children, NoChild
  <2>2. Launches(k, s, call, proc)
    BY <1>4
  <2> QED BY <1>1, <1>2, <2>1, <2>2, LaunchesIs
<1> QED BY <1>3, <1>4 DEF Invokes

(* What an error of a call leads to. *)
LEMMA FailsIs ==
    ASSUME IInv, NEW k \in Calls, call[k].pc # "idle", Fails(k)
    PROVE  /\ launched' \in 0 .. MaxChildren /\ child' \in Children \union {NoChild}
           /\ starting' \in Children \union {NoChild} /\ self' \in {"unknown", "found", "none"}
           /\ proc' \in [Children -> Proc] /\ call' \in [Calls -> CallState]
           /\ \A j \in Calls : j # k => call'[j] = call[j]
           /\ call'[k].pc \in {"failed", "starting"} /\ Moves(call[k], call'[k])
           /\ ~slow /\ ~disposed => child' = starting' /\ Sole(child', proc')
<1>1. call \in [Calls -> CallState] /\ call[k] \in CallState
  BY DEF IInv, TypeOK
<1>2. CASE /\ call[k].stage = "main"
           /\ call' = Ended(k, "failed")
           /\ UNCHANGED <<child, starting, launched, proc, self>>
  <2> DEFINE e == [call[k] EXCEPT !.pc = "failed", !.answer = "none", !.saw = {}]
  <2>1. e \in CallState /\ e.pc = "failed" /\ e.stage = call[k].stage /\ e.try = call[k].try
    BY <1>1, EndedIs
  <2>2. call' = [call EXCEPT ![k] = e]
    BY <1>2 DEF Ended
  <2> HIDE DEF e
  <2>3. call' \in [Calls -> CallState] /\ call'[k] = e /\ \A j \in Calls : j # k => call'[j] = call[j]
    BY <1>1, <2>1, <2>2
  <2>4. Moves(call[k], e)
    BY <1>2, <2>1 DEF Moves, Unsent, Again, ToldStale
  <2> QED BY <1>2, <2>1, <2>3, <2>4 DEF IInv, TypeOK, OneChild
<1>3. CASE call[k].stage = "lookup" /\ self' = "none" /\ Invokes(k, Idle)
  <2>1. /\ launched' \in 0 .. MaxChildren /\ child' \in Children \union {NoChild}
        /\ starting' \in Children \union {NoChild}
        /\ proc' \in [Children -> Proc] /\ call' \in [Calls -> CallState]
        /\ \A j \in Calls : j # k => call'[j] = call[j]
        /\ call'[k].pc = "starting" /\ call'[k].try = 0
        /\ ~slow /\ ~disposed => child' = starting' /\ Sole(child', proc')
    BY <1>3, InvokesIs DEF Asked
  <2>2. Moves(call[k], call'[k])
    BY <1>3, <2>1 DEF Moves, Unsent, Again
  <2> QED BY <1>3, <2>1, <2>2
<1> QED BY <1>2, <1>3 DEF Fails

LEMMA Stay == \A j \in Posts : Moves(call[j], call[j])
BY DEF Moves

-----------------------------------------------------------------------------
(* The steps of a call *)

LEMMA BeginKeeps == ASSUME IInv, NEW k \in Calls, Begin(k) PROVE IInv'
<1>1. PICK s \in Asked : Invokes(k, s)
  BY DEF Begin, Asked
<1>2. call[k].pc = "idle" /\ UNCHANGED <<buffer, self, inbox, pipe, disposed, faults, teams, slow>>
  BY DEF Begin
<1>3. /\ launched' \in 0 .. MaxChildren /\ child' \in Children \union {NoChild}
      /\ starting' \in Children \union {NoChild}
      /\ proc' \in [Children -> Proc] /\ call' \in [Calls -> CallState]
      /\ \A j \in Calls : j # k => call'[j] = call[j]
      /\ call'[k].pc = "starting" /\ call'[k].try = 0
      /\ ~slow /\ ~disposed => child' = starting' /\ Sole(child', proc')
  BY <1>1, InvokesIs
<1>4. Moves(call[k], call'[k]) /\ ~ToldStale(call'[k])
  BY <1>2, <1>3 DEF Moves, Unsent, Again, ToldStale
<1>5. \A j \in Posts : Moves(call[j], call'[j]) /\ (ToldStale(call'[j]) => ToldStale(call[j]))
  BY <1>3, <1>4, Stay DEF Calls
<1>6. PostsOnce'
  BY <1>2, <1>5, CallsMove DEF IInv, teams
<1>7. TypeOK'
  BY <1>2, <1>3 DEF IInv, TypeOK, teams
<1>8. OneChild' /\ Recorded'
  BY <1>2, <1>3 DEF IInv, OneChild, Recorded, teams, Calls
<1> QED BY <1>6, <1>7, <1>8 DEF IInv

(* A step that is an error of a call. *)
LEMMA FailsKeeps ==
    ASSUME IInv, NEW k \in Calls, call[k].pc # "idle", Fails(k), buffer' = buffer,
           UNCHANGED <<inbox, pipe, disposed, faults, teams, slow>>
    PROVE  IInv'
<1>1. /\ launched' \in 0 .. MaxChildren /\ child' \in Children \union {NoChild}
      /\ starting' \in Children \union {NoChild} /\ self' \in {"unknown", "found", "none"}
      /\ proc' \in [Children -> Proc] /\ call' \in [Calls -> CallState]
      /\ \A j \in Calls : j # k => call'[j] = call[j]
      /\ call'[k].pc \in {"failed", "starting"} /\ Moves(call[k], call'[k])
      /\ ~slow /\ ~disposed => child' = starting' /\ Sole(child', proc')
  BY FailsIs
<1>2. \A j \in Posts : Moves(call[j], call'[j]) /\ (ToldStale(call'[j]) => ToldStale(call[j]))
  BY <1>1, Stay DEF Calls, ToldStale
<1>3. PostsOnce'
  BY <1>2, CallsMove DEF IInv, teams
<1>4. TypeOK'
  BY <1>1 DEF IInv, TypeOK, teams
<1>5. OneChild' /\ Recorded'
  BY <1>1 DEF IInv, OneChild, Recorded, teams, Calls
<1> QED BY <1>3, <1>4, <1>5 DEF IInv

LEMMA NotStartedKeeps == ASSUME IInv, NEW k \in Calls, NotStarted(k) PROVE IInv'
BY FailsKeeps DEF NotStarted

LEMMA TimesOutKeeps == ASSUME IInv, NEW k \in Calls, TimesOut(k) PROVE IInv'
BY FailsKeeps DEF TimesOut

LEMMA StartedKeeps == ASSUME IInv, NEW k \in Calls, Started(k) PROVE IInv'
<1> DEFINE e == [call[k] EXCEPT !.pc = "sent", !.on = child]
<1>1. /\ call[k].pc = "starting" /\ call' = [call EXCEPT ![k] = e]
      /\ inbox' = (IF child = NoChild THEN inbox ELSE [inbox EXCEPT ![child] = @ \union {Id(k)}])
      /\ UNCHANGED <<child, starting, buffer, self, launched, proc, pipe, disposed, faults, teams, slow>>
  BY DEF Started
<1>2. /\ call \in [Calls -> CallState] /\ call[k] \in CallState /\ child \in Children \union {NoChild}
      /\ inbox \in [Children -> SUBSET Requested]
  BY DEF IInv, TypeOK
<1>3. e \in CallState /\ e.pc = "sent" /\ e.stage = call[k].stage /\ e.try = call[k].try
  BY <1>2, SentIs
<1> HIDE DEF e
<1>4. call' \in [Calls -> CallState] /\ call'[k] = e /\ \A j \in Calls : j # k => call'[j] = call[j]
  BY <1>1, <1>2, <1>3
<1>5. /\ Id(k) = <<k, call[k].stage, call[k].try>> /\ Id(k) \in Requested
      /\ call[k].stage \in Stages /\ call[k].try \in {0, 1}
  BY <1>2 DEF Id, Requested, CallState
<1>6. /\ inbox' \in [Children -> SUBSET Requested]
      /\ \A c \in Children : inbox'[c] = inbox[c] \/ (c = child /\ inbox'[c] = inbox[c] \union {Id(k)})
  BY <1>1, <1>2, <1>5
<1>7. TypeOK'
  BY <1>1, <1>4, <1>6 DEF IInv, TypeOK, teams
<1>8. OneChild' /\ Recorded'
  BY <1>1, <1>3, <1>4 DEF IInv, OneChild, Recorded, teams, Calls
<1>9. ASSUME NEW j \in Posts PROVE PostedOnceAt(j, call'[j], inbox', pipe, made[j])
  <2>1. PostedOnceAt(j, call[j], inbox, pipe, made[j])
    BY DEF IInv, PostsOnce
  <2>2. CASE j # k \/ call[k].stage # "main"
    <3>1. \A t \in {0, 1} : Req(j, t) # Id(k)
      BY <1>5, <2>2 DEF Req
    <3>2. \A t \in {0, 1} : \A c \in Children : Req(j, t) \in inbox'[c] => Req(j, t) \in inbox[c]
      BY <1>6, <3>1
    <3>3. (Moves(call[j], call'[j]) /\ ~ToldStale(call'[j])) \/ call'[j] = call[j]
      BY <1>1, <1>3, <1>4, <2>2 DEF Calls, ToldStale, Moves, Unsent, Again
    <3>4. Moves(call[j], call'[j]) /\ (ToldStale(call'[j]) => ToldStale(call[j]))
      BY <3>3 DEF Moves
    <3> QED BY <2>1, <3>2, <3>4, PostMoves
  <2>3. CASE j = k /\ call[k].stage = "main"
    <3> DEFINE s == call[k]
               i == s.try
    <3>1. Id(k) = Req(k, i) /\ i \in {0, 1} /\ \A t \in {0, 1} : Req(k, t) = Req(k, i) => t = i
      BY <1>5, <2>3 DEF Req
    <3>2. Unsent(s, i)
      BY <1>1 DEF Unsent
    <3>3. ~Waiting(Req(k, i), inbox) /\ ~Answering(Req(k, i), pipe)
      BY <2>1, <2>3, <3>1, <3>2 DEF PostedOnceAt
    <3>4. made[k] = 0
      BY <1>1, <2>1, <2>3, <3>1 DEF PostedOnceAt, Unsent, Again
    <3>5. \A t \in {0, 1} : t # i => \A c \in Children : Req(k, t) \in inbox'[c] => Req(k, t) \in inbox[c]
      BY <1>6, <3>1
    <3>6. \A c \in Children : Req(k, i) \in inbox'[c] => c = child
      BY <1>6, <3>3 DEF Waiting
    <3>7. Again(s) => i = 1
      BY DEF Again
    <3>8. /\ \A t \in {0, 1} : Unsent(e, t) => t # i /\ Unsent(s, t)
          /\ Again(e) => Again(s)
          /\ Again(s) => Again(e)
          /\ e.pc # "starting" /\ ~ToldStale(e)
      BY <1>1, <1>3, <1>5, <2>3 DEF Unsent, Again, ToldStale
    <3>9. ASSUME NEW t \in {0, 1}
          PROVE  /\ Unsent(e, t) => ~Waiting(Req(k, t), inbox') /\ ~Answering(Req(k, t), pipe)
                 /\ \A c, d \in Children : Req(k, t) \in inbox'[c] /\ Req(k, t) \in inbox'[d] => c = d
                 /\ Waiting(Req(k, t), inbox') => ~Answering(Req(k, t), pipe)
      <4>1. CASE t = i
        BY <3>3, <3>6, <3>8, <4>1
      <4>2. CASE t # i
        <5>1. Waiting(Req(k, t), inbox') => Waiting(Req(k, t), inbox)
          BY <3>5, <4>2 DEF Waiting
        <5> QED BY <2>1, <2>3, <3>5, <3>8, <4>2, <5>1 DEF PostedOnceAt
      <4> QED BY <4>1, <4>2
    <3>10. Again(e) => ~Waiting(Req(k, 0), inbox')
      <4> SUFFICES ASSUME Again(e) PROVE ~Waiting(Req(k, 0), inbox')
        OBVIOUS
      <4>1. ~Waiting(Req(k, 0), inbox) /\ i # 0
        BY <2>1, <2>3, <3>7, <3>8 DEF PostedOnceAt
      <4> QED BY <3>5, <4>1 DEF Waiting
    <3> QED BY <1>4, <2>3, <3>4, <3>8, <3>9, <3>10 DEF PostedOnceAt
  <2> QED BY <2>2, <2>3
<1>10. PostsOnce'
  BY <1>1, <1>9 DEF PostsOnce, teams
<1> QED BY <1>7, <1>8, <1>10 DEF IInv

LEMMA ConsumeKeeps == ASSUME IInv, NEW answer \in pipe, Consume(answer) PROVE IInv'
<1> DEFINE k == answer.id[1]
           told == answer.answer
           saw == answer.saw
           e == [call[k] EXCEPT !.pc = "answered", !.answer = told, !.saw = saw]
<1>1. /\ pipe' = pipe \ {answer} /\ buffer' = "clean"
      /\ UNCHANGED <<child, starting, self, launched, proc, inbox, disposed, faults, teams, slow>>
  BY DEF Consume
<1>2. call \in [Calls -> CallState] /\ answer \in Answers
  BY DEF IInv, TypeOK
<1>3. told \in {"ok", "error", "stale"} /\ saw \in SUBSET Posts /\ k \in Calls
  BY <1>2 DEF Answers, Requested
<1> HIDE DEF k, told, saw
<1>4. call[k] \in CallState
  BY <1>2, <1>3
<1>5. /\ e \in CallState /\ e.pc = "answered" /\ e.answer = told
      /\ e.stage = call[k].stage /\ e.try = call[k].try
  BY <1>3, <1>4 DEF CallState
<1>6. call' = call \/ (call[k].pc = "sent" /\ answer.id = Id(k) /\ call' = [call EXCEPT ![k] = e])
  BY DEF Consume, Awaited, k, told, saw
<1> HIDE DEF e
<1>7. /\ call' \in [Calls -> CallState]
      /\ \A j \in Calls : call'[j] = call[j]
           \/ (j = k /\ call'[j] = e /\ call[k].pc = "sent" /\ answer.id = Id(k))
  BY <1>2, <1>3, <1>5, <1>6
<1>8. TypeOK'
  BY <1>1, <1>7 DEF IInv, TypeOK, teams
<1>9. OneChild' /\ Recorded'
  BY <1>1, <1>5, <1>7 DEF IInv, OneChild, Recorded, teams, Calls
<1>10. ASSUME NEW j \in Posts PROVE PostedOnceAt(j, call'[j], inbox', pipe', made[j])
  <2>1. PostedOnceAt(j, call[j], inbox, pipe, made[j])
    BY DEF IInv, PostsOnce
  <2>2. CASE call'[j] = call[j]
    <3>1. Moves(call[j], call'[j])
      BY <2>2 DEF Moves
    <3> QED BY <1>1, <2>1, <2>2, <3>1, PostMoves
  <2>3. CASE j = k /\ call'[j] = e /\ call[k].pc = "sent" /\ answer.id = Id(k)
    <3>1. Moves(call[j], e)
      BY <1>5, <2>3 DEF Moves, Unsent, Again
    <3>2. ASSUME ToldStale(e) PROVE ~Waiting(Req(j, 0), inbox) /\ made[j] = 0
      <4>1. answer.id = Req(j, 0) /\ answer.answer = "stale" /\ ~Again(call[j])
        BY <1>5, <2>3, <3>2 DEF ToldStale, Id, Req, Again, told
      <4>2. Answering(Req(j, 0), pipe)
        BY <4>1 DEF Answering
      <4> QED BY <2>1, <4>1, <4>2 DEF PostedOnceAt
    <3> QED BY <1>1, <2>1, <2>3, <3>1, <3>2, PostMoves
  <2> QED BY <1>7, <2>2, <2>3 DEF Calls
<1>11. PostsOnce'
  BY <1>1, <1>10 DEF PostsOnce, teams
<1> QED BY <1>8, <1>9, <1>11 DEF IInv

(* A call goes on with its answer: it ends well, or the post follows its   *)
(* lookup.                                                                 *)
LEMMA SucceedsKeeps ==
    ASSUME IInv, NEW k \in Calls, call[k].pc = "answered", Succeeds(k), buffer' = buffer,
           UNCHANGED <<inbox, pipe, disposed, faults, slow>>
    PROVE  IInv'
<1>1. call \in [Calls -> CallState] /\ call[k] \in CallState
  BY DEF IInv, TypeOK
<1>2. CASE /\ call[k].stage = "lookup" /\ self' \in {"found", "none"}
           /\ Invokes(k, Idle) /\ UNCHANGED teams
  <2>1. /\ launched' \in 0 .. MaxChildren /\ child' \in Children \union {NoChild}
        /\ starting' \in Children \union {NoChild}
        /\ proc' \in [Children -> Proc] /\ call' \in [Calls -> CallState]
        /\ \A j \in Calls : j # k => call'[j] = call[j]
        /\ call'[k].pc = "starting" /\ call'[k].try = 0
        /\ ~slow /\ ~disposed => child' = starting' /\ Sole(child', proc')
    BY <1>2, InvokesIs DEF Asked
  <2>2. Moves(call[k], call'[k]) /\ ~ToldStale(call'[k])
    BY <1>2, <2>1 DEF Moves, Unsent, Again, ToldStale
  <2>3. \A j \in Posts : Moves(call[j], call'[j]) /\ (ToldStale(call'[j]) => ToldStale(call[j]))
    BY <2>1, <2>2, Stay DEF Calls
  <2>4. PostsOnce'
    BY <1>2, <2>3, CallsMove DEF IInv, teams
  <2>5. TypeOK'
    BY <1>2, <2>1 DEF IInv, TypeOK, teams
  <2>6. OneChild' /\ Recorded'
    BY <1>2, <2>1 DEF IInv, OneChild, Recorded, teams, Calls
  <2> QED BY <2>4, <2>5, <2>6 DEF IInv
<1>3. CASE /\ call[k].stage = "main" /\ call' = Ended(k, "ok")
           /\ (IF k \in Posts THEN Records(k) ELSE UNCHANGED <<posted, unrecorded>>)
           /\ selfRead' = selfRead \union NotOurs(call[k].saw)
           /\ UNCHANGED <<child, starting, launched, proc, self, made>>
  <2> DEFINE e == [call[k] EXCEPT !.pc = "ok", !.answer = "none", !.saw = {}]
  <2>1. e \in CallState /\ e.pc = "ok" /\ e.stage = call[k].stage /\ e.try = call[k].try
    BY <1>1, EndedIs
  <2>2. call' = [call EXCEPT ![k] = e]
    BY <1>3 DEF Ended
  <2> HIDE DEF e
  <2>3. call' \in [Calls -> CallState] /\ call'[k] = e /\ \A j \in Calls : j # k => call'[j] = call[j]
    BY <1>1, <2>1, <2>2
  <2>4. Moves(call[k], e) /\ ~ToldStale(e)
    BY <1>3, <2>1 DEF Moves, Unsent, Again, ToldStale
  <2>5. \A j \in Posts : Moves(call[j], call'[j]) /\ (ToldStale(call'[j]) => ToldStale(call[j]))
    BY <2>3, <2>4, Stay DEF Calls
  <2>6. PostsOnce'
    BY <1>3, <2>5, CallsMove DEF IInv
  <2>7. /\ selfRead' \subseteq Posts /\ posted' \subseteq Posts /\ unrecorded' \subseteq Posts
        /\ posted \subseteq posted' /\ unrecorded \subseteq unrecorded'
        /\ k \in Posts => k \in posted' \union unrecorded'
    BY <1>1, <1>3 DEF IInv, TypeOK, CallState, NotOurs, Records
  <2>8. TypeOK'
    BY <1>3, <2>3, <2>7 DEF IInv, TypeOK
  <2>9. OneChild'
    BY <1>3 DEF IInv, OneChild
  <2>10. Recorded'
    BY <1>3, <2>3, <2>7 DEF IInv, Recorded, Calls
  <2> QED BY <2>6, <2>8, <2>9, <2>10 DEF IInv
<1> QED BY <1>2, <1>3 DEF Succeeds

(* The pending requests are rejected. *)
LEMMA RejectedAre ==
    ASSUME IInv
    PROVE  /\ Rejected \in [Calls -> CallState]
           /\ \A j \in Calls : Rejected[j] = call[j]
                \/ /\ call[j].pc = "sent" /\ Rejected[j].pc = "answered" /\ Rejected[j].answer = "error"
                   /\ Rejected[j].stage = call[j].stage /\ Rejected[j].try = call[j].try
           /\ \A j \in Posts : Moves(call[j], Rejected[j]) /\ (ToldStale(Rejected[j]) => ToldStale(call[j]))
           /\ \A j \in Posts : Rejected[j].pc = "ok" => call[j].pc = "ok"
<1>1. ASSUME NEW j \in Calls
      PROVE  /\ Rejected[j] \in CallState
             /\ Rejected[j] = call[j]
                \/ /\ call[j].pc = "sent" /\ Rejected[j].pc = "answered" /\ Rejected[j].answer = "error"
                   /\ Rejected[j].stage = call[j].stage /\ Rejected[j].try = call[j].try
  <2> DEFINE e == [call[j] EXCEPT !.pc = "answered", !.answer = "error"]
  <2>1. call[j] \in CallState
    BY DEF IInv, TypeOK
  <2>2. e \in CallState /\ e.pc = "answered" /\ e.answer = "error" /\ e.stage = call[j].stage /\ e.try = call[j].try
    BY <2>1, RejectedIs
  <2>3. Rejected[j] = (IF call[j].pc = "sent" THEN e ELSE call[j])
    BY DEF Rejected
  <2> HIDE DEF e
  <2> QED BY <2>1, <2>2, <2>3
<1>2. Rejected = [j \in Calls |-> Rejected[j]]
  BY DEF Rejected
<1>3. ASSUME NEW j \in Posts
      PROVE  /\ Moves(call[j], Rejected[j])
             /\ ToldStale(Rejected[j]) => ToldStale(call[j])
             /\ Rejected[j].pc = "ok" => call[j].pc = "ok"
  <2> j \in Calls
    BY DEF Calls
  <2>1. CASE Rejected[j] = call[j]
    BY <2>1 DEF Moves
  <2>2. CASE /\ call[j].pc = "sent" /\ Rejected[j].pc = "answered" /\ Rejected[j].answer = "error"
             /\ Rejected[j].stage = call[j].stage /\ Rejected[j].try = call[j].try
    BY <2>2 DEF Moves, ToldStale, Unsent, Again
  <2> QED BY <1>1, <2>1, <2>2
<1> QED BY <1>1, <1>2, <1>3

LEMMA RestartsKeeps ==
    ASSUME IInv, NEW k \in Calls, call[k].pc = "answered", Restarts(k),
           UNCHANGED <<inbox, pipe, disposed, faults, slow>>
    PROVE  IInv'
<1> DEFINE s == [call[k] EXCEPT !.try = 1, !.answer = "none"]
<1>1. /\ call[k].answer = "stale" /\ call[k].try = 0 /\ buffer' = "clean"
      /\ Launches(k, s, Rejected, Killed(FALSE)) /\ UNCHANGED <<self, teams>>
  BY DEF Restarts, isStaleSessionError
<1>2. call[k] \in CallState /\ proc \in [Children -> Proc]
  BY DEF IInv, TypeOK
<1>3. s \in CallState /\ s.stage = call[k].stage /\ s.try = 1
  BY <1>2, AgainIs
<1>4. /\ Killed(FALSE) \in [Children -> Proc]
      /\ \A c \in Children :
            /\ Killed(FALSE)[c].alive = proc[c].alive
            /\ c # child => /\ Killed(FALSE)[c].killed = proc[c].killed
                            /\ Killed(FALSE)[c].hook = proc[c].hook
            /\ c = child => /\ Killed(FALSE)[c].killed = TRUE
                            /\ Killed(FALSE)[c].hook = FALSE
  BY <1>2, KilledIs
<1>5. /\ Rejected \in [Calls -> CallState]
      /\ \A j \in Posts : Moves(call[j], Rejected[j]) /\ (ToldStale(Rejected[j]) => ToldStale(call[j]))
      /\ \A j \in Posts : Rejected[j].pc = "ok" => call[j].pc = "ok"
  BY RejectedAre
<1> HIDE DEF s
<1>6. /\ launched' \in 0 .. MaxChildren /\ child' \in Children /\ starting' = child'
      /\ proc' \in [Children -> Proc] /\ call' \in [Calls -> CallState]
      /\ \A j \in Calls : j # k => call'[j] = Rejected[j]
      /\ call'[k].pc = "starting" /\ call'[k].stage = s.stage /\ call'[k].try = s.try
      /\ (\A c \in Children : ~(Killed(FALSE)[c].alive /\ (~Killed(FALSE)[c].killed \/ Killed(FALSE)[c].hook)))
            => Sole(child', proc')
  BY <1>1, <1>3, <1>4, <1>5, LaunchesIs
<1>7. TypeOK'
  BY <1>1, <1>6 DEF IInv, TypeOK, teams
<1>8. OneChild'
  <2> SUFFICES ASSUME ~slow, ~disposed PROVE Sole(child', proc')
    BY <1>6 DEF OneChild
  <2>1. \A c \in Children : proc[c].alive /\ (~proc[c].killed \/ proc[c].hook) => c = child
    BY DEF IInv, OneChild, Sole
  <2> QED BY <1>4, <1>6, <2>1
<1>9. Recorded'
  BY <1>1, <1>5, <1>6 DEF IInv, Recorded, teams, Calls
<1>10. ASSUME NEW j \in Posts PROVE Moves(call[j], call'[j]) /\ (ToldStale(call'[j]) => ToldStale(call[j]))
  <2>1. CASE j # k
    BY <1>5, <1>6, <2>1 DEF Calls
  <2>2. CASE j = k
    <3>1. call[k].stage \in {"lookup", "main"}
      BY <1>2 DEF CallState, Stages
    <3> QED BY <1>1, <1>3, <1>6, <2>2, <3>1 DEF Moves, ToldStale, Unsent, Again
  <2> QED BY <2>1, <2>2
<1>11. PostsOnce'
  BY <1>1, <1>10, CallsMove DEF teams
<1> QED BY <1>7, <1>8, <1>9, <1>11 DEF IInv

LEMMA AnsweredKeeps == ASSUME IInv, NEW k \in Calls, Answered(k) PROVE IInv'
<1>1. call[k].pc = "answered" /\ UNCHANGED <<inbox, pipe, disposed, faults, slow>>
  BY DEF Answered
<1>2. CASE Succeeds(k) /\ UNCHANGED buffer
  BY <1>1, <1>2, SucceedsKeeps
<1>3. CASE Restarts(k)
  BY <1>1, <1>3, RestartsKeeps
<1>4. CASE GivesUp(k)
  BY <1>1, <1>4, FailsKeeps DEF GivesUp
<1> QED BY <1>2, <1>3, <1>4 DEF Answered

LEMMA DisposeKeeps == ASSUME IInv, Dispose PROVE IInv'
<1>1. /\ disposed' = TRUE /\ call' = Rejected /\ proc' = Killed(TRUE)
      /\ child' = NoChild /\ starting' = NoChild
      /\ UNCHANGED <<buffer, self, launched, inbox, pipe, faults, teams, slow>>
  BY DEF Dispose
<1>2. Killed(TRUE) \in [Children -> Proc]
  BY KilledIs DEF IInv, TypeOK
<1>3. /\ Rejected \in [Calls -> CallState]
      /\ \A j \in Posts : Moves(call[j], Rejected[j]) /\ (ToldStale(Rejected[j]) => ToldStale(call[j]))
      /\ \A j \in Posts : Rejected[j].pc = "ok" => call[j].pc = "ok"
  BY RejectedAre
<1>4. TypeOK'
  BY <1>1, <1>2, <1>3 DEF IInv, TypeOK, teams
<1>5. OneChild' /\ Recorded'
  BY <1>1, <1>3 DEF IInv, OneChild, Recorded, teams
<1>6. PostsOnce'
  BY <1>1, <1>3, CallsMove DEF teams
<1> QED BY <1>4, <1>5, <1>6 DEF IInv

-----------------------------------------------------------------------------
(* The steps of the subprocesses *)

(* The request of a post is served: it waited in one place, and nothing    *)
(* else of the post waits then.                                            *)
LEMMA PostServed ==
    ASSUME NEW k, NEW s, NEW ib, NEW jb, NEW pp, NEW n, NEW m, NEW r,
           s.stage \in Stages, s.try \in {0, 1}, NEW c \in Children, NEW i \in {0, 1},
           Req(k, i) \in ib[c], Req(k, i) \notin jb[c],
           \A t \in {0, 1} : \A d \in Children : Req(k, t) \in jb[d] => Req(k, t) \in ib[d],
           r.id = Req(k, i), m = n \/ (m = n + 1 /\ r.answer = "ok"),
           PostedOnceAt(k, s, ib, pp, n)
    PROVE  PostedOnceAt(k, s, jb, pp \union {r}, m)
<1> DEFINE qq == pp \union {r}
<1>1. Waiting(Req(k, i), ib) /\ ~Answering(Req(k, i), pp) /\ n = 0 /\ ~Unsent(s, i)
  BY DEF PostedOnceAt, Waiting
<1>2. \A t \in {0, 1} : Req(k, t) = Req(k, i) => t = i
  BY DEF Req
<1>3. ~Waiting(Req(k, i), jb)
  BY DEF PostedOnceAt, Waiting
<1>4. s.stage = "lookup" \/ s.stage = "main"
  BY DEF Stages
<1>5. \A t \in {0, 1} : Waiting(Req(k, t), jb) => Waiting(Req(k, t), ib)
  BY DEF Waiting
<1>6. \A t \in {0, 1} : t # i => (Answering(Req(k, t), qq) => Answering(Req(k, t), pp))
  BY <1>2 DEF Answering
<1>7. i = 1 => Again(s)
  BY <1>1, <1>4 DEF Unsent, Again
<1>8. i = 0 => ~Again(s) /\ ~ToldStale(s)
  <2>1. (Again(s) => ~Waiting(Req(k, 0), ib)) /\ (ToldStale(s) => ~Waiting(Req(k, 0), ib))
    BY DEF PostedOnceAt
  <2>2. Waiting(Req(k, i), ib)
    BY <1>1
  <2> QED BY <2>1, <2>2
<1>9. \A t \in {0, 1} : ~Waiting(Req(k, t), jb)
  <2>1. CASE i = 0
    <3>1. Waiting(Req(k, 1), ib) => ~Unsent(s, 1)
      BY DEF PostedOnceAt
    <3>2. ~Unsent(s, 1) => Again(s)
      BY <1>4 DEF Unsent, Again
    <3> QED BY <1>3, <1>5, <1>8, <2>1, <3>1, <3>2
  <2>2. CASE i = 1
    <3>1. ~Waiting(Req(k, 0), ib)
      BY <1>7, <2>2 DEF PostedOnceAt
    <3> QED BY <1>3, <1>5, <2>2, <3>1
  <2> QED BY <2>1, <2>2
<1>10. ~Unsent(s, 0)
  BY <1>1, <1>7 DEF Unsent, Again
<1>11. ~(Again(s) /\ s.pc = "starting")
  BY <1>1, <1>8 DEF Unsent, Again
<1>12. ~ToldStale(s)
  BY <1>7, <1>8 DEF ToldStale, Again
<1>13. \A t \in {0, 1} : Unsent(s, t) => ~Answering(Req(k, t), qq)
  BY <1>1, <1>6 DEF PostedOnceAt
<1>14. m \in {0, 1} /\ (r.answer # "ok" => m = 0)
  BY <1>1
<1>15. ASSUME NEW a \in qq, a.id = Req(k, 0), a.answer = "stale", ~Again(s) PROVE m = 0
  <2>1. i = 0
    BY <1>7, <1>15
  <2>2. a \notin pp
    BY <1>1, <1>15, <2>1 DEF Answering
  <2> QED BY <1>14, <1>15, <2>2
<1>16. \A t \in {0, 1} : \A d, e \in Children : Req(k, t) \in jb[d] /\ Req(k, t) \in jb[e] => d = e
  BY <1>9 DEF Waiting
<1> HIDE DEF qq
<1>17. PostedOnceAt(k, s, jb, qq, m)
  BY <1>9, <1>10, <1>11, <1>12, <1>13, <1>14, <1>15, <1>16 DEF PostedOnceAt
<1> QED BY <1>17 DEF qq

LEMMA ServeKeeps == ASSUME IInv, NEW c \in Children, NEW id \in inbox[c], Serve(c, id) PROVE IInv'
<1>1. PICK answer \in {"ok", "error", "stale"}, saw \in SUBSET Posts :
         /\ Puts(c, id, answer, saw)
         /\ \/ made' = made
            \/ answer = "ok" /\ id[1] \in Posts /\ id[2] = "main" /\ made' = [made EXCEPT ![id[1]] = @ + 1]
         /\ faults' \in 0 .. MaxFaults
  <2>1. faults \in 0 .. MaxFaults
    BY DEF IInv, TypeOK
  <2>2. Fault => faults' \in 0 .. MaxFaults
    BY <2>1, TransportAssumption DEF Fault
  <2>3. CASE proc[c].stale
    BY <2>1, <2>3 DEF Serve
  <2>4. CASE ~proc[c].stale /\ Puts(c, id, "error", {}) /\ Fault /\ UNCHANGED made
    BY <2>2, <2>4
  <2>5. CASE /\ ~proc[c].stale
             /\ Puts(c, id, "ok", IF id[1] \in Fetches THEN {k \in Posts : made[k] > 0} ELSE {})
             /\ made' = IF id[1] \in Posts /\ id[2] = "main" THEN [made EXCEPT ![id[1]] = @ + 1] ELSE made
             /\ UNCHANGED faults
    <3> DEFINE saw == IF id[1] \in Fetches THEN {k \in Posts : made[k] > 0} ELSE {}
    <3>1. saw \in SUBSET Posts
      OBVIOUS
    <3> HIDE DEF saw
    <3> QED BY <2>1, <2>5, <3>1 DEF saw
  <2> QED BY <2>3, <2>4, <2>5 DEF Serve
<1> DEFINE r == [id |-> id, answer |-> answer, saw |-> saw]
<1>2. /\ inbox' = [inbox EXCEPT ![c] = @ \ {id}] /\ pipe' = pipe \union {r}
      /\ UNCHANGED <<client, proc, disposed, posted, unrecorded, selfRead, slow>>
  BY <1>1 DEF Serve, Puts
<1>3. /\ inbox \in [Children -> SUBSET Requested] /\ made \in [Posts -> Nat] /\ call \in [Calls -> CallState]
  BY DEF IInv, TypeOK
<1>4. id \in Requested
  BY <1>3
<1>5. r \in Answers /\ r.id = id /\ r.answer = answer
  BY <1>4 DEF Answers
<1> HIDE DEF r
<1>6. made' \in [Posts -> Nat]
  BY <1>1, <1>3
<1>7. inbox' \in [Children -> SUBSET Requested]
      /\ \A d \in Children : inbox'[d] = IF d = c THEN inbox[d] \ {id} ELSE inbox[d]
  BY <1>2, <1>3
<1>8. TypeOK'
  BY <1>1, <1>2, <1>5, <1>6, <1>7 DEF IInv, TypeOK, client
<1>9. OneChild' /\ Recorded'
  BY <1>2 DEF IInv, OneChild, Recorded, client
<1>10. ASSUME NEW j \in Posts PROVE PostedOnceAt(j, call[j], inbox', pipe', made'[j])
  <2>1. PostedOnceAt(j, call[j], inbox, pipe, made[j])
    BY DEF IInv, PostsOnce
  <2>2. CASE \E i \in {0, 1} : id = Req(j, i)
    <3>1. PICK i \in {0, 1} : id = Req(j, i)
      BY <2>2
    <3>2. call[j].stage \in Stages /\ call[j].try \in {0, 1}
      BY <1>3 DEF CallState, Calls
    <3>3. made'[j] = made[j] \/ (made'[j] = made[j] + 1 /\ r.answer = "ok")
      BY <1>1, <1>3, <1>5
    <3>4. /\ \A t \in {0, 1} : \A d \in Children : Req(j, t) \in inbox'[d] => Req(j, t) \in inbox[d]
          /\ r.id = Req(j, i) /\ Req(j, i) \in inbox[c] /\ Req(j, i) \notin inbox'[c]
      BY <1>5, <1>7, <3>1
    <3>5. PostedOnceAt(j, call[j], inbox', pipe \union {r}, made'[j])
      BY <2>1, <3>2, <3>3, <3>4, PostServed
    <3> QED BY <1>2, <3>5
  <2>3. CASE \A i \in {0, 1} : id # Req(j, i)
    <3>1. ~(id[1] = j /\ id[2] = "main")
      BY <1>4, <2>3 DEF Requested, Req
    <3>2. made'[j] = made[j]
      BY <1>1, <1>3, <3>1
    <3>3. /\ \A t \in {0, 1} : \A d \in Children : Req(j, t) \in inbox'[d] => Req(j, t) \in inbox[d]
          /\ \A t \in {0, 1} : \A a \in pipe' : a.id = Req(j, t) => a \in pipe
      BY <1>2, <1>5, <1>7, <2>3
    <3>4. Moves(call[j], call[j])
      BY DEF Moves
    <3> QED BY <2>1, <3>2, <3>3, <3>4, PostMoves
  <2> QED BY <2>2, <2>3
<1>11. call' = call
  BY <1>2 DEF client
<1>12. PostsOnce'
  BY <1>10, <1>11 DEF PostsOnce
<1> QED BY <1>8, <1>9, <1>12 DEF IInv

(* Steps that leave the calls and Teams as they are. *)
LEMMA CallsStay ==
    ASSUME IInv, call' = call, \A c \in Children : inbox'[c] \subseteq inbox[c], pipe' = pipe,
           made' = made, posted' = posted, unrecorded' = unrecorded
    PROVE  PostsOnce' /\ Recorded'
<1>1. \A k \in Posts : Moves(call[k], call'[k]) /\ (ToldStale(call'[k]) => ToldStale(call[k]))
  BY Stay
<1>2. PostsOnce'
  BY <1>1, CallsMove
<1>3. Recorded'
  BY DEF IInv, Recorded
<1> QED BY <1>2, <1>3

LEMMA LaunchTimesOutKeeps == ASSUME IInv, NEW c \in Children, LaunchTimesOut(c) PROVE IInv'
<1> DEFINE q == [proc[c] EXCEPT !.launch = "failed"]
<1>1. /\ proc' = [proc EXCEPT ![c] = q] /\ starting' = AfterFailure(c) /\ slow' = TRUE
      /\ UNCHANGED <<child, buffer, self, launched, call, inbox, pipe, disposed, faults, teams>>
  BY DEF LaunchTimesOut
<1>2. proc \in [Children -> Proc] /\ starting \in Children \union {NoChild}
  BY DEF IInv, TypeOK
<1>3. q \in Proc
  BY <1>2 DEF Proc
<1> HIDE DEF q
<1>4. proc' \in [Children -> Proc] /\ starting' \in Children \union {NoChild}
  BY <1>1, <1>2, <1>3 DEF AfterFailure
<1>5. TypeOK'
  BY <1>1, <1>4 DEF IInv, TypeOK, teams
<1>6. PostsOnce' /\ Recorded'
  BY <1>1, CallsStay DEF teams
<1>7. OneChild'
  BY <1>1 DEF OneChild
<1> QED BY <1>5, <1>6, <1>7 DEF IInv

(* Steps that change of a subprocess neither whether it is up nor whether  *)
(* it was told to go.                                                      *)
LEMMA StaysSole ==
    ASSUME OneChild, UNCHANGED <<child, starting, disposed, slow>>,
           \A c \in Children : /\ proc'[c].alive => proc[c].alive
                             /\ proc'[c].killed = proc[c].killed /\ proc'[c].hook = proc[c].hook
    PROVE  OneChild'
BY DEF OneChild, Sole

LEMMA InitialisesKeeps == ASSUME IInv, NEW c \in Children, Initialises(c) PROVE IInv'
<1> DEFINE how == IF buffer = "partial" THEN "mute" ELSE "ready"
           q == [proc[c] EXCEPT !.launch = how]
<1>1. /\ proc' = [proc EXCEPT ![c] = q] /\ buffer' = "clean"
      /\ UNCHANGED <<child, starting, self, launched, call, inbox, pipe, disposed, faults, teams, slow>>
  BY DEF Initialises
<1>2. proc \in [Children -> Proc]
  BY DEF IInv, TypeOK
<1>3. how \in {"mute", "ready"}
  OBVIOUS
<1> HIDE DEF how
<1>4. q \in Proc /\ q.alive = proc[c].alive /\ q.killed = proc[c].killed /\ q.hook = proc[c].hook
  BY <1>2, <1>3 DEF Proc
<1> HIDE DEF q
<1>5. /\ proc' \in [Children -> Proc]
      /\ \A d \in Children : proc'[d] = IF d = c THEN q ELSE proc[d]
  BY <1>1, <1>2, <1>4
<1>6. TypeOK'
  BY <1>1, <1>5 DEF IInv, TypeOK, teams
<1>7. PostsOnce' /\ Recorded'
  BY <1>1, CallsStay DEF teams
<1>8. OneChild'
  BY <1>1, <1>4, <1>5, StaysSole DEF IInv
<1> QED BY <1>6, <1>7, <1>8 DEF IInv

LEMMA LapsesKeeps == ASSUME IInv, NEW c \in Children, Lapses(c) PROVE IInv'
<1> DEFINE q == [proc[c] EXCEPT !.stale = TRUE]
<1>1. /\ proc' = [proc EXCEPT ![c] = q] /\ Fault
      /\ UNCHANGED <<client, inbox, pipe, disposed, teams, slow>>
  BY DEF Lapses
<1>2. proc \in [Children -> Proc] /\ faults \in 0 .. MaxFaults
  BY DEF IInv, TypeOK
<1>3. q \in Proc /\ q.alive = proc[c].alive /\ q.killed = proc[c].killed /\ q.hook = proc[c].hook
  BY <1>2 DEF Proc
<1> HIDE DEF q
<1>4. /\ proc' \in [Children -> Proc]
      /\ \A d \in Children : proc'[d] = IF d = c THEN q ELSE proc[d]
  BY <1>1, <1>2, <1>3
<1>5. faults' \in 0 .. MaxFaults
  BY <1>1, <1>2, TransportAssumption DEF Fault
<1>6. TypeOK'
  BY <1>1, <1>4, <1>5 DEF IInv, TypeOK, client, teams
<1>7. PostsOnce' /\ Recorded'
  BY <1>1, CallsStay DEF client, teams
<1>8. OneChild'
  BY <1>1, <1>3, <1>4, StaysSole DEF IInv, client
<1> QED BY <1>6, <1>7, <1>8 DEF IInv

LEMMA ExitsKeeps == ASSUME IInv, NEW c \in Children, Exits(c) PROVE IInv'
<1> DEFINE q == [proc[c] EXCEPT !.alive = FALSE, !.stale = FALSE]
<1>1. /\ proc[c].alive /\ inbox' = [inbox EXCEPT ![c] = {}]
      /\ child' = (IF proc[c].hook THEN NoChild ELSE child)
      /\ starting' = (IF proc[c].hook THEN NoChild ELSE starting)
      /\ UNCHANGED <<self, launched, call, pipe, disposed, teams, slow>>
  BY DEF Exits, Up
<1>2. proc' = [proc EXCEPT ![c] = q]
  BY DEF Exits
<1>3. /\ proc \in [Children -> Proc] /\ faults \in 0 .. MaxFaults
      /\ inbox \in [Children -> SUBSET Requested] /\ buffer \in {"clean", "partial"}
      /\ child \in Children \union {NoChild} /\ starting \in Children \union {NoChild}
  BY DEF IInv, TypeOK
<1>4. q \in Proc /\ ~q.alive
  BY <1>3 DEF Proc
<1> HIDE DEF q
<1>5. /\ proc' \in [Children -> Proc]
      /\ \A d \in Children : proc'[d] = IF d = c THEN q ELSE proc[d]
  BY <1>2, <1>3, <1>4
<1>6. faults' \in 0 .. MaxFaults /\ buffer' \in {"clean", "partial"}
  BY <1>3, TransportAssumption DEF Exits, Fault
<1>7. inbox' \in [Children -> SUBSET Requested] /\ \A d \in Children : inbox'[d] \subseteq inbox[d]
  BY <1>1, <1>3
<1>8. child' \in Children \union {NoChild} /\ starting' \in Children \union {NoChild}
  BY <1>1, <1>3
<1>9. TypeOK'
  BY <1>1, <1>5, <1>6, <1>7, <1>8 DEF IInv, TypeOK, teams
<1>10. PostsOnce' /\ Recorded'
  BY <1>1, <1>7, CallsStay DEF teams
<1>11. OneChild'
  <2> SUFFICES ASSUME ~slow, ~disposed PROVE child' = starting' /\ Sole(child', proc')
    BY <1>1 DEF OneChild
  <2>1. child = starting /\ \A d \in Children : proc[d].alive /\ (~proc[d].killed \/ proc[d].hook) => d = child
    BY DEF IInv, OneChild, Sole
  <2>2. \A d \in Children : proc'[d].alive /\ (~proc'[d].killed \/ proc'[d].hook) => d # c /\ d = child
    BY <1>4, <1>5, <2>1
  <2>3. child' = starting'
    BY <1>1, <2>1
  <2>4. CASE proc[c].hook
    BY <1>1, <2>1, <2>2, <2>3, <2>4 DEF Sole
  <2>5. CASE ~proc[c].hook
    BY <1>1, <2>2, <2>3, <2>5 DEF Sole
  <2> QED BY <2>4, <2>5
<1> QED BY <1>9, <1>10, <1>11 DEF IInv

-----------------------------------------------------------------------------
(* The specification *)

LEMMA InitHolds == Init => IInv
<1> SUFFICES ASSUME Init PROVE IInv
  OBVIOUS
<1>1. 0 \in 0 .. MaxChildren /\ 0 \in 0 .. MaxFaults
  BY TransportAssumption
<1>2. NotLaunched \in Proc /\ ~NotLaunched.alive
  BY DEF NotLaunched, Proc
<1>3. Idle \in CallState /\ Idle.pc = "idle" /\ Idle.stage = "main" /\ Idle.try = 0
  BY DEF Idle, CallState, Stages
<1>4. proc \in [Children -> Proc] /\ \A c \in Children : ~proc[c].alive
  BY <1>2 DEF Init
<1>5. call \in [Calls -> CallState] /\ \A k \in Calls : call[k] = Idle
  BY <1>3 DEF Init
<1>6. TypeOK
  BY <1>1, <1>4, <1>5 DEF Init, TypeOK, Children
<1>7. OneChild
  BY <1>4 DEF Init, OneChild, Sole
<1>8. Recorded
  BY <1>3, <1>5 DEF Recorded, Calls
<1>9. ASSUME NEW k \in Posts PROVE PostedOnceAt(k, call[k], inbox, pipe, made[k])
  <2>1. call[k] = Idle /\ made[k] = 0 /\ pipe = {} /\ inbox = [c \in Children |-> {}]
    BY <1>5 DEF Init, Calls
  <2> QED BY <1>3, <2>1 DEF PostedOnceAt, Waiting, Answering, Again, ToldStale
<1> QED BY <1>6, <1>7, <1>8, <1>9 DEF IInv, PostsOnce

LEMMA StutterKeeps == ASSUME IInv, UNCHANGED vars PROVE IInv'
<1>1. UNCHANGED <<child, starting, buffer, self, launched, call, proc, inbox, pipe, disposed, faults,
                  made, posted, unrecorded, selfRead, slow>>
  BY DEF vars, client, teams
<1>2. TypeOK'
  BY <1>1 DEF IInv, TypeOK
<1>3. OneChild'
  BY <1>1 DEF IInv, OneChild
<1>4. PostsOnce' /\ Recorded'
  BY <1>1, CallsStay
<1> QED BY <1>2, <1>3, <1>4 DEF IInv

LEMMA NextKeeps == IInv /\ [Next]_vars => IInv'
<1> SUFFICES ASSUME IInv, [Next]_vars PROVE IInv'
  OBVIOUS
<1>1. ASSUME NEW k \in Calls, Begin(k) PROVE IInv'
  BY <1>1, BeginKeeps
<1>2. ASSUME NEW k \in Calls, Continues(k) PROVE IInv'
  BY <1>2, StartedKeeps, NotStartedKeeps, AnsweredKeeps DEF Continues
<1>3. ASSUME NEW k \in Calls, TimesOut(k) PROVE IInv'
  BY <1>3, TimesOutKeeps
<1>4. ASSUME NEW c \in Children, LaunchTimesOut(c) PROVE IInv'
  BY <1>4, LaunchTimesOutKeeps
<1>5. ASSUME NEW c \in Children, Subprocess(c) PROVE IInv'
  BY <1>5, InitialisesKeeps, LapsesKeeps, ExitsKeeps, ServeKeeps DEF Subprocess
<1>6. ASSUME NEW answer \in pipe, Consume(answer) PROVE IInv'
  BY <1>6, ConsumeKeeps
<1>7. CASE Dispose
  BY <1>7, DisposeKeeps
<1>8. CASE UNCHANGED vars
  BY <1>8, StutterKeeps
<1> QED BY <1>1, <1>2, <1>3, <1>4, <1>5, <1>6, <1>7, <1>8 DEF Next

(* The inductive invariant holds of every reachable state of the transport, *)
(* whatever the subprocesses and Teams do and however answers are delayed. *)
THEOREM TransportInvariant == Spec => []IInv
BY InitHolds, NextKeeps, PTL DEF Spec

(* Every variable keeps its type; in particular a request is only ever     *)
(* written to a subprocess there was.  About every step of a call and of a *)
(* subprocess.                                                             *)
THEOREM TransportTypeOK == Spec => []TypeOK
BY TransportInvariant, PTL DEF IInv

(* A message is posted at most once.  About callTool(): the second attempt *)
(* is made only when the first was refused, and a call that is rejected,   *)
(* timed out or failed is not made again.                                  *)
THEOREM MessagesPostedOnce == Spec => []PostedOnce
<1>1. IInv => PostedOnce
  <2> SUFFICES ASSUME IInv, NEW k \in Posts PROVE made[k] <= 1
    BY DEF PostedOnce
  <2>1. made[k] \in {0, 1}
    BY DEF IInv, PostsOnce, PostedOnceAt
  <2> QED BY <2>1
<1> QED BY <1>1, TransportInvariant, PTL

(* At most one subprocess is neither gone nor told to go, as long as no    *)
(* launch timed out and the transport is not disposed.  About              *)
(* ensureStarted(), restart() and the exit listener.                       *)
THEOREM AtMostOneSubprocess == Spec => []OneSubprocess
<1>1. IInv => OneSubprocess
  BY DEF IInv, OneChild, Sole, OneSubprocess, Up
<1> QED BY <1>1, TransportInvariant, PTL

(* A fetch returns no message of a post that has ended well, unless        *)
(* record() came to nothing for it: the answer held no id that could be    *)
(* read, or the file could not be written.  About record() after a post    *)
(* and has() in fetchReplies().                                            *)
THEOREM PostsAreFiltered == Spec => OwnMessagesFiltered
<1>1. ASSUME IInv, IInv', [Next]_vars, NEW k \in selfRead' \ selfRead
      PROVE  call[k].pc # "ok" \/ k \in unrecorded
  <2>1. k \in Posts
    BY <1>1 DEF IInv, TypeOK
  <2>2. PICK j \in Calls : Answered(j) /\ Succeeds(j)
    BY <1>1 DEF Next, vars, Begin, Continues, Started, NotStarted, TimesOut, Answered, Restarts, GivesUp,
                LaunchTimesOut, Subprocess, Initialises, Lapses, Exits, Serve, Consume, Dispose, teams
  <2>3. k \notin posted
    BY <1>1, <2>2 DEF Succeeds, NotOurs, teams
  <2> QED BY <1>1, <2>1, <2>3 DEF IInv, Recorded
<1>2. IInv /\ IInv' /\ [Next]_vars =>
        [\A k \in selfRead' \ selfRead : call[k].pc # "ok" \/ k \in unrecorded]_vars
  BY <1>1
<1> QED BY <1>2, TransportInvariant, PTL DEF Spec, OwnMessagesFiltered

-----------------------------------------------------------------------------
(* The port *)

(* What a call in state s was told is true of the n messages it has made   *)
(* and of the posts whose message is there: a post that is told that its   *)
(* request was carried out has made one, and a fetch saw what is there.    *)
There(m) == {j \in Posts : m[j] > 0}

ToldTruth(k, s, m) ==
    /\ s.saw \subseteq There(m)
    /\ k \in Posts => /\ s.saw = {}
                      /\ s.pc = "answered" /\ s.stage = "main" /\ s.answer = "ok" => m[k] = 1
                      /\ s.pc = "ok" => m[k] = 1

TellsTruth(a, m) ==
    /\ a.saw \subseteq There(m)
    /\ a.id[1] \in Posts => a.saw = {} /\ (a.id[2] = "main" /\ a.answer = "ok" => m[a.id[1]] = 1)

Truth ==
    /\ \A k \in Calls : ToldTruth(k, call[k], made)
    /\ \A a \in pipe : TellsTruth(a, made)

PInv == IInv /\ Truth

(* Messages stay, so what was told stays true. *)
LEMMA TruthStays ==
    ASSUME NEW m, NEW n, \A j \in Posts : n[j] = m[j] \/ (m[j] = 0 /\ n[j] = 1)
    PROVE  /\ \A k, s : ToldTruth(k, s, m) => ToldTruth(k, s, n)
           /\ \A a : TellsTruth(a, m) => TellsTruth(a, n)
<1>1. There(m) \subseteq There(n)
  BY DEF There
<1>2. \A k \in Posts : m[k] = 1 => n[k] = 1
  OBVIOUS
<1> QED BY <1>1, <1>2 DEF ToldTruth, TellsTruth

(* Steps in which a call is told nothing new. *)
ToldLess(a, b) ==
    /\ b.saw = a.saw \/ b.saw = {}
    /\ b.pc = "ok" => a.pc = "ok"
    /\ b.pc = "answered" /\ b.stage = "main" /\ b.answer = "ok" =>
          a.pc = "answered" /\ a.stage = "main" /\ a.answer = "ok"

LEMMA TruthKept ==
    ASSUME Truth, made' = made, pipe' \subseteq pipe, \A k \in Calls : ToldLess(call[k], call'[k])
    PROVE  Truth'
<1>1. ASSUME NEW k \in Calls PROVE ToldTruth(k, call'[k], made)
  <2>1. ToldTruth(k, call[k], made) /\ ToldLess(call[k], call'[k])
    BY DEF Truth
  <2> QED BY <2>1 DEF ToldTruth, ToldLess
<1>2. \A a \in pipe' : TellsTruth(a, made)
  BY DEF Truth
<1> QED BY <1>1, <1>2 DEF Truth

(* A step of the call k, after which it waits for a launch. *)
LEMMA InvokesTold ==
    ASSUME IInv, NEW k \in Calls, NEW s \in Asked, Invokes(k, s)
    PROVE  /\ \A j \in Calls : ToldLess(call[j], call'[j])
           /\ \A j \in Calls : j # k => call'[j] = call[j]
           /\ call'[k].pc = "starting"
<1>1. call \in [Calls -> CallState] /\ s \in CallState
  BY AskedIs DEF IInv, TypeOK
<1>2. s.saw = {}
  BY DEF Asked, Idle
<1>3. PICK c : call' = [call EXCEPT ![k] = [s EXCEPT !.pc = "starting", !.on = c]]
  BY DEF Invokes, Joins, Launches
<1> DEFINE e == [s EXCEPT !.pc = "starting", !.on = c]
<1>4. e.pc = "starting" /\ e.saw = {}
  BY <1>1, <1>2 DEF CallState
<1>5. call' = [call EXCEPT ![k] = e]
  BY <1>3
<1> HIDE DEF e
<1>6. call'[k] = e /\ \A j \in Calls : j # k => call'[j] = call[j]
  BY <1>1, <1>5
<1>7. ToldLess(call[k], e) /\ \A j \in Calls : ToldLess(call[j], call[j])
  BY <1>4 DEF ToldLess
<1> QED BY <1>4, <1>6, <1>7

LEMMA FailsTold ==
    ASSUME IInv, NEW k \in Calls, Fails(k)
    PROVE  /\ \A j \in Calls : ToldLess(call[j], call'[j])
           /\ \A j \in Calls : j # k => call'[j] = call[j]
           /\ call'[k].pc \in {"starting", "failed"}
<1>1. CASE call' = Ended(k, "failed")
  <2> DEFINE e == [call[k] EXCEPT !.pc = "failed", !.answer = "none", !.saw = {}]
  <2>1. call \in [Calls -> CallState] /\ call[k] \in CallState
    BY DEF IInv, TypeOK
  <2>2. e.pc = "failed" /\ e.saw = {}
    BY <2>1 DEF CallState
  <2>3. call' = [call EXCEPT ![k] = e]
    BY <1>1 DEF Ended
  <2> HIDE DEF e
  <2>4. call'[k] = e /\ \A j \in Calls : j # k => call'[j] = call[j]
    BY <2>1, <2>3
  <2>5. ToldLess(call[k], e) /\ \A j \in Calls : ToldLess(call[j], call[j])
    BY <2>2 DEF ToldLess
  <2> QED BY <2>2, <2>4, <2>5
<1>2. CASE Invokes(k, Idle)
  BY <1>2, InvokesTold DEF Asked
<1> QED BY <1>1, <1>2 DEF Fails

LEMMA RejectedTold ==
    ASSUME IInv
    PROVE  \A j \in Calls : /\ ToldLess(call[j], Rejected[j])
                            /\ Rejected[j].pc = call[j].pc \/ (call[j].pc = "sent" /\ Rejected[j].pc = "answered")
<1> SUFFICES ASSUME NEW j \in Calls
             PROVE  /\ ToldLess(call[j], Rejected[j])
                    /\ Rejected[j].pc = call[j].pc \/ (call[j].pc = "sent" /\ Rejected[j].pc = "answered")
  OBVIOUS
<1> DEFINE e == [call[j] EXCEPT !.pc = "answered", !.answer = "error"]
<1>1. call[j] \in CallState
  BY DEF IInv, TypeOK
<1>2. e.pc = "answered" /\ e.answer = "error" /\ e.saw = call[j].saw
  BY <1>1 DEF CallState
<1>3. Rejected[j] = (IF call[j].pc = "sent" THEN e ELSE call[j])
  BY DEF Rejected
<1> HIDE DEF e
<1> QED BY <1>2, <1>3 DEF ToldLess

(* A post is served once, so its answer is true. *)
LEMMA ServeTold ==
    ASSUME PInv, NEW c \in Children, NEW id \in inbox[c], Serve(c, id)
    PROVE  /\ Truth'
           /\ \A j \in Posts : made'[j] = made[j] \/ (made[j] = 0 /\ made'[j] = 1)
           /\ made' = made \/ \E j \in Posts : made[j] = 0 /\ made' = [made EXCEPT ![j] = 1]
                                             /\ call[j].pc # "idle"
<1>1. /\ made \in [Posts -> Nat] /\ inbox \in [Children -> SUBSET Requested] /\ id \in Requested
      /\ call' = call
  BY DEF PInv, IInv, TypeOK, Serve, client
<1>2. id = <<id[1], id[2], id[3]>> /\ id[1] \in Calls /\ id[2] \in Stages /\ id[3] \in {0, 1}
  BY <1>1 DEF Requested
<1>3. ASSUME id[1] \in Posts, id[2] = "main" PROVE made[id[1]] = 0 /\ call[id[1]].pc # "idle"
  <2>1. PICK t \in {0, 1} : id = Req(id[1], t)
    BY <1>2, <1>3 DEF Req
  <2>2. Waiting(Req(id[1], t), inbox)
    BY <2>1 DEF Waiting
  <2> QED BY <1>3, <2>2 DEF PInv, IInv, PostsOnce, PostedOnceAt, Unsent
<1> DEFINE saw == IF id[1] \in Fetches THEN There(made) ELSE {}
<1>4. CASE /\ Puts(c, id, "ok", saw)
           /\ made' = IF id[1] \in Posts /\ id[2] = "main" THEN [made EXCEPT ![id[1]] = @ + 1] ELSE made
  <2> DEFINE r == [id |-> id, answer |-> "ok", saw |-> saw]
  <2>1. \A j \in Posts : made'[j] = IF j = id[1] /\ id[2] = "main" THEN 1 ELSE made[j]
    BY <1>1, <1>3, <1>4
  <2>2. \A j \in Posts : made'[j] = made[j] \/ (made[j] = 0 /\ made'[j] = 1)
    BY <1>3, <2>1
  <2>3. made' = made \/ \E j \in Posts : made[j] = 0 /\ made' = [made EXCEPT ![j] = 1] /\ call[j].pc # "idle"
    <3>1. CASE id[1] \in Posts /\ id[2] = "main"
      <4>1. made[id[1]] = 0 /\ call[id[1]].pc # "idle"
        BY <1>3, <3>1
      <4>2. made' = [made EXCEPT ![id[1]] = 1]
        BY <1>4, <3>1, <4>1
      <4> QED BY <3>1, <4>1, <4>2
    <3> QED BY <1>4, <3>1
  <2>4. pipe' = pipe \union {r} /\ r.id = id /\ r.saw = saw /\ r.answer = "ok"
    BY <1>4 DEF Puts
  <2>5. There(made) \subseteq There(made')
    BY <2>2 DEF There
  <2>6. TellsTruth(r, made')
    <3>1. saw \subseteq There(made) /\ (id[1] \in Posts => saw = {})
      BY TransportAssumption
    <3>2. id[1] \in Posts /\ id[2] = "main" => made'[id[1]] = 1
      BY <2>1
    <3> HIDE DEF r, saw
    <3> QED BY <2>4, <2>5, <3>1, <3>2 DEF TellsTruth
  <2> HIDE DEF r
  <2>7. Truth'
    BY <1>1, <2>2, <2>4, <2>6, TruthStays DEF PInv, Truth
  <2> QED BY <2>2, <2>3, <2>7
<1>5. CASE made' = made /\ \E answer \in {"stale", "error"} : Puts(c, id, answer, {})
  <2>1. PICK answer \in {"stale", "error"} : Puts(c, id, answer, {})
    BY <1>5
  <2> DEFINE r == [id |-> id, answer |-> answer, saw |-> {}]
  <2>2. pipe' = pipe \union {r} /\ r.saw = {} /\ r.answer # "ok"
    BY <2>1 DEF Puts
  <2> HIDE DEF r
  <2>3. TellsTruth(r, made)
    BY <2>2 DEF TellsTruth
  <2> QED BY <1>1, <1>5, <2>2, <2>3 DEF PInv, Truth
<1> QED BY <1>4, <1>5 DEF Serve, There

(* What the port shows of a call. *)
Shown(s) == IF s.pc \in {"idle", "ok", "failed"} THEN s.pc ELSE "calling"

LEMMA SameStates ==
    ASSUME \A j \in Calls : Shown(call'[j]) = Shown(call[j]) PROVE CallStates' = CallStates
BY DEF CallStates, Shown

LEMMA OneState ==
    ASSUME NEW k \in Calls, \A j \in Calls : j # k => call'[j] = call[j]
    PROVE  /\ CallStates[k] = Shown(call[k])
           /\ CallStates' = [CallStates EXCEPT ![k] = Shown(call'[k])]
<1>1. \A j \in Calls : CallStates[j] = Shown(call[j]) /\ CallStates'[j] = Shown(call'[j])
  BY DEF CallStates, Shown
<1>2. CallStates = [j \in Calls |-> CallStates[j]] /\ CallStates' = [j \in Calls |-> CallStates'[j]]
  BY DEF CallStates
<1>3. \A j \in Calls : j # k => CallStates'[j] = CallStates[j]
  BY <1>1
<1> QED BY <1>1, <1>2, <1>3

PortStep == [Port!Next]_(Port!vars)

LEMMA PortStutters ==
    ASSUME \A j \in Calls : Shown(call'[j]) = Shown(call[j]), made' = made,
           unrecorded' = unrecorded, selfRead' = selfRead
    PROVE  PortStep
BY SameStates DEF PortStep, Port!vars

LEMMA PortCalls == Port!Calls = Calls
BY DEF Port!Calls, Calls

LEMMA BeginPort == ASSUME PInv, NEW k \in Calls, Begin(k) PROVE Truth' /\ PortStep
<1>1. PICK s \in Asked : Invokes(k, s)
  BY DEF Begin, Asked
<1>2. call[k].pc = "idle" /\ UNCHANGED <<pipe, made, unrecorded, selfRead>>
  BY DEF Begin, teams
<1>3. /\ \A j \in Calls : ToldLess(call[j], call'[j])
      /\ \A j \in Calls : j # k => call'[j] = call[j]
      /\ call'[k].pc = "starting"
  BY <1>1, InvokesTold DEF PInv
<1>4. Truth'
  BY <1>2, <1>3, TruthKept DEF PInv
<1>5. CallStates[k] = "idle" /\ CallStates' = [CallStates EXCEPT ![k] = "calling"]
  BY <1>2, <1>3, OneState DEF Shown
<1>6. Port!Begin(k)
  BY <1>2, <1>5 DEF Port!Begin, Port!Turns
<1> QED BY <1>4, <1>6, PortCalls DEF PortStep, Port!Next

LEMMA FailsPort ==
    ASSUME PInv, NEW k \in Calls, call[k].pc \in {"starting", "sent", "answered"}, Fails(k),
           UNCHANGED <<pipe, teams>>
    PROVE  Truth' /\ PortStep
<1>1. /\ \A j \in Calls : ToldLess(call[j], call'[j])
      /\ \A j \in Calls : j # k => call'[j] = call[j]
      /\ call'[k].pc \in {"starting", "failed"}
  BY FailsTold DEF PInv
<1>2. UNCHANGED <<made, unrecorded, selfRead>>
  BY DEF teams
<1>3. Truth'
  BY <1>1, <1>2, TruthKept DEF PInv
<1>4. CASE call'[k].pc = "starting"
  <2>1. \A j \in Calls : Shown(call'[j]) = Shown(call[j])
    BY <1>1, <1>4 DEF Shown
  <2> QED BY <1>2, <1>3, <2>1, PortStutters
<1>5. CASE call'[k].pc = "failed"
  <2>1. CallStates[k] = "calling" /\ CallStates' = [CallStates EXCEPT ![k] = "failed"]
    BY <1>1, <1>5, OneState DEF Shown
  <2>2. Port!Fail(k)
    BY <1>2, <2>1 DEF Port!Fail, Port!Turns
  <2> QED BY <1>3, <2>2, PortCalls DEF PortStep, Port!Next
<1> QED BY <1>1, <1>4, <1>5

LEMMA StartedPort == ASSUME PInv, NEW k \in Calls, Started(k) PROVE Truth' /\ PortStep
<1> DEFINE e == [call[k] EXCEPT !.pc = "sent", !.on = child]
<1>1. call \in [Calls -> CallState] /\ call[k] \in CallState
  BY DEF PInv, IInv, TypeOK
<1>2. call[k].pc = "starting" /\ call' = [call EXCEPT ![k] = e] /\ UNCHANGED <<pipe, made, unrecorded, selfRead>>
  BY DEF Started, teams
<1>3. e.pc = "sent" /\ e.saw = call[k].saw
  BY <1>1 DEF CallState
<1> HIDE DEF e
<1>4. call'[k] = e /\ \A j \in Calls : j # k => call'[j] = call[j]
  BY <1>1, <1>2
<1>5. \A j \in Calls : ToldLess(call[j], call'[j])
  BY <1>3, <1>4 DEF ToldLess
<1>6. \A j \in Calls : Shown(call'[j]) = Shown(call[j])
  BY <1>2, <1>3, <1>4 DEF Shown
<1> QED BY <1>2, <1>5, <1>6, TruthKept, PortStutters DEF PInv

(* An answer is taken by the call that asked for it, for what it asked. *)
LEMMA ConsumePort == ASSUME PInv, NEW answer \in pipe, Consume(answer) PROVE Truth' /\ PortStep
<1> DEFINE k == answer.id[1]
           told == answer.answer
           saw == answer.saw
           e == [call[k] EXCEPT !.pc = "answered", !.answer = told, !.saw = saw]
<1>1. /\ pipe' \subseteq pipe /\ UNCHANGED <<made, unrecorded, selfRead>>
      /\ call' = call \/ (call[k].pc = "sent" /\ answer.id = Id(k) /\ call' = [call EXCEPT ![k] = e])
  BY DEF Consume, Awaited, teams
<1>2. /\ call \in [Calls -> CallState] /\ answer \in Answers /\ k \in Calls /\ call[k] \in CallState
  BY DEF PInv, IInv, TypeOK, Answers, Requested
<1>3. TellsTruth(answer, made)
  BY DEF PInv, Truth
<1>4. CASE call' = call
  <2>1. \A j \in Calls : ToldLess(call[j], call'[j]) /\ Shown(call'[j]) = Shown(call[j])
    BY <1>4 DEF ToldLess
  <2> QED BY <1>1, <2>1, TruthKept, PortStutters DEF PInv
<1>5. CASE call[k].pc = "sent" /\ answer.id = Id(k) /\ call' = [call EXCEPT ![k] = e]
  <2>1. e.pc = "answered" /\ e.answer = told /\ e.saw = saw /\ e.stage = call[k].stage
    BY <1>2 DEF CallState
  <2>2. answer.id[2] = call[k].stage
    BY <1>5 DEF Id
  <2>3. ToldTruth(k, e, made)
    <3>1. saw \subseteq There(made)
      BY <1>3 DEF TellsTruth
    <3>2. ASSUME k \in Posts PROVE saw = {} /\ (e.stage = "main" /\ told = "ok" => made[k] = 1)
      BY <1>3, <2>1, <2>2, <3>2 DEF TellsTruth
    <3> HIDE DEF e, told, saw
    <3> QED BY <2>1, <3>1, <3>2 DEF ToldTruth
  <2> HIDE DEF e
  <2>4. call'[k] = e /\ \A j \in Calls : j # k => call'[j] = call[j]
    BY <1>2, <1>5
  <2>5. Truth'
    BY <1>1, <2>3, <2>4 DEF PInv, Truth
  <2>6. \A j \in Calls : Shown(call'[j]) = Shown(call[j])
    BY <1>5, <2>1, <2>4 DEF Shown
  <2> QED BY <1>1, <2>5, <2>6, PortStutters
<1> QED BY <1>1, <1>4, <1>5

LEMMA SucceedsPort ==
    ASSUME PInv, NEW k \in Calls, call[k].pc = "answered", Succeeds(k), pipe' = pipe
    PROVE  Truth' /\ PortStep
<1>1. call \in [Calls -> CallState] /\ call[k] \in CallState
  BY DEF PInv, IInv, TypeOK
<1>2. ASSUME Invokes(k, Idle), UNCHANGED teams PROVE Truth' /\ PortStep
  <2>1. /\ \A j \in Calls : ToldLess(call[j], call'[j])
        /\ \A j \in Calls : j # k => call'[j] = call[j]
        /\ call'[k].pc = "starting"
    BY <1>2, InvokesTold DEF PInv, Asked
  <2>2. UNCHANGED <<made, unrecorded, selfRead>>
    BY <1>2 DEF teams
  <2>3. Truth'
    BY <2>1, <2>2, TruthKept DEF PInv
  <2>4. \A j \in Calls : Shown(call'[j]) = Shown(call[j])
    BY <2>1 DEF Shown
  <2> QED BY <2>2, <2>3, <2>4, PortStutters
<1>3. ASSUME call[k].answer = "ok", call[k].stage = "main", call' = Ended(k, "ok"), made' = made,
             IF k \in Posts THEN Records(k) ELSE UNCHANGED <<posted, unrecorded>>,
             selfRead' = selfRead \union NotOurs(call[k].saw)
      PROVE  Truth' /\ PortStep
  <2> DEFINE e == [call[k] EXCEPT !.pc = "ok", !.answer = "none", !.saw = {}]
  <2>1. e.pc = "ok" /\ e.saw = {}
    BY <1>1 DEF CallState
  <2>2. call' = [call EXCEPT ![k] = e]
    BY <1>3 DEF Ended
  <2> HIDE DEF e
  <2>3. call'[k] = e /\ \A j \in Calls : j # k => call'[j] = call[j]
    BY <1>1, <2>2
  <2>4. ToldTruth(k, call[k], made)
    BY DEF PInv, Truth
  <2>5. ToldTruth(k, e, made)
    BY <1>3, <2>1, <2>4 DEF ToldTruth
  <2>6. Truth'
    BY <1>3, <2>3, <2>5 DEF PInv, Truth
  <2>7. CallStates[k] = "calling" /\ CallStates' = [CallStates EXCEPT ![k] = "ok"]
    BY <2>1, <2>3, OneState DEF Shown
  <2>8. CASE k \in Posts
    <3>1. made[k] = 1 /\ call[k].saw = {}
      BY <1>3, <2>4, <2>8 DEF ToldTruth
    <3>2. selfRead' = selfRead
      BY <1>3, <3>1 DEF NotOurs
    <3>3. unrecorded' \in {unrecorded, unrecorded \union {k}}
      BY <1>3, <2>8 DEF Records
    <3>4. Port!PostSucceeds(k)
      BY <1>3, <2>7, <3>1, <3>2, <3>3 DEF Port!PostSucceeds, Port!Turns
    <3> QED BY <2>6, <2>8, <3>4 DEF PortStep, Port!Next
  <2>9. CASE k \in Fetches
    <3> DEFINE seen == call[k].saw \ posted
               open == {j \in Posts : made[j] = 1 /\ (CallStates[j] # "ok" \/ j \in unrecorded)}
    <3>1. selfRead' = selfRead \union seen
      BY <1>3 DEF NotOurs
    <3>2. ASSUME NEW j \in seen PROVE j \in open
      <4>1. j \in Posts /\ made[j] > 0 /\ j \notin posted
        BY <2>4 DEF ToldTruth, There
      <4>2. made[j] = 1
        BY <4>1 DEF PInv, IInv, PostsOnce, PostedOnceAt
      <4>3. call[j].pc # "ok" \/ j \in unrecorded
        BY <4>1 DEF PInv, IInv, Recorded
      <4>4. CallStates[j] # "ok" \/ j \in unrecorded
        BY <4>1, <4>3 DEF CallStates, Calls
      <4> QED BY <4>1, <4>2, <4>4
    <3>3. seen \in SUBSET open
      BY <3>2
    <3> HIDE DEF seen
    <3>4. UNCHANGED unrecorded
      BY <1>3, <2>9, TransportAssumption
    <3>5. Port!FetchSucceeds(k)
      BY <1>3, <2>7, <3>1, <3>3, <3>4 DEF Port!FetchSucceeds, Port!Turns
    <3> QED BY <2>6, <2>9, <3>5 DEF PortStep, Port!Next
  <2> QED BY <2>8, <2>9 DEF Calls
<1> QED BY <1>2, <1>3 DEF Succeeds

LEMMA RestartsPort ==
    ASSUME PInv, NEW k \in Calls, call[k].pc = "answered", Restarts(k), pipe' = pipe
    PROVE  Truth' /\ PortStep
<1>1. call[k] \in CallState /\ Rejected = [j \in Calls |-> Rejected[j]]
  BY DEF PInv, IInv, TypeOK, Rejected
<1>2. PICK c : call' = [Rejected EXCEPT ![k] = [[call[k] EXCEPT !.try = 1, !.answer = "none"]
                                                   EXCEPT !.pc = "starting", !.on = c]]
  BY DEF Restarts, Launches
<1> DEFINE e == [[call[k] EXCEPT !.try = 1, !.answer = "none"] EXCEPT !.pc = "starting", !.on = c]
<1>3. e.pc = "starting" /\ e.saw = call[k].saw
  BY <1>1 DEF CallState
<1>4. call' = [Rejected EXCEPT ![k] = e]
  BY <1>2
<1> HIDE DEF e
<1>5. call'[k] = e /\ \A j \in Calls : j # k => call'[j] = Rejected[j]
  BY <1>1, <1>4
<1>6. \A j \in Calls : /\ ToldLess(call[j], Rejected[j])
                       /\ Rejected[j].pc = call[j].pc \/ (call[j].pc = "sent" /\ Rejected[j].pc = "answered")
  BY RejectedTold DEF PInv
<1>7. \A j \in Calls : ToldLess(call[j], call'[j])
  BY <1>3, <1>5, <1>6 DEF ToldLess
<1>8. \A j \in Calls : Shown(call'[j]) = Shown(call[j])
  BY <1>3, <1>5, <1>6 DEF Shown
<1>9. UNCHANGED <<made, unrecorded, selfRead>>
  BY DEF Restarts, teams
<1> QED BY <1>7, <1>8, <1>9, TruthKept, PortStutters DEF PInv

LEMMA AnsweredPort == ASSUME PInv, NEW k \in Calls, Answered(k) PROVE Truth' /\ PortStep
<1>1. call[k].pc = "answered" /\ pipe' = pipe
  BY DEF Answered
<1>2. CASE Succeeds(k)
  BY <1>1, <1>2, SucceedsPort
<1>3. CASE Restarts(k)
  BY <1>1, <1>3, RestartsPort
<1>4. CASE GivesUp(k)
  BY <1>1, <1>4, FailsPort DEF GivesUp
<1> QED BY <1>2, <1>3, <1>4 DEF Answered

LEMMA DisposePort == ASSUME PInv, Dispose PROVE Truth' /\ PortStep
<1>1. call' = Rejected /\ UNCHANGED <<pipe, made, unrecorded, selfRead>>
  BY DEF Dispose, teams
<1>2. \A j \in Calls : ToldLess(call[j], call'[j]) /\ Shown(call'[j]) = Shown(call[j])
  BY <1>1, RejectedTold DEF PInv, Shown
<1> QED BY <1>1, <1>2, TruthKept, PortStutters DEF PInv

LEMMA ServePort ==
    ASSUME PInv, NEW c \in Children, NEW id \in inbox[c], Serve(c, id) PROVE Truth' /\ PortStep
<1>1. /\ Truth'
      /\ made' = made \/ \E j \in Posts : made[j] = 0 /\ made' = [made EXCEPT ![j] = 1]
                                        /\ call[j].pc # "idle"
  BY ServeTold
<1>2. UNCHANGED <<call, unrecorded, selfRead>>
  BY DEF Serve, client
<1>3. CallStates' = CallStates
  BY <1>2 DEF CallStates
<1>4. CASE made' = made
  BY <1>1, <1>2, <1>4, PortStutters
<1>5. ASSUME NEW j \in Posts, made[j] = 0, made' = [made EXCEPT ![j] = 1], call[j].pc # "idle"
      PROVE  PortStep
  <2>1. CallStates[j] # "idle"
    BY <1>5 DEF CallStates, Calls
  <2>2. Port!Make(j)
    BY <1>2, <1>3, <1>5, <2>1 DEF Port!Make
  <2> QED BY <2>2 DEF PortStep, Port!Next
<1> QED BY <1>1, <1>4, <1>5

(* Steps the port does not see. *)
LEMMA UnseenPort == ASSUME PInv, UNCHANGED <<call, pipe, made, unrecorded, selfRead>> PROVE Truth' /\ PortStep
<1>1. \A j \in Calls : ToldLess(call[j], call'[j]) /\ Shown(call'[j]) = Shown(call[j])
  BY DEF ToldLess
<1> QED BY <1>1, TruthKept, PortStutters DEF PInv

LEMMA PortInit == Init => Truth /\ Port!Init
<1> SUFFICES ASSUME Init PROVE Truth /\ Port!Init
  OBVIOUS
<1>1. \A k \in Calls : call[k] = Idle
  BY DEF Init
<1>2. Idle.pc = "idle" /\ Idle.saw = {}
  BY DEF Idle
<1>3. Truth
  BY <1>1, <1>2 DEF Init, Truth, ToldTruth
<1>4. CallStates = [k \in Calls |-> "idle"]
  BY <1>1, <1>2 DEF CallStates
<1> QED BY <1>3, <1>4, PortCalls DEF Init, Port!Init

LEMMA NextPort == PInv /\ [Next]_vars => Truth' /\ PortStep
<1> SUFFICES ASSUME PInv, [Next]_vars PROVE Truth' /\ PortStep
  OBVIOUS
<1>1. ASSUME NEW k \in Calls, Begin(k) PROVE Truth' /\ PortStep
  BY <1>1, BeginPort
<1>2. ASSUME NEW k \in Calls, NotStarted(k) \/ TimesOut(k) PROVE Truth' /\ PortStep
  BY <1>2, FailsPort DEF NotStarted, TimesOut
<1>3. ASSUME NEW k \in Calls, Started(k) \/ Answered(k) PROVE Truth' /\ PortStep
  BY <1>3, StartedPort, AnsweredPort
<1>4. ASSUME NEW c \in Children, LaunchTimesOut(c) \/ Initialises(c) \/ Lapses(c) \/ Exits(c)
      PROVE  Truth' /\ PortStep
  <2>1. UNCHANGED <<call, pipe, made, unrecorded, selfRead>>
    BY <1>4 DEF LaunchTimesOut, Initialises, Lapses, Exits, client, teams
  <2> QED BY <2>1, UnseenPort
<1>5. ASSUME NEW c \in Children, NEW id \in inbox[c], Serve(c, id) PROVE Truth' /\ PortStep
  BY <1>5, ServePort
<1>6. ASSUME NEW answer \in pipe, Consume(answer) PROVE Truth' /\ PortStep
  BY <1>6, ConsumePort
<1>7. CASE Dispose
  BY <1>7, DisposePort
<1>8. CASE UNCHANGED vars
  BY <1>8, UnseenPort DEF vars, client, teams
<1> QED BY <1>1, <1>2, <1>3, <1>4, <1>5, <1>6, <1>7, <1>8 DEF Next, Continues, Subprocess

(* The transport keeps the promise of TeamsPort: a post that ends well has *)
(* made its message once, a message of a failed one may come late but not  *)
(* twice, and a fetch returns no message of a post that has ended well,    *)
(* unless record() came to nothing for it.  About callTool(), request(),   *)
(* consume(), record() and fetchReplies().                                 *)
THEOREM TransportImplementsPort == Spec => ImplementsPort
<1>1. Init => PInv /\ Port!Init
  BY InitHolds, PortInit DEF PInv
<1>2. PInv /\ [Next]_vars => PInv'
  BY NextKeeps, NextPort DEF PInv
<1>3. PInv /\ [Next]_vars => [Port!Next]_(Port!vars)
  BY NextPort DEF PortStep
<1> QED BY <1>1, <1>2, <1>3, PTL DEF Spec, ImplementsPort, Port!Spec

=============================================================================
