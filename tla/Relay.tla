-------------------------------- MODULE Relay --------------------------------
(***************************************************************************)
(* The relay of agent replies (hosts/vscode/agentReplyRelay.ts) and the    *)
(* session file it shares with the MCP server (stdio.ts, sessionMerge.ts). *)
(*                                                                         *)
(* The server of an agent reads its threads, keeps what it read in memory  *)
(* and in the file, and may exit at any time.  The relay runs in the       *)
(* editor: it reads the same threads into the same file and hands the      *)
(* pending replies to a chat.  Every read and every write of the relay is  *)
(* awaited, so the server may write between them.                          *)
(***************************************************************************)
EXTENDS Naturals, Sequences, FiniteSets

CONSTANTS
    Sessions,          \* agent sessions, one thread each
    MaxReplies,        \* bound: replies posted over all threads
    MaxEvents,         \* bound: boots, notifications, turns, quiet periods, claims of others
    ResolveAttempts,   \* RESOLVE_ATTEMPTS
    Outcomes,          \* what a delivery may end with
    Faults,            \* faults of the environment, a subset of FaultKinds
    None               \* no record of a session

OutcomeKinds == {"delivered", "abandoned", "unroutable", "failed"}
FaultKinds == {"fetch", "notice", "write", "throw", "reload", "elsewhere"}

ASSUME RelayAssumption ==
    /\ MaxReplies \in Nat /\ MaxEvents \in Nat
    /\ ResolveAttempts \in Nat
    /\ Outcomes \subseteq OutcomeKinds
    /\ Faults \subseteq FaultKinds

VARIABLES
    log,        \* the thread each reply was posted in; a reply is a position
    disk,       \* sessions.json
    serving,    \* an MCP server process is running
    mem,        \* its Bridge's sessions
    at,         \* where the relay's drain() stands
    copy,       \* the sessions the running loop of drain() goes through
    edit,       \* what the pending writeFile() is to write
    left,       \* sessions the running loop has not reached
    found,      \* collect(): replies fetched, by session
    told,       \* announceExpiry(): sessions whose notice was posted
    cur,        \* the session being dispatched
    chat,       \* its chat is known (addressed.chatSessionResource)
    rest,       \* its held replies not reached yet
    reply,      \* the reply in deliver(), 0 when there is none
    taken,      \* drain(): replies to clear, by session
    tries,      \* attempts: passes spent on a reply's chat
    parked,     \* parked
    react,      \* what a running reactivate() is to write, or None
    claims,     \* delivered.json
    foreign,    \* sessions of a harness that no window reaches
    elsewhere,  \* replies another path has claimed and is delivering
    inChat,     \* history: replies put into a chat
    settled,    \* history: replies an agent was given, that were given up on purpose,
                \*          whose delivery a reload cut off or whose claim was given back
    events,     \* how many of the bounded events have happened
    rewound     \* history: sessions whose watermark a write to the file moved back

relayVars == <<at, copy, edit, left, found, told, cur, chat, rest, reply, taken, tries, parked,
               react>>
history == <<inChat, settled>>
vars == <<log, disk, serving, mem, relayVars, claims, foreign, elsewhere, history, rewound, events>>

Replies == 1 .. MaxReplies
Posted(s) == {r \in DOMAIN log : log[r] = s}

Record == [seen : SUBSET Replies, pending : SUBSET Replies, delivered : SUBSET Replies,
           mark : 0 .. MaxReplies, expired : BOOLEAN, noticed : BOOLEAN,
           quiet : BOOLEAN, chat : BOOLEAN]
File == [Sessions -> Record \union {None}]

ASSUME NoneAssumption == None \notin Record

Empty == [s \in Sessions |-> None]
NoReplies == [s \in Sessions |-> {}]

NewRecord == [seen |-> {}, pending |-> {}, delivered |-> {}, mark |-> 0, expired |-> FALSE,
              noticed |-> FALSE, quiet |-> FALSE, chat |-> FALSE]

Known(f) == {s \in Sessions : f[s] # None}
Open(f) == {s \in Known(f) : ~f[s].expired}

Newest(m, rs) == IF \E r \in rs : r > m THEN CHOOSE r \in rs : \A q \in rs : q <= r ELSE m

(***************************************************************************)
(* sessionMerge.ts: what the server writes is its own records with the     *)
(* replies taken out that either side knows to be delivered, and the       *)
(* records of others as they are.                                          *)
(***************************************************************************)
Reconciled(mine, other) ==
    LET known == other.delivered \union mine.delivered
    IN  [mine EXCEPT !.delivered = known, !.pending = @ \ known]

\* Mutant: the server writes its own records as they are.
OwnRecordsOnly(mine, onDisk) ==
    [s \in Sessions |-> IF mine[s] = None THEN onDisk[s] ELSE mine[s]]

mergeForWrite(mine, onDisk) ==
    [s \in Sessions |->
        IF mine[s] = None THEN onDisk[s]
        ELSE IF onDisk[s] = None THEN mine[s]
        ELSE Reconciled(mine[s], onDisk[s])]

Init ==
    /\ log = <<>> /\ serving \in BOOLEAN
    /\ disk \in {Empty, [s \in Sessions |-> NewRecord]}
    /\ mem = IF serving THEN disk ELSE Empty
    /\ at = "idle" /\ copy = Empty /\ edit = Empty /\ left = {} /\ found = NoReplies /\ told = {}
    /\ cur = None /\ chat = FALSE /\ rest = {} /\ reply = 0 /\ taken = NoReplies
    /\ tries = [r \in Replies |-> 0] /\ parked = {} /\ react = None
    /\ claims = {} /\ foreign \in SUBSET Sessions /\ elsewhere = {}
    /\ inChat = {} /\ settled = {} /\ rewound = {} /\ events = 0

Event ==
    /\ events < MaxEvents
    /\ events' = events + 1

\* A fault of the environment is one of the bounded events.
Fault(kind) == kind \in Faults /\ Event

\* History: what a write of f to the file takes back.
Rewinds(f) ==
    rewound' = rewound \union
        {s \in Known(disk) : IF f[s] = None THEN TRUE ELSE f[s].mark < disk[s].mark}

(***************************************************************************)
(* The MCP server.  Each step ends with persist(), which reads the file    *)
(* and writes the merge in one go.                                         *)
(***************************************************************************)
Persist(m) ==
    /\ mem' = m
    /\ disk' = mergeForWrite(m, disk)
    /\ Rewinds(disk')

Boot ==
    /\ Event
    /\ ~serving
    /\ serving' = TRUE
    /\ mem' = disk
    /\ UNCHANGED <<log, disk, relayVars, claims, foreign, elsewhere, history, rewound>>

Exit ==
    /\ serving
    /\ serving' = FALSE
    /\ mem' = Empty
    /\ UNCHANGED <<log, disk, relayVars, claims, foreign, elsewhere, history, rewound, events>>

\* teams_notify opens the thread of a session, or revives the session.
Notify(s) ==
    /\ Event
    /\ serving
    /\ mem[s] = None => disk[s] = None /\ Posted(s) = {}
    /\ Persist([mem EXCEPT ![s] = IF mem[s] = None THEN NewRecord
                                  ELSE [mem[s] EXCEPT !.expired = FALSE, !.quiet = FALSE]])
    /\ UNCHANGED <<log, serving, relayVars, claims, foreign, elsewhere, history>>

\* One pass of poll(): every open thread that can be read is read, then idle
\* sessions expire.
Polled(rec, new, expires) ==
    [rec EXCEPT !.seen = @ \union new, !.pending = @ \union new, !.mark = Newest(@, new),
                !.quiet = @ /\ new = {}, !.expired = expires]

ServerPoll ==
    /\ serving
    /\ \E read \in SUBSET Open(mem) :
        LET New(s) == IF s \in read
                      THEN {r \in Posted(s) : r > mem[s].mark} \ mem[s].seen ELSE {}
        IN  /\ IF read = Open(mem) THEN UNCHANGED events ELSE Fault("fetch")
            /\ Persist([s \in Sessions |->
                   IF mem[s] = None THEN None
                   ELSE Polled(mem[s], New(s), mem[s].expired \/ (mem[s].quiet /\ New(s) = {}))])
    /\ UNCHANGED <<log, serving, relayVars, claims, foreign, elsewhere, history>>

\* teams_check_replies takes what is pending in memory.
Take(s) ==
    /\ serving
    /\ mem[s] # None
    /\ mem[s].pending # {}
    /\ Persist([mem EXCEPT ![s].pending = {}])
    /\ settled' = settled \union mem[s].pending
    /\ UNCHANGED <<log, serving, relayVars, claims, foreign, elsewhere, inChat, events>>

(***************************************************************************)
(* The user, time, other windows and the editor's own chats.               *)
(***************************************************************************)
Post(s) ==
    /\ Len(log) < MaxReplies
    /\ disk[s] # None
    /\ log' = Append(log, s)
    /\ UNCHANGED <<disk, serving, mem, relayVars, claims, foreign, elsewhere, history, rewound, events>>

Quieten(f, s) == IF f[s] = None THEN f ELSE [f EXCEPT ![s].quiet = TRUE]

\* The idle window of a session passes: its last activity is now too old,
\* whichever copy of the record one looks at.
GoesQuiet(s) ==
    /\ Event
    /\ disk[s] # None
    /\ ~disk[s].quiet
    /\ disk' = Quieten(disk, s)
    /\ mem' = Quieten(mem, s)
    /\ copy' = Quieten(copy, s)
    /\ edit' = Quieten(edit, s)
    /\ react' = IF react = None THEN None ELSE Quieten(react, s)
    /\ UNCHANGED <<log, serving, at, left, found, told, cur, chat, rest, reply, taken, tries, parked,
                   claims, foreign, elsewhere, history, rewound>>

\* Another path, the window's own Bridge or another window, claims a reply;
\* it puts it into a chat or gives the claim back.
OtherClaims(r) ==
    /\ Fault("elsewhere")
    /\ r \in DOMAIN log
    /\ r \notin claims
    /\ claims' = claims \union {r}
    /\ elsewhere' = elsewhere \union {r}
    /\ UNCHANGED <<log, disk, serving, mem, relayVars, foreign, history, rewound>>

OtherDelivers(r) ==
    /\ r \in elsewhere
    /\ elsewhere' = elsewhere \ {r}
    /\ inChat' = inChat \union {r}
    /\ UNCHANGED <<log, disk, serving, mem, relayVars, claims, foreign, settled, rewound, events>>

OtherGivesBack(r) ==
    /\ r \in elsewhere
    /\ elsewhere' = elsewhere \ {r}
    /\ claims' = claims \ {r}
    /\ settled' = settled \union {r}
    /\ UNCHANGED <<log, disk, serving, mem, relayVars, foreign, inChat, rewound, events>>

(***************************************************************************)
(* reactivate(): a turn in the chat revives its session in the file.  It   *)
(* runs beside drain().                                                    *)
(***************************************************************************)
Revived(rec) ==
    IF rec.expired
    THEN [rec EXCEPT !.expired = FALSE, !.noticed = FALSE, !.mark = Len(log),
                     !.pending = {}, !.quiet = FALSE]
    ELSE [rec EXCEPT !.quiet = FALSE]

\* What a record promises to deliver: its queue, and what it has not read.
Owed(rec, s) == rec.pending \union ({r \in Posted(s) : r > rec.mark} \ (rec.seen \union rec.delivered))

ReactivateReads(s) ==
    /\ Event
    /\ react = None
    /\ disk[s] # None
    /\ react' = [disk EXCEPT ![s] = Revived(@)]
    /\ settled' = settled \union (IF disk[s].expired THEN Owed(disk[s], s) ELSE {})
    /\ UNCHANGED <<log, disk, serving, mem, at, copy, edit, left, found, told, cur, chat, rest, reply,
                   taken, tries, parked, claims, foreign, elsewhere, inChat, rewound>>

ReactivateWrites ==
    /\ react # None
    /\ disk' = react
    /\ Rewinds(react)
    /\ react' = None
    /\ UNCHANGED <<log, serving, mem, at, copy, edit, left, found, told, cur, chat, rest, reply,
                   taken, tries, parked, claims, foreign, elsewhere, history, events>>

(***************************************************************************)
(* drain(): the pass of the relay.  A step ends where the code awaits.     *)
(***************************************************************************)
Rests(vs) == UNCHANGED <<log, serving, mem, react, claims, foreign, elsewhere, history>> /\ UNCHANGED vs
Unmoved(vs) == Rests(vs) /\ UNCHANGED <<events, rewound>>

\* expireIdleSessions(), up to its write.
ExpireReads ==
    /\ at = "idle"
    /\ LET quiet == {s \in Open(disk) : disk[s].quiet}
       IN  /\ at' = IF quiet = {} THEN "announce" ELSE "expiring"
           /\ edit' = IF quiet = {} THEN Empty ELSE [s \in Sessions |-> IF s \in quiet
                          THEN [disk[s] EXCEPT !.expired = TRUE, !.pending = {}] ELSE disk[s]]
           /\ settled' = settled \union UNION {disk[s].pending : s \in quiet}
    /\ taken' = NoReplies
    /\ UNCHANGED <<log, disk, serving, mem, copy, left, found, told, cur, chat, rest, reply, tries,
                   parked, react, claims, foreign, elsewhere, inChat, rewound, events>>

\* What a pass goes on with when a write has landed.
AfterWrite(where) ==
    CASE where = "expiring" -> "announce"
      [] where = "stamping" -> "collect"
      [] where = "collecting" -> "dispatch"
      [] where = "identifying" -> "held"
      [] where = "naming" -> "handing"
      [] where = "clearing" -> "idle"

Writing == {"expiring", "stamping", "collecting", "identifying", "naming", "clearing"}

\* write(): the whole file as it was read and edited.
WriteLands ==
    /\ at \in Writing
    /\ disk' = edit
    /\ Rewinds(edit)
    /\ edit' = Empty
    /\ at' = AfterWrite(at)
    /\ UNCHANGED events
    /\ Rests(<<copy, left, found, told, cur, chat, rest, reply, taken, tries, parked>>)

\* A write that fails ends the pass: drain() catches it.
WriteFails ==
    /\ Fault("write")
    /\ at \in Writing
    /\ at' = "idle"
    /\ reply' = 0
    /\ UNCHANGED rewound
    /\ Rests(<<disk, copy, edit, left, found, told, cur, chat, rest, taken, tries, parked>>)

\* announceExpiry(): the notices owed, one after the other.
OwedReads ==
    /\ at = "announce"
    /\ left' = {s \in Known(disk) : disk[s].expired /\ ~disk[s].noticed}
    /\ told' = {}
    /\ at' = IF left' = {} THEN "collect" ELSE "announcing"
    /\ Unmoved(<<disk, copy, edit, found, cur, chat, rest, reply, taken, tries, parked>>)

NoticeEnds(s) ==
    /\ at = "announcing"
    /\ s \in left
    /\ left' = left \ {s}
    /\ \/ told' = told \union {s} /\ UNCHANGED events
       \/ Fault("notice") /\ told' = told
    /\ at' = IF left' # {} THEN at ELSE IF told' = {} THEN "collect" ELSE "stamp"
    /\ UNCHANGED rewound
    /\ Rests(<<disk, copy, edit, found, cur, chat, rest, reply, taken, tries, parked>>)

Stampable(s) == disk[s] # None /\ disk[s].expired /\ ~disk[s].noticed

StampReads ==
    /\ at = "stamp"
    /\ LET stamped == {s \in told : Stampable(s)}
       IN  /\ at' = IF stamped = {} THEN "collect" ELSE "stamping"
           /\ edit' = IF stamped = {} THEN Empty ELSE [s \in Sessions |-> IF s \in stamped
                          THEN [disk[s] EXCEPT !.noticed = TRUE] ELSE disk[s]]
    /\ told' = {}
    /\ Unmoved(<<disk, copy, left, found, cur, chat, rest, reply, taken, tries, parked>>)

\* collect(): every open thread is read from the watermark the file had.
CollectReads ==
    /\ at = "collect"
    /\ copy' = disk
    /\ left' = Open(disk)
    /\ found' = NoReplies
    /\ at' = "fetching"
    /\ Unmoved(<<disk, edit, told, cur, chat, rest, reply, taken, tries, parked>>)

FetchEnds(s) ==
    /\ at = "fetching"
    /\ s \in left
    /\ left' = left \ {s}
    /\ \/ found' = [found EXCEPT ![s] = {r \in Posted(s) : r > copy[s].mark}] /\ UNCHANGED events
       \/ Fault("fetch") /\ UNCHANGED found
    /\ UNCHANGED rewound
    /\ Rests(<<disk, at, copy, edit, told, cur, chat, rest, reply, taken, tries, parked>>)

alreadyKnown(rec) == rec.seen \union rec.delivered

Collected(rec, rs) ==
    [rec EXCEPT !.seen = @ \union rs, !.mark = Newest(@, rs), !.pending = @ \union rs]

\* The file is read again, and the replies it does not know are added.
CollectRereads ==
    /\ at = "fetching"
    /\ left = {}
    /\ LET New(s) == found[s] \ alreadyKnown(disk[s])
           with == {s \in Known(disk) : New(s) # {}}
       IN  /\ at' = IF with = {} THEN "dispatch" ELSE "collecting"
           /\ edit' = IF with = {} THEN Empty
                      ELSE [s \in Sessions |-> IF s \in with THEN Collected(disk[s], New(s)) ELSE disk[s]]
    /\ copy' = Empty /\ found' = NoReplies
    /\ Unmoved(<<disk, left, told, cur, chat, rest, reply, taken, tries, parked>>)

\* The sessions with something to deliver; a pass with none ends here.
DispatchReads ==
    /\ at = "dispatch"
    /\ copy' = disk
    /\ left' = {s \in Open(disk) : disk[s].pending # {}}
    /\ at' = IF left' = {} THEN "idle" ELSE "session"
    /\ Unmoved(<<disk, edit, found, told, cur, chat, rest, reply, taken, tries, parked>>)

\* addressed(): the chat on record, or one found now and written to the file
\* (Identify).  A session of a foreign harness has none to find.
NextSession(s) ==
    /\ at = "session"
    /\ s \in left
    /\ left' = left \ {s}
    /\ cur' = s
    /\ rest' = copy[s].pending
    /\ \/ /\ copy[s].chat
          /\ chat' = TRUE /\ at' = "held" /\ parked' = parked \ copy[s].pending
       \/ /\ ~copy[s].chat /\ s \notin foreign
          /\ chat' = TRUE /\ at' = "identify" /\ parked' = parked \ copy[s].pending
       \/ /\ ~copy[s].chat
          /\ chat' = FALSE /\ at' = "held" /\ UNCHANGED parked
    /\ Unmoved(<<disk, copy, edit, found, told, reply, taken, tries>>)

\* persistChatResource(): never over a chat that is already on record.
Identify(from, writing, after) ==
    /\ at = from
    /\ IF disk[cur] = None \/ disk[cur].chat
       THEN at' = after /\ UNCHANGED edit
       ELSE at' = writing /\ edit' = [disk EXCEPT ![cur].chat = TRUE]
    /\ Unmoved(<<disk, copy, left, found, told, cur, chat, rest, reply, taken, tries, parked>>)

Identifies == Identify("identify", "identifying", "held") \/ Identify("name", "naming", "handing")

\* Mutants: a reply waits for its chat without end; the queue is emptied
\* instead of the consumed replies.
WaitsForEver(r) == ~chat
EmptyQueue(rec, ids) == [rec EXCEPT !.delivered = @ \union ids, !.pending = {}]

AlreadyDone(r) == r \in copy[cur].delivered \/ r \in claims

\* A held reply that was delivered before, here or elsewhere, is consumed.
Consume(r) ==
    /\ at = "held"
    /\ r \in rest
    /\ AlreadyDone(r)
    /\ rest' = rest \ {r}
    /\ taken' = [taken EXCEPT ![cur] = @ \union {r}]
    /\ parked' = IF r \in copy[cur].delivered THEN parked ELSE parked \ {r}
    /\ tries' = IF r \in copy[cur].delivered THEN tries ELSE [tries EXCEPT ![r] = 0]
    /\ Unmoved(<<disk, at, copy, edit, left, found, told, cur, chat, reply>>)

Waits(r) == ~chat /\ tries[r] < ResolveAttempts

\* One that is parked, or whose chat may still be found, is left for later.
Skip(r) ==
    /\ at = "held"
    /\ r \in rest
    /\ ~AlreadyDone(r)
    /\ r \in parked \/ Waits(r)
    /\ rest' = rest \ {r}
    /\ tries' = IF r \in parked THEN tries ELSE [tries EXCEPT ![r] = @ + 1]
    /\ Unmoved(<<disk, at, copy, edit, left, found, told, cur, chat, reply, taken, parked>>)

\* deliver() looks for the chat once more, then hands the reply over.
Deliver(r) ==
    /\ at = "held"
    /\ r \in rest
    /\ ~AlreadyDone(r)
    /\ r \notin parked /\ ~Waits(r)
    /\ rest' = rest \ {r}
    /\ reply' = r
    /\ \/ at' = "handing"
       \/ ~chat /\ cur \notin foreign /\ at' = "name"
    /\ Unmoved(<<disk, copy, edit, left, found, told, cur, chat, taken, tries, parked>>)

\* handOver(): the claim is taken before the adapter is awaited.
Claims ==
    /\ at = "handing"
    /\ reply \notin claims
    /\ claims' = claims \union {reply}
    /\ at' = "delivering"
    /\ UNCHANGED <<log, disk, serving, mem, copy, edit, left, found, told, cur, chat, rest, reply, taken,
                   tries, parked, react, foreign, elsewhere, history, rewound, events>>

worthRetrying(outcome) == outcome = "failed" \/ (outcome = "unroutable" /\ cur \notin foreign)

\* Kept in the queue, and parked when no chat can be found for it.
Retry(outcome) ==
    /\ worthRetrying(outcome)
    /\ parked' = IF outcome = "unroutable" /\ ~chat THEN parked \union {reply} ELSE parked
    /\ UNCHANGED <<taken, tries>>

Settled(outcome) ==
    /\ ~worthRetrying(outcome)
    /\ taken' = [taken EXCEPT ![cur] = @ \union {reply}]
    /\ parked' = parked \ {reply}
    /\ tries' = [tries EXCEPT ![reply] = 0]

\* Mutant: the claim is given back whatever the outcome.
AlwaysReleases(outcome) ==
    /\ at = "delivering"
    /\ at' = "held"
    /\ reply' = 0
    /\ Retry(outcome) \/ Settled(outcome)
    /\ claims' = claims \ {reply}
    /\ inChat' = IF outcome = "delivered" THEN inChat \union {reply} ELSE inChat
    /\ settled' = IF outcome = "delivered" \/ worthRetrying(outcome) THEN settled
                  ELSE settled \union {reply}
    /\ UNCHANGED <<log, disk, serving, mem, copy, edit, left, found, told, cur, chat, rest, react,
                   foreign, elsewhere, rewound, events>>

DeliveryEnds(outcome) ==
    /\ at = "delivering"
    /\ at' = "held"
    /\ reply' = 0
    /\ Retry(outcome) \/ Settled(outcome)
    /\ claims' = IF outcome = "delivered" THEN claims ELSE claims \ {reply}
    /\ inChat' = IF outcome = "delivered" THEN inChat \union {reply} ELSE inChat
    /\ settled' = IF outcome = "delivered" \/ worthRetrying(outcome) THEN settled
                  ELSE settled \union {reply}
    /\ UNCHANGED <<log, disk, serving, mem, copy, edit, left, found, told, cur, chat, rest, react,
                   foreign, elsewhere, rewound, events>>

\* handOver() reports a reply as delivered when another path holds the claim.
ClaimedElsewhere ==
    /\ at = "handing"
    /\ reply \in claims
    /\ at' = "held"
    /\ reply' = 0
    /\ Settled("delivered")
    /\ Unmoved(<<disk, copy, edit, left, found, told, cur, chat, rest>>)

\* An error of handOver() (no bridge can be built) ends the pass.
Throws ==
    /\ Fault("throw")
    /\ at = "handing"
    /\ at' = "idle"
    /\ reply' = 0
    /\ UNCHANGED rewound
    /\ Rests(<<disk, copy, edit, left, found, told, cur, chat, rest, taken, tries, parked>>)

SessionDone ==
    /\ at = "held"
    /\ rest = {}
    /\ at' = IF left = {} THEN "clear" ELSE "session"
    /\ cur' = None /\ chat' = FALSE
    /\ copy' = IF left = {} THEN Empty ELSE copy
    /\ Unmoved(<<disk, edit, left, found, told, rest, reply, taken, tries, parked>>)

\* clear(): consumed replies leave the queue and are recorded as delivered.
Cleared(rec, ids) == [rec EXCEPT !.delivered = @ \union ids, !.pending = @ \ ids]

ClearReads ==
    /\ at = "clear"
    /\ LET with == {s \in Known(disk) : taken[s] # {}}
       IN  /\ at' = IF with = {} THEN "idle" ELSE "clearing"
           /\ edit' = IF with = {} THEN Empty
                      ELSE [s \in Sessions |-> IF s \in with THEN Cleared(disk[s], taken[s]) ELSE disk[s]]
    /\ taken' = NoReplies
    /\ Unmoved(<<disk, copy, left, found, told, cur, chat, rest, reply, tries, parked>>)

\* The window is reloaded: the relay starts over, a delivery is cut off.
Reload ==
    /\ Fault("reload")
    /\ at # "idle" \/ parked # {}
    /\ at' = "idle" /\ copy' = Empty /\ edit' = Empty /\ left' = {} /\ found' = NoReplies /\ told' = {}
    /\ cur' = None /\ chat' = FALSE /\ rest' = {} /\ reply' = 0 /\ taken' = NoReplies
    /\ tries' = [r \in Replies |-> 0] /\ parked' = {} /\ react' = None
    /\ settled' = IF at = "delivering" THEN settled \union {reply} ELSE settled
    /\ UNCHANGED <<log, disk, serving, mem, claims, foreign, elsewhere, inChat, rewound>>

(***************************************************************************)
(* The specification                                                       *)
(***************************************************************************)
Server == Boot \/ Exit \/ ServerPoll \/ \E s \in Sessions : Notify(s) \/ Take(s)

Environment ==
    \/ \E s \in Sessions : Post(s) \/ GoesQuiet(s)
    \/ \E r \in Replies : OtherClaims(r) \/ OtherDelivers(r) \/ OtherGivesBack(r)
    \/ Reload

Reactivates == ReactivateWrites \/ \E s \in Sessions : ReactivateReads(s)

Writes == WriteLands \/ WriteFails

Announces == OwedReads \/ StampReads \/ \E s \in Sessions : NoticeEnds(s)

Collects == CollectReads \/ CollectRereads \/ \E s \in Sessions : FetchEnds(s)

HandsOver == Claims \/ ClaimedElsewhere \/ Throws \/ \E o \in Outcomes : DeliveryEnds(o)

Dispatches ==
    \/ DispatchReads \/ Identifies \/ SessionDone \/ HandsOver
    \/ \E s \in Sessions : NextSession(s)
    \/ \E r \in Replies : Consume(r) \/ Skip(r) \/ Deliver(r)

Drain == ExpireReads \/ Writes \/ Announces \/ Collects \/ Dispatches \/ ClearReads

Next == Server \/ Environment \/ Reactivates \/ Drain

Spec == Init /\ [][Next]_vars

(***************************************************************************)
(* Properties                                                              *)
(***************************************************************************)
\* Every variable keeps its type: above all, no reply is tried more often than
\* RESOLVE_ATTEMPTS allows, and a record of replies names only replies.  About
\* every step of the relay and of the server.
TypeOK ==
    /\ log \in Seq(Sessions) /\ Len(log) <= MaxReplies
    /\ disk \in File /\ mem \in File /\ copy \in File /\ edit \in File /\ react \in File \union {None}
    /\ serving \in BOOLEAN /\ chat \in BOOLEAN
    /\ at \in Writing \union {"idle", "announce", "announcing", "stamp", "collect", "fetching",
          "dispatch", "session", "identify", "name", "held", "handing", "delivering", "clear"}
    /\ left \subseteq Sessions /\ told \subseteq Sessions /\ foreign \subseteq Sessions
    /\ rewound \subseteq Sessions /\ events \in 0 .. MaxEvents
    /\ cur \in Sessions \union {None}
    /\ found \in [Sessions -> SUBSET Replies] /\ taken \in [Sessions -> SUBSET Replies]
    /\ rest \subseteq Replies /\ reply \in Replies \union {0}
    /\ tries \in [Replies -> 0 .. ResolveAttempts] /\ parked \subseteq Replies
    /\ claims \subseteq Replies /\ elsewhere \subseteq Replies
    /\ inChat \subseteq Replies /\ settled \subseteq Replies

\* The copies of a session's record that may still be written to the file.
Versions(s) == {f[s] : f \in {disk, mem, edit} \union (IF react = None THEN {} ELSE {react})} \ {None}

Delivering == IF at = "delivering" THEN {reply} ELSE {}

Accounted == inChat \union settled \union elsewhere \union Delivering

\* Unless a write to the file moved the session's watermark back, every copy
\* of its record, in whichever process, still owes each posted reply (it is in
\* the queue, or a fetch from that watermark returns it) or somebody has dealt
\* with it.  So it does not matter which stale copy is written last.  About
\* collect(), clear() and expireIdleSessions() of the relay, and poll() and
\* takeUndelivered() in the server.
ReadIsKept ==
    \A s \in Sessions \ rewound : \A rec \in Versions(s) :
        Posted(s) \subseteq Owed(rec, s) \union Accounted

\* A reply is not handed to a chat again once it is in one, nor while another
\* path hands it over, whatever the file says of it: the file may have lost
\* the record of the delivery to a stale write.  About the claim in handOver()
\* and the relay's look at it.
OneDelivery ==
    /\ Delivering \intersect (inChat \union elsewhere) = {}
    /\ elsewhere \intersect inChat = {}

\* The server, which may still hold a delivered reply in its memory, neither
\* drops the record of the delivery from the file nor queues the reply again.
\* About mergeForWrite().
DeliveredStays ==
    [][UNCHANGED relayVars =>
          \A s \in Known(disk) :
              /\ disk[s].delivered \subseteq disk'[s].delivered
              /\ disk[s].delivered \intersect disk'[s].pending \subseteq disk[s].pending]_vars

\* A reply that was posted is owed by the file or by the running server, or
\* somebody has dealt with it.  Violated: the relay and the server write over
\* each other, and collect() then moves the watermark past the reply.
NothingLost ==
    \A s \in Known(disk) :
        Posted(s) \subseteq Accounted \union Owed(disk[s], s)
                            \union (IF mem[s] = None THEN {} ELSE Owed(mem[s], s))

\* A reply queued for an agent that no window reaches stays queued until the
\* agent takes it, as the footer of its thread says: it is not recorded as
\* delivered unless it is in a chat or on its way to one.  Violated: the relay
\* gives such a reply up, and clear() consumes it.  About drain() and clear().
QueuedForAgent ==
    [][\A s \in foreign \intersect Known(disk) :
          disk'[s] # None =>
             disk[s].pending \intersect (disk'[s].delivered \ disk[s].delivered)
                 \subseteq inChat \union claims]_vars

=============================================================================
