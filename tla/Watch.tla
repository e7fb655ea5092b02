-------------------------------- MODULE Watch --------------------------------
(***************************************************************************)
(* The two watchers that announce chats on Teams: one is told of writes to *)
(* transcripts (hosts/vscode/chatSessionWatcher.ts), the other polls the   *)
(* editor's index of agent-host chats (agentHostWatcher.ts).  Both go      *)
(* through announceSession() (sessionStarter.ts).  The turns of an         *)
(* announced transcript are reported to Bridge.postTurnSummary().          *)
(*                                                                         *)
(* A run is one activation of handle(), scanTurns() or poll(); it stands   *)
(* where that function awaits, and other runs go on meanwhile.             *)
(***************************************************************************)
EXTENDS Integers, Sequences, FiniteSets

CONSTANTS
    Transcripts,   \* chats with a transcript
    Hosts,         \* agent-host chats, known from the index only
    Runs,          \* bound: activations at a time
    MaxTurns,      \* bound: turns of all chats together
    MaxPosted,     \* MAX_POSTED_TURNS
    MaxEvents,     \* bound: faults, archivings, configuration changes and resets
    Faults         \* a subset of {"read", "post", "seed"}

Chats == Transcripts \union Hosts
Turns == 1 .. MaxTurns
None == -1

ASSUME WatchAssumption ==
    /\ Transcripts \intersect Hosts = {} /\ IsFiniteSet(Chats)
    /\ MaxTurns \in Nat \ {0} /\ MaxPosted \in Nat \ {0} /\ MaxEvents \in Nat
    /\ Faults \subseteq {"read", "post", "seed"}

VARIABLES
    turns,      \* turns of each chat; one with none has had no prompt yet
    whole,      \* how many of them are finished
    terse,      \* transcripts whose opening prompt is too short
    listed,     \* hosts the index lists (not archived)
    enabled,    \* config.announceSessions
    due,        \* transcripts with a change event on its way
    seen,       \* seen, of both watchers
    pending,    \* transcripts whose announcement timer is set
    scans,      \* transcripts whose turn-scan timer is set
    latest,     \* latestTurnKey and lastSeenRequest; None before a baseline
    runs,       \* the activations
    announced,  \* announced, of sessionStarter.ts
    threads,    \* transcripts whose session in the bridge has a thread
    notified,   \* lastNotifyAt: the turns that had begun by then
    ids,        \* postedTurnIds
    existing,   \* history: chats that were there when the watchers started
    announcements,  \* history: announcements that reached Teams
    summaries,  \* history: how often each turn was posted
    touches,    \* history: touches of a chat
    base,       \* history: its first baseline
    crossed,    \* history: chats being handled when the announced set was cleared
    overlapped, \* history: transcripts that two scans read at a time
    events      \* how many of the bounded events have happened

editor == <<turns, whole, terse, listed>>
watcher == <<seen, pending, scans, latest>>
bridge == <<threads, notified, ids>>
history == <<existing, announcements, summaries, touches, base, crossed, overlapped>>
vars == <<editor, enabled, due, watcher, runs, announced, bridge, history, events>>

Idle == [kind |-> "idle"]
Is(r, kind) == runs[r].kind = kind

\* An activation that awaits a transcript: what it reads is what the file holds now.
Reading(kind, c) ==
    [kind |-> kind, at |-> "reading", chat |-> c, turns |-> turns[c], whole |-> whole[c],
     next |-> 1, old |-> FALSE]

\* What the index lists now; a session that never ran a request is not announced.
Polling(index) ==
    [kind |-> "poll", at |-> "polling", chat |-> None, index |-> index, todo |-> DOMAIN index,
     old |-> FALSE]

Index == [h \in listed |-> turns[h]]

\* What was read is not looked at again.
Settled(run) == [run EXCEPT !.turns = 0]

Event == events < MaxEvents /\ events' = events + 1
Fault(kind) == kind \in Faults /\ Event

\* seedExisting() and start(): what exists is seen, with its newest turn for a
\* baseline.
Seeds(S) ==
    /\ seen' = S /\ existing' = S
    /\ latest' = [c \in Chats |-> IF c \in S THEN turns[c] ELSE None]
    /\ base' = latest'

\* The turns there are; their number is bounded.
Asked == {ct \in Chats \X Turns : ct[2] <= turns[ct[1]]}

\* What exists for the watchers: every file of the folder, which may hold no turn
\* yet, and what the index lists; or nothing, when they cannot be read.
Seedings ==
    {S \in SUBSET Chats :
        \/ /\ {c \in Transcripts : turns[c] > 0} \subseteq S
           /\ S \intersect Hosts = listed
        \/ "seed" \in Faults /\ S = {}}

Init ==
    /\ turns \in [Chats -> 0 .. 1] /\ whole = turns /\ Cardinality(Asked) <= MaxTurns
    /\ terse \in SUBSET Transcripts /\ listed = Hosts
    /\ enabled = TRUE /\ due = {}
    /\ seen \in Seedings
    /\ existing = seen
    /\ latest = [c \in Chats |-> IF c \in seen THEN turns[c] ELSE None] /\ base = latest
    /\ pending = {} /\ scans = {}
    /\ runs = [r \in Runs |-> Idle]
    /\ announced = {}
    /\ threads \in SUBSET {c \in seen \intersect Transcripts : turns[c] > 0}
    /\ notified = [c \in Transcripts |-> 0]
    /\ ids = [c \in Transcripts |-> <<>>]
    /\ announcements = [c \in Chats |-> 0] /\ summaries = [c \in Transcripts |-> [t \in Turns |-> 0]]
    /\ touches = [c \in Chats |-> 0] /\ crossed = {} /\ overlapped = {}
    /\ events = 0

(***************************************************************************)
(* The user and the editor                                                 *)
(***************************************************************************)
Written(c) == due' = IF c \in Transcripts THEN due \union {c} ELSE due

Ask(c) ==
    /\ Cardinality(Asked) < MaxTurns
    /\ whole[c] = turns[c]
    /\ turns' = [turns EXCEPT ![c] = @ + 1]
    /\ Written(c)
    /\ UNCHANGED <<whole, terse, listed, enabled, watcher, runs, announced, bridge, history, events>>

Answered(c) ==
    /\ whole[c] < turns[c]
    /\ whole' = [whole EXCEPT ![c] = turns[c]]
    /\ Written(c)
    /\ UNCHANGED <<turns, terse, listed, enabled, watcher, runs, announced, bridge, history, events>>

\* The editor rewrites a transcript for reasons of its own.
Rewritten(c) ==
    /\ turns[c] > 0
    /\ due' = due \union {c}
    /\ UNCHANGED <<editor, enabled, watcher, runs, announced, bridge, history, events>>

\* The user archives a chat, or takes it out of the archive.
Archives(h) ==
    /\ Event
    /\ listed' = IF h \in listed THEN listed \ {h} ELSE listed \union {h}
    /\ UNCHANGED <<turns, whole, terse, enabled, due, watcher, runs, announced, bridge, history>>

\* The model calls the notify tool during a turn of an announced chat.
ToolNotifies(c) ==
    /\ c \in threads
    /\ whole[c] < turns[c]
    /\ notified' = [notified EXCEPT ![c] = turns[c]]
    /\ UNCHANGED <<editor, enabled, due, watcher, runs, announced, threads, ids, history, events>>

(***************************************************************************)
(* announceSession()                                                       *)
(***************************************************************************)
Announcing(c) == \E r \in Runs : ~Is(r, "idle") /\ runs[r].at = "announcing" /\ runs[r].chat = c

\* The chat enters the set before the bridge is awaited; one that is in it is
\* not announced again.  done is the run after a call that has nothing to do.
AnnounceSession(r, run, c, done) ==
    \/ /\ c \in announced
       /\ runs' = [runs EXCEPT ![r] = done]
       /\ UNCHANGED announced
    \/ /\ c \notin announced
       /\ announced' = announced \union {c}
       /\ runs' = [runs EXCEPT ![r] = [run EXCEPT !.at = "announcing", !.chat = c]]

AfterAnnouncing(run) ==
    IF run.kind = "poll" /\ run.todo # {} THEN [run EXCEPT !.at = "polling", !.chat = None] ELSE Idle

Announced(r) ==
    /\ ~Is(r, "idle") /\ runs[r].at = "announcing"
    /\ LET c == runs[r].chat
       IN  /\ announcements' = [announcements EXCEPT ![c] = IF @ = 2 THEN 2 ELSE @ + 1]
           /\ \/ c \in Transcripts
                 /\ threads' = threads \union {c}
                 /\ notified' = [notified EXCEPT ![c] = turns[c]]
              \* A bridge that was replaced meanwhile may have stored it too late.
              \/ c \in Hosts \union crossed /\ UNCHANGED <<threads, notified>>
    /\ runs' = [runs EXCEPT ![r] = AfterAnnouncing(@)]
    /\ UNCHANGED <<editor, enabled, due, watcher, announced, ids, existing, summaries, touches, base,
                   crossed, overlapped, events>>

\* Mutant: a chat whose announcement failed stays seen.
StaysSeen(r) ==
    /\ Fault("post")
    /\ ~Is(r, "idle") /\ runs[r].at = "announcing"
    /\ announced' = announced \ {runs[r].chat}
    /\ runs' = [runs EXCEPT ![r] = AfterAnnouncing(@)]
    /\ UNCHANGED <<editor, enabled, due, watcher, bridge, history>>

\* A failure takes the chat out of both sets, so that it is tried again; the
\* set of a disposed watcher is nobody's any more.
AnnounceFails(r) ==
    /\ Fault("post")
    /\ ~Is(r, "idle") /\ runs[r].at = "announcing"
    /\ announced' = announced \ {runs[r].chat}
    /\ seen' = IF runs[r].old THEN seen ELSE seen \ {runs[r].chat}
    /\ runs' = [runs EXCEPT ![r] = AfterAnnouncing(@)]
    /\ UNCHANGED <<editor, enabled, due, pending, scans, latest, bridge, history>>

(***************************************************************************)
(* Transcripts: schedule(), handle()                                       *)
(***************************************************************************)
Schedule(c) ==
    /\ c \in due
    /\ due' = due \ {c}
    /\ pending' = IF enabled /\ c \notin seen THEN pending \union {c} ELSE pending
    /\ scans' = IF enabled /\ c \in seen THEN scans \union {c} ELSE scans
    /\ UNCHANGED <<editor, enabled, seen, latest, runs, announced, bridge, history, events>>

Handle(r, c) ==
    /\ c \in pending
    /\ Is(r, "idle")
    /\ pending' = pending \ {c}
    /\ runs' = IF c \in seen THEN runs ELSE [runs EXCEPT ![r] = Reading("handle", c)]
    /\ UNCHANGED <<editor, enabled, due, seen, scans, latest, announced, bridge, history, events>>

HandleReads(r) == Is(r, "handle") /\ runs[r].at = "reading"

\* A transcript that cannot be read, or has no prompt, waits for its next write.
Unreadable(r) ==
    /\ HandleReads(r)
    /\ \/ runs[r].turns = 0 /\ UNCHANGED events
       \/ Fault("read")
    /\ runs' = [runs EXCEPT ![r] = Idle]
    /\ UNCHANGED <<editor, enabled, due, watcher, announced, bridge, history>>

Readable(r) ==
    /\ HandleReads(r)
    /\ runs[r].turns > 0
    /\ LET c == runs[r].chat
       IN  /\ seen' = IF runs[r].old THEN seen ELSE seen \union {c}
           /\ IF c \in terse THEN runs' = [runs EXCEPT ![r] = Idle] /\ UNCHANGED announced
                             ELSE AnnounceSession(r, Settled(runs[r]), c, Idle)
    /\ UNCHANGED <<editor, enabled, due, pending, scans, latest, bridge, history, events>>

(***************************************************************************)
(* Transcripts: scanTurns() and Bridge.postTurnSummary()                   *)
(***************************************************************************)
Scan(r, c) ==
    /\ c \in scans
    /\ Is(r, "idle")
    /\ scans' = scans \ {c}
    /\ runs' = [runs EXCEPT ![r] = Reading("scan", c)]
    /\ overlapped' = IF \E q \in Runs : Is(q, "scan") /\ runs[q].at = "reading" /\ runs[q].chat = c
                     THEN overlapped \union {c} ELSE overlapped
    /\ UNCHANGED <<editor, enabled, due, seen, pending, latest, announced, bridge, existing,
                   announcements, summaries, touches, base, crossed, events>>

\* Mutant: the turn that is still being answered is reported too.
Unfinished(run) == run.next <= run.whole + 1

Reportable(run) == run.next <= run.whole

\* A scan goes on with the next finished turn, and ends after the last one.
Onward(run) == IF Reportable(run) THEN [run EXCEPT !.at = "reporting"] ELSE Idle

NextTurn(run) == Onward([run EXCEPT !.next = @ + 1])

ScanReads(r) == Is(r, "scan") /\ runs[r].at = "reading"

ScanFails(r) ==
    /\ Fault("read")
    /\ ScanReads(r)
    /\ runs' = [runs EXCEPT ![r] = Idle]
    /\ UNCHANGED <<editor, enabled, due, watcher, announced, bridge, history>>

\* The first sight of a chat is a baseline, a newer turn is a touch.
Baseline(c, newest) ==
    /\ latest[c] = None
    /\ latest' = [latest EXCEPT ![c] = newest]
    /\ base' = [base EXCEPT ![c] = newest]
    /\ UNCHANGED touches

Touch(c, newest) ==
    /\ latest' = [latest EXCEPT ![c] = newest]
    /\ touches' = [touches EXCEPT ![c] = IF @ = MaxTurns + 1 THEN @ ELSE @ + 1]
    /\ UNCHANGED base

Unmoved == UNCHANGED <<latest, touches, base>>

\* Mutant: every write of a chat that has turns is taken for a turn.
EveryWrite(c, newest) ==
    \/ Baseline(c, newest)
    \/ latest[c] # None /\ newest # 0 /\ Touch(c, newest)
    \/ latest[c] # None /\ newest = 0 /\ Unmoved

NewestTurn(c, newest) ==
    \/ Baseline(c, newest)
    \/ latest[c] # None /\ newest \notin {0, latest[c]} /\ Touch(c, newest)
    \/ latest[c] # None /\ newest \in {0, latest[c]} /\ Unmoved

\* The sessions that a disposed watcher would touch are forgotten.
ScanCompares(r) ==
    /\ ScanReads(r)
    /\ runs' = [runs EXCEPT ![r] = Onward(Settled(@))]
    /\ IF runs[r].old THEN Unmoved ELSE NewestTurn(runs[r].chat, runs[r].turns)
    /\ UNCHANGED <<editor, enabled, due, seen, pending, scans, announced, bridge, existing,
                   announcements, summaries, crossed, overlapped, events>>

Record(c, t) ==
    LET all == Append(ids[c], t)
    IN  ids' = [ids EXCEPT ![c] = IF Len(all) > MaxPosted THEN Tail(all) ELSE all]

Recorded(c, t) == \E i \in DOMAIN ids[c] : ids[c][i] = t

Reports(r) == Is(r, "scan") /\ runs[r].at = "reporting"

\* A chat without a thread, a turn that is recorded, and one that a
\* notification has covered (alreadyReported) are not posted.
Passes(r) ==
    /\ Reports(r)
    /\ LET c == runs[r].chat
           t == runs[r].next
       IN  \/ (c \notin threads \/ Recorded(c, t)) /\ UNCHANGED ids
           \/ c \in threads /\ ~Recorded(c, t) /\ t <= notified[c] /\ Record(c, t)
    /\ runs' = [runs EXCEPT ![r] = NextTurn(@)]
    /\ UNCHANGED <<editor, enabled, due, watcher, announced, threads, notified, history, events>>

Posting(r) ==
    /\ Reports(r)
    /\ LET c == runs[r].chat
           t == runs[r].next
       IN  /\ c \in threads /\ ~Recorded(c, t) /\ t > notified[c]
           /\ summaries' = [summaries EXCEPT ![c][t] = IF @ = 2 THEN 2 ELSE @ + 1]
    /\ runs' = [runs EXCEPT ![r].at = "posting"]
    /\ UNCHANGED <<editor, enabled, due, watcher, announced, threads, notified, existing,
                   announcements, touches, base, crossed, overlapped, events>>

\* Mutant: the turn is posted before it is recorded, and never recorded when
\* the post fails.
PostsUnrecorded(r) == Posting(r) /\ UNCHANGED ids

\* The turn is recorded before the post is awaited.
Posts(r) == Posting(r) /\ Record(runs[r].chat, runs[r].next)

\* The post succeeds or fails; the scan goes on in either case.
PostEnds(r) ==
    /\ Is(r, "scan") /\ runs[r].at = "posting"
    /\ runs' = [runs EXCEPT ![r] = NextTurn(@)]
    /\ UNCHANGED <<editor, enabled, due, watcher, announced, bridge, history, events>>

(***************************************************************************)
(* Agent-host chats: poll()                                                *)
(***************************************************************************)
\* The timer is set again only when a poll has ended.
Poll(r) ==
    /\ enabled
    /\ Is(r, "idle")
    /\ \A q \in Runs : Is(q, "poll") => runs[q].old
    /\ listed # {}
    /\ runs' = [runs EXCEPT ![r] = Polling(Index)]
    /\ UNCHANGED <<editor, enabled, due, watcher, announced, bridge, history, events>>

Polls(r, h) == Is(r, "poll") /\ runs[r].at = "polling" /\ h \in runs[r].todo

Checked(run, h) == [run EXCEPT !.todo = @ \ {h}]

After(run, h) == IF run.todo = {h} THEN Idle ELSE Checked(run, h)

\* touchIfActive(): a request later than the last one known.  A disposed
\* watcher has a set of its own, which may hold the chat or not.
PollTouches(r, h) ==
    /\ Polls(r, h)
    /\ h \in seen \/ runs[r].old \/ runs[r].index[h] = 0
    /\ runs' = [runs EXCEPT ![r] = After(@, h)]
    /\ LET started == runs[r].index[h]
       IN  IF runs[r].old \/ started = 0 \/ started <= latest[h] THEN Unmoved
           ELSE NewestTurn(h, started)
    /\ UNCHANGED <<editor, enabled, due, seen, pending, scans, announced, bridge, existing,
                   announcements, summaries, crossed, overlapped, events>>

PollAnnounces(r, h) ==
    /\ Polls(r, h)
    /\ h \notin seen \/ runs[r].old
    /\ runs[r].index[h] > 0
    /\ seen' = IF runs[r].old THEN seen ELSE seen \union {h}
    /\ IF runs[r].old THEN UNCHANGED <<latest, base>>
       ELSE /\ latest' = [latest EXCEPT ![h] = runs[r].index[h]]
            /\ base' = [base EXCEPT ![h] = IF @ = None THEN runs[r].index[h] ELSE @]
    /\ AnnounceSession(r, Checked(runs[r], h), h, After(runs[r], h))
    /\ UNCHANGED <<editor, enabled, due, pending, scans, bridge, existing, announcements, summaries,
                   touches, crossed, overlapped, events>>

(***************************************************************************)
(* The configuration changes; the user resets the local state              *)
(***************************************************************************)
Handled == {c \in Chats : \E r \in Runs :
                \/ Is(r, "handle") /\ runs[r].chat = c
                \/ Is(r, "poll") /\ (runs[r].chat = c \/ c \in runs[r].todo)}

\* onDidChangeConfiguration(): a new bridge, resetAnnouncements().
ConfigChanges ==
    /\ Event
    /\ enabled' \in BOOLEAN
    /\ announced' = {}
    /\ crossed' = crossed \union Handled
    /\ UNCHANGED <<editor, due, watcher, runs, bridge, existing, announcements, summaries, touches,
                   base, overlapped>>

\* resetLocalState(): sessions are forgotten and both watchers replaced; what
\* the old ones await goes on.
Reset ==
    /\ Event
    /\ announced' = {}
    /\ crossed' = Handled
    /\ due' = {} /\ pending' = {} /\ scans' = {}
    /\ runs' = [r \in Runs |-> IF Is(r, "idle") THEN Idle ELSE [runs[r] EXCEPT !.old = TRUE]]
    /\ threads' = {} /\ notified' = [c \in Transcripts |-> 0] /\ ids' = [c \in Transcripts |-> <<>>]
    /\ announcements' = [c \in Chats |-> 0]
    /\ summaries' = [c \in Transcripts |-> [t \in Turns |-> 0]]
    /\ touches' = [c \in Chats |-> 0] /\ overlapped' = {}
    /\ \E S \in Seedings : Seeds(S)
    /\ UNCHANGED <<editor, enabled>>

(***************************************************************************)
(* The specification                                                       *)
(***************************************************************************)
Editor ==
    \/ \E c \in Chats : Ask(c) \/ Answered(c)
    \/ \E c \in Transcripts : Rewritten(c) \/ ToolNotifies(c)
    \/ \E h \in Hosts : Archives(h)

Announces == \E r \in Runs : Announced(r) \/ AnnounceFails(r)

Handles ==
    \/ \E c \in Transcripts : Schedule(c)
    \/ \E r \in Runs : Unreadable(r) \/ Readable(r)
    \/ \E r \in Runs, c \in Transcripts : Handle(r, c)

ScansTurns ==
    \/ \E r \in Runs, c \in Transcripts : Scan(r, c)
    \/ \E r \in Runs : ScanFails(r) \/ ScanCompares(r) \/ Passes(r) \/ Posts(r) \/ PostEnds(r)

PollsHosts ==
    \/ \E r \in Runs : Poll(r)
    \/ \E r \in Runs, h \in Hosts : PollTouches(r, h) \/ PollAnnounces(r, h)

Next == Editor \/ Announces \/ Handles \/ ScansTurns \/ PollsHosts \/ ConfigChanges \/ Reset

Spec == Init /\ [][Next]_vars

(***************************************************************************)
(* Properties                                                              *)
(***************************************************************************)
TextRuns(kinds, places) ==
    [kind : kinds, at : places, chat : Transcripts, turns : 0 .. MaxTurns, whole : 0 .. MaxTurns,
     next : 1 .. MaxTurns + 1, old : BOOLEAN]

HandleRuns == TextRuns({"handle"}, {"reading", "announcing"})

\* Only a finished turn is reported.
ScanRuns ==
    {run \in TextRuns({"scan"}, {"reading", "reporting", "posting"}) :
        run.at # "reading" => run.next <= run.whole}

\* A poll handles only what it found in the index.
PollRuns ==
    {run \in [kind : {"poll"}, at : {"polling", "announcing"}, chat : Hosts \union {None},
              index : UNION {[H -> 0 .. MaxTurns] : H \in SUBSET Hosts}, todo : SUBSET Hosts,
              old : BOOLEAN] :
        /\ run.at = "announcing" => run.chat \in Hosts
        /\ run.todo \subseteq DOMAIN run.index}

\* Every variable keeps its type: above all, only turns that the transcript
\* holds enter the list of posted turns, and the list keeps its limit.
TypeOK ==
    /\ turns \in [Chats -> 0 .. MaxTurns] /\ whole \in [Chats -> 0 .. MaxTurns]
    /\ terse \subseteq Transcripts /\ listed \subseteq Hosts /\ enabled \in BOOLEAN
    /\ due \subseteq Transcripts /\ pending \subseteq Transcripts /\ scans \subseteq Transcripts
    /\ seen \subseteq Chats /\ announced \subseteq Chats /\ threads \subseteq Transcripts
    /\ existing \subseteq Chats /\ crossed \subseteq Chats /\ overlapped \subseteq Transcripts
    /\ latest \in [Chats -> None .. MaxTurns] /\ base \in [Chats -> None .. MaxTurns]
    /\ runs \in [Runs -> {Idle} \union HandleRuns \union ScanRuns \union PollRuns]
    /\ notified \in [Transcripts -> 0 .. MaxTurns]
    /\ ids \in [Transcripts -> Seq(Turns)] /\ \A c \in Transcripts : Len(ids[c]) <= MaxPosted
    /\ announcements \in [Chats -> 0 .. 2] /\ summaries \in [Transcripts -> [Turns -> 0 .. 2]]
    /\ touches \in [Chats -> 0 .. MaxTurns + 1] /\ events \in 0 .. MaxEvents

\* A chat that a watcher has ticked off has been announced, is being announced,
\* had too short a prompt or was there before; and no chat is announced twice,
\* however writes, retries and the two watchers interleave.  A chat that was
\* being handled while the announced set was cleared is excepted.  About
\* handle(), announce() and announceSession(), which keep one set each and
\* undo both when Teams refuses.
SeenIsAnnounced ==
    \A c \in Chats \ crossed :
        /\ announcements[c] <= 1
        /\ c \in seen => \/ c \in existing \union terse
                         \/ announcements[c] = 1
                         \/ Announcing(c)

\* No turn is posted twice while the transcript holds no more turns than the
\* list remembers, whatever scans run side by side over it, with failing posts
\* and reports of the model's own between them.  About postTurnSummary().
TurnPostedOnce ==
    \A c \in Transcripts : turns[c] <= MaxPosted => \A t \in Turns : summaries[c][t] <= 1

\* A chat is touched no more often than it has got turns since its first
\* baseline, however often its transcript is rewritten, unless two scans were
\* reading it at a time.  About scanTurns() and touchIfActive().
TouchIsTurn ==
    \A c \in Chats \ overlapped : touches[c] > 0 => touches[c] <= latest[c] - base[c]

=============================================================================
