---------------------------- MODULE WatchProofs ----------------------------
(***************************************************************************)
(* Theorems about Watch for every value of its constants.                  *)
(***************************************************************************)
EXTENDS Watch, FiniteSetTheorems, TLAPS

-----------------------------------------------------------------------------
(* The activations *)

RunSet == {Idle} \union HandleRuns \union ScanRuns \union PollRuns

Indexes == UNION {[H -> 0 .. MaxTurns] : H \in SUBSET Hosts}

LEMMA IndexIs ==
    ASSUME NEW index \in Indexes
    PROVE  DOMAIN index \subseteq Hosts /\ \A h \in DOMAIN index : index[h] \in 0 .. MaxTurns
BY DEF Indexes

(* What kind an activation has decides which record it is. *)
LEMMA KindIs ==
    ASSUME NEW run \in RunSet
    PROVE  /\ run.kind \in {"idle", "handle", "scan", "poll"}
           /\ run.kind = "idle" => run = Idle
           /\ run.kind = "handle" => run \in HandleRuns
           /\ run.kind = "scan" => run \in ScanRuns
           /\ run.kind = "poll" => run \in PollRuns
BY DEF RunSet, Idle, HandleRuns, ScanRuns, PollRuns, TextRuns

LEMMA IdleIs == Idle.kind = "idle" /\ Idle \in RunSet
BY DEF Idle, RunSet

LEMMA ReadingIs ==
    ASSUME NEW kind \in {"handle", "scan"}, NEW c \in Transcripts,
           turns[c] \in 0 .. MaxTurns, whole[c] \in 0 .. MaxTurns
    PROVE  LET run == Reading(kind, c) IN
           /\ kind = "handle" => run \in HandleRuns
           /\ kind = "scan" => run \in ScanRuns
           /\ run.kind = kind /\ run.at = "reading" /\ run.chat = c
           /\ run.turns = turns[c] /\ run.whole = whole[c] /\ run.old = FALSE
<1> DEFINE run == Reading(kind, c)
<1>1. /\ run.kind = kind /\ run.at = "reading" /\ run.chat = c
      /\ run.turns = turns[c] /\ run.whole = whole[c] /\ run.old = FALSE
  BY DEF Reading
<1>2. 1 \in 1 .. MaxTurns + 1
  BY WatchAssumption
<1>3. kind = "handle" => run \in HandleRuns
  BY <1>2 DEF Reading, HandleRuns, TextRuns
<1>4. kind = "scan" => run \in TextRuns({"scan"}, {"reading", "reporting", "posting"})
  BY <1>2 DEF Reading, TextRuns
<1>5. kind = "scan" => run \in ScanRuns
  BY <1>1, <1>4 DEF ScanRuns
<1> QED BY <1>1, <1>3, <1>5

LEMMA PollingIs ==
    ASSUME NEW index \in Indexes
    PROVE  LET run == Polling(index) IN
           /\ run \in PollRuns /\ run.kind = "poll" /\ run.at = "polling"
           /\ run.index = index /\ run.todo = DOMAIN index /\ ~run.old
BY IndexIs DEF Polling, PollRuns, Indexes

(* A handler or a poll that has called announceSession. *)
LEMMA HandleAnnounces ==
    ASSUME NEW run \in HandleRuns, NEW c \in Transcripts
    PROVE  LET next == [Settled(run) EXCEPT !.at = "announcing", !.chat = c] IN
           /\ next \in HandleRuns /\ next.kind = "handle" /\ next.at = "announcing"
           /\ next.chat = c /\ next.whole = run.whole /\ next.turns = 0 /\ next.old = run.old
<1> DEFINE a == Settled(run)
           b == [a EXCEPT !.at = "announcing", !.chat = c]
<1>1. /\ a \in HandleRuns /\ a.whole = run.whole /\ a.turns = 0 /\ a.old = run.old
  BY WatchAssumption DEF Settled, HandleRuns, TextRuns
<1> HIDE DEF a
<1>2. /\ b \in HandleRuns /\ b.kind = "handle" /\ b.at = "announcing"
      /\ b.chat = c /\ b.whole = a.whole /\ b.turns = a.turns /\ b.old = a.old
  BY <1>1 DEF HandleRuns, TextRuns
<1> HIDE DEF b
<1> QED BY <1>1, <1>2 DEF a, b

LEMMA AfterIs ==
    ASSUME NEW run \in PollRuns, NEW h \in Hosts
    PROVE  LET next == After(run, h) IN
           \/ next = Idle
           \/ /\ next \in PollRuns /\ next.kind = "poll" /\ next.at = run.at
              /\ next.chat = run.chat /\ next.index = run.index /\ next.todo = run.todo \ {h}
              /\ next.old = run.old
BY DEF After, Checked, PollRuns

LEMMA AfterAnnouncingIs ==
    ASSUME NEW run \in HandleRuns \union PollRuns
    PROVE  LET next == AfterAnnouncing(run) IN
           \/ next = Idle
           \/ /\ run.kind = "poll"
              /\ next \in PollRuns /\ next.kind = "poll" /\ next.at = "polling"
              /\ next.index = run.index /\ next.todo = run.todo /\ next.old = run.old
BY DEF AfterAnnouncing, HandleRuns, TextRuns, PollRuns

(* A scan between two turns. *)
LEMMA OnwardIs ==
    ASSUME NEW run \in TextRuns({"scan"}, {"reading", "reporting", "posting"})
    PROVE  LET next == Onward(run) IN
           \/ next = Idle
           \/ /\ next \in ScanRuns /\ next.kind = "scan" /\ next.at = "reporting"
              /\ next.chat = run.chat /\ next.whole = run.whole /\ next.turns = run.turns
              /\ next.old = run.old
BY DEF Onward, Reportable, ScanRuns, TextRuns

LEMMA SettledScan ==
    ASSUME NEW run \in ScanRuns
    PROVE  LET next == Settled(run) IN
           /\ next \in ScanRuns /\ next.turns = 0 /\ next.chat = run.chat
           /\ next.whole = run.whole /\ next.old = run.old
BY WatchAssumption DEF Settled, ScanRuns, TextRuns

LEMMA NextTurnIs ==
    ASSUME NEW run \in ScanRuns, run.at # "reading"
    PROVE  LET next == NextTurn(run) IN
           \/ next = Idle
           \/ /\ next \in ScanRuns /\ next.kind = "scan" /\ next.at = "reporting"
              /\ next.chat = run.chat /\ next.whole = run.whole /\ next.turns = run.turns
              /\ next.old = run.old
<1> DEFINE more == [run EXCEPT !.next = @ + 1]
<1>1. /\ more \in TextRuns({"scan"}, {"reading", "reporting", "posting"})
      /\ more.chat = run.chat /\ more.whole = run.whole /\ more.turns = run.turns
      /\ more.old = run.old
  BY WatchAssumption DEF ScanRuns, TextRuns
<1> HIDE DEF more
<1>2. NextTurn(run) = Onward(more)
  BY DEF NextTurn, more
<1> QED BY <1>1, <1>2, OnwardIs

LEMMA PostingIs ==
    ASSUME NEW run \in ScanRuns, run.at = "reporting"
    PROVE  LET next == [run EXCEPT !.at = "posting"] IN
           /\ next \in ScanRuns /\ next.kind = "scan" /\ next.at = "posting"
           /\ next.chat = run.chat /\ next.whole = run.whole /\ next.turns = run.turns
           /\ next.old = run.old
BY DEF ScanRuns, TextRuns

LEMMA OldIs ==
    ASSUME NEW run \in RunSet, run # Idle
    PROVE  LET next == [run EXCEPT !.old = TRUE] IN
           /\ next \in RunSet /\ next.kind = run.kind /\ next.at = run.at /\ next.chat = run.chat
           /\ next.old = TRUE
           /\ run.kind \in {"handle", "scan"} => next.whole = run.whole /\ next.turns = run.turns
           /\ run.kind = "poll" => next.index = run.index /\ next.todo = run.todo
<1>1. CASE run \in HandleRuns
  BY <1>1 DEF RunSet, HandleRuns, TextRuns
<1>2. CASE run \in ScanRuns
  BY <1>2 DEF RunSet, ScanRuns, TextRuns
<1>3. CASE run \in PollRuns
  BY <1>3 DEF RunSet, PollRuns
<1> QED BY <1>1, <1>2, <1>3 DEF RunSet

-----------------------------------------------------------------------------
(* Types                                                                   *)

Unchanged(r) == \A q \in Runs \ {r} : runs'[q] = runs[q]

LEMMA RunMoves ==
    ASSUME TypeOK, NEW r \in Runs, NEW next \in RunSet, runs' = [runs EXCEPT ![r] = next]
    PROVE  /\ runs' \in [Runs -> RunSet]
           /\ runs'[r] = next /\ Unchanged(r)
BY DEF TypeOK, RunSet, Unchanged

LEMMA RunIs ==
    ASSUME TypeOK, NEW r \in Runs
    PROVE  runs[r] \in RunSet
BY DEF TypeOK, RunSet

(* The bound on the turns of all chats bounds those of each. *)
LEMMA RoomForTurn ==
    ASSUME TypeOK, NEW c \in Chats, Cardinality(Asked) < MaxTurns
    PROVE  turns[c] < MaxTurns
<1>1. MaxTurns \in Nat \ {0} /\ IsFiniteSet(Chats) /\ turns[c] \in 0 .. MaxTurns
  BY WatchAssumption DEF TypeOK
<1>2. SUFFICES ASSUME turns[c] = MaxTurns PROVE FALSE
  BY <1>1
<1>3. IsFiniteSet(Turns) /\ Cardinality(Turns) = MaxTurns
  BY <1>1, FS_Interval DEF Turns
<1>4. IsFiniteSet(Asked)
  <2>1. IsFiniteSet(Chats \X Turns)
    BY <1>1, <1>3, FS_Product
  <2> QED BY <2>1, FS_Subset DEF Asked
<1>5. IsFiniteSet({c} \X Turns) /\ Cardinality({c} \X Turns) = MaxTurns
  <2>1. IsFiniteSet({c}) /\ Cardinality({c}) = 1
    BY FS_Singleton
  <2>2. Cardinality({c} \X Turns) = 1 * MaxTurns /\ IsFiniteSet({c} \X Turns)
    BY <1>3, <2>1, FS_Product
  <2> QED BY <1>1, <2>2
<1>6. {c} \X Turns \in SUBSET Asked
  BY <1>1, <1>2 DEF Asked, Turns
<1>7. Cardinality(Asked) \in Nat
  BY <1>4, FS_CardinalityType
<1> QED BY <1>1, <1>4, <1>5, <1>6, <1>7, FS_Subset

(* What postTurnSummary() makes of the list of posted turns. *)
LEMMA RecordIs ==
    ASSUME TypeOK, NEW c \in Transcripts, NEW t \in Turns, Record(c, t)
    PROVE  /\ ids' \in [Transcripts -> Seq(Turns)] /\ \A d \in Transcripts : Len(ids'[d]) <= MaxPosted
           /\ \A d \in Transcripts \ {c} : ids'[d] = ids[d]
           /\ Len(ids[c]) < MaxPosted => ids'[c] = Append(ids[c], t)
<1> DEFINE all == Append(ids[c], t)
           new == IF Len(all) > MaxPosted THEN Tail(all) ELSE all
<1>1. ids[c] \in Seq(Turns) /\ Len(ids[c]) \in Nat /\ Len(ids[c]) <= MaxPosted
  BY DEF TypeOK
<1>2. all \in Seq(Turns) /\ Len(all) = Len(ids[c]) + 1
  BY <1>1
<1>3. new \in Seq(Turns) /\ Len(new) <= MaxPosted
  <2> HIDE DEF all
  <2> QED BY <1>1, <1>2, WatchAssumption
<1>4. Len(ids[c]) < MaxPosted => new = all
  <2> HIDE DEF all
  <2> QED BY <1>1, <1>2, WatchAssumption
<1>5. ids' = [ids EXCEPT ![c] = new]
  BY DEF Record
<1> HIDE DEF new
<1> QED BY <1>3, <1>4, <1>5 DEF TypeOK

LEMMA TypeInit ==
    ASSUME Init
    PROVE  TypeOK
<1>1. \A S \in Seedings : S \subseteq Chats
  BY DEF Seedings
<1>2. turns \in [Chats -> 0 .. MaxTurns]
  BY WatchAssumption DEF Init
<1>3. seen \subseteq Chats
  BY <1>1 DEF Init
<1>4. latest \in [Chats -> None .. MaxTurns]
  BY <1>2, WatchAssumption DEF Init, None
<1>5. runs \in [Runs -> {Idle} \union HandleRuns \union ScanRuns \union PollRuns]
  BY DEF Init
<1>6. ids \in [Transcripts -> Seq(Turns)] /\ \A c \in Transcripts : Len(ids[c]) <= MaxPosted
  <2>1. << >> \in Seq(Turns) /\ Len(<< >>) = 0
    OBVIOUS
  <2> QED BY <2>1, WatchAssumption DEF Init
<1> QED BY <1>2, <1>3, <1>4, <1>5, <1>6, WatchAssumption DEF Init, TypeOK

LEMMA TypeEditor ==
    ASSUME TypeOK, Editor
    PROVE  TypeOK'
<1> USE DEF editor, watcher, bridge, history
<1>1. ASSUME NEW c \in Chats, Ask(c) PROVE TypeOK'
  <2>1. turns' \in [Chats -> 0 .. MaxTurns]
    BY <1>1, RoomForTurn, WatchAssumption DEF TypeOK, Ask
  <2> QED BY <1>1, <2>1 DEF TypeOK, Ask, Written
<1>2. ASSUME NEW c \in Chats, Answered(c) PROVE TypeOK'
  BY <1>2 DEF TypeOK, Answered, Written
<1>3. ASSUME NEW c \in Transcripts, Rewritten(c) \/ ToolNotifies(c) PROVE TypeOK'
  BY <1>3 DEF TypeOK, Rewritten, ToolNotifies, Chats
<1>4. ASSUME NEW h \in Hosts, Archives(h) PROVE TypeOK'
  BY <1>4, WatchAssumption DEF TypeOK, Archives, Event
<1> QED BY <1>1, <1>2, <1>3, <1>4 DEF Editor

LEMMA TypeUnchanged ==
    ASSUME TypeOK, UNCHANGED vars
    PROVE  TypeOK'
BY DEF TypeOK, vars, editor, watcher, bridge, history

-----------------------------------------------------------------------------
(* What each step makes of its activation                                  *)

(* An activation that ends, or goes on as next. *)
Moves(r) == runs' \in [Runs -> RunSet] /\ Unchanged(r)

LEMMA AnnounceEndsIs ==
    ASSUME TypeOK, NEW r \in Runs, Announced(r) \/ AnnounceFails(r)
    PROVE  /\ Moves(r) /\ runs[r].kind \in {"handle", "poll"} /\ runs[r].at = "announcing"
           /\ runs[r].chat \in Chats
           /\ \/ runs'[r] = Idle
              \/ /\ runs[r].kind = "poll"
                 /\ runs'[r] \in PollRuns /\ runs'[r].kind = "poll" /\ runs'[r].at = "polling"
                 /\ runs'[r].index = runs[r].index /\ runs'[r].todo = runs[r].todo
                 /\ runs'[r].old = runs[r].old
<1> DEFINE next == AfterAnnouncing(runs[r])
<1>1. /\ runs[r].kind # "idle" /\ runs[r].at = "announcing"
      /\ runs' = [runs EXCEPT ![r] = next]
  BY DEF Announced, AnnounceFails, Is
<1>2. runs[r] \in HandleRuns \union PollRuns
  BY <1>1, RunIs, KindIs DEF ScanRuns, TextRuns
<1>3. \/ next = Idle
      \/ /\ runs[r].kind = "poll"
         /\ next \in PollRuns /\ next.kind = "poll" /\ next.at = "polling"
         /\ next.index = runs[r].index /\ next.todo = runs[r].todo /\ next.old = runs[r].old
  BY <1>2, AfterAnnouncingIs
<1>4. runs[r].kind \in {"handle", "poll"} /\ runs[r].chat \in Chats
  BY <1>1, <1>2 DEF HandleRuns, TextRuns, PollRuns, Chats
<1>5. next \in RunSet
  BY <1>3 DEF RunSet
<1> HIDE DEF next
<1> QED BY <1>1, <1>3, <1>4, <1>5, RunMoves DEF Moves

LEMMA HandleIs ==
    ASSUME TypeOK, NEW r \in Runs, NEW c \in Transcripts, Handle(r, c)
    PROVE  \/ c \in seen /\ UNCHANGED runs
           \/ /\ c \notin seen /\ Moves(r) /\ runs[r].kind = "idle"
              /\ runs'[r] \in HandleRuns /\ runs'[r].kind = "handle" /\ runs'[r].at = "reading"
              /\ runs'[r].chat = c /\ runs'[r].turns = turns[c] /\ runs'[r].whole = whole[c]
              /\ runs'[r].old = FALSE
<1> DEFINE next == Reading("handle", c)
<1>1. CASE c \in seen
  BY <1>1 DEF Handle
<1>2. CASE c \notin seen
  <2>1. runs' = [runs EXCEPT ![r] = next] /\ runs[r].kind = "idle"
    BY <1>2 DEF Handle, Is
  <2>2. /\ next \in HandleRuns /\ next.kind = "handle" /\ next.at = "reading" /\ next.chat = c
        /\ next.turns = turns[c] /\ next.whole = whole[c] /\ next.old = FALSE
    <3>1. turns[c] \in 0 .. MaxTurns /\ whole[c] \in 0 .. MaxTurns
      BY DEF TypeOK, Chats
    <3> QED BY <3>1, ReadingIs
  <2>3. next \in RunSet
    BY <2>2 DEF RunSet
  <2> HIDE DEF next
  <2> QED BY <1>2, <2>1, <2>2, <2>3, RunMoves DEF Moves
<1> QED BY <1>1, <1>2

(* The steps that end an activation. *)
LEMMA EndsIs ==
    ASSUME TypeOK, NEW r \in Runs, Unreadable(r) \/ ScanFails(r)
    PROVE  Moves(r) /\ runs'[r] = Idle
BY IdleIs, RunMoves DEF Moves, Unreadable, ScanFails

LEMMA ReadableIs ==
    ASSUME TypeOK, NEW r \in Runs, Readable(r)
    PROVE  LET c == runs[r].chat IN
           /\ runs[r] \in HandleRuns /\ runs[r].kind = "handle" /\ runs[r].at = "reading"
           /\ c \in Transcripts /\ Moves(r)
           /\ \/ c \in terse \union announced /\ UNCHANGED announced /\ runs'[r] = Idle
              \/ /\ c \notin announced /\ announced' = announced \union {c}
                 /\ runs'[r] \in HandleRuns /\ runs'[r].kind = "handle"
                 /\ runs'[r].at = "announcing" /\ runs'[r].chat = c
                 /\ runs'[r].whole = runs[r].whole /\ runs'[r].turns = 0
                 /\ runs'[r].old = runs[r].old
<1> DEFINE c == runs[r].chat
           next == [Settled(runs[r]) EXCEPT !.at = "announcing", !.chat = c]
<1>1. runs[r] \in HandleRuns /\ runs[r].kind = "handle" /\ runs[r].at = "reading"
  BY RunIs, KindIs DEF Readable, HandleReads, Is
<1>2. c \in Transcripts
  BY <1>1 DEF HandleRuns, TextRuns
<1>3. /\ next \in HandleRuns /\ next.kind = "handle" /\ next.at = "announcing"
      /\ next.chat = c /\ next.whole = runs[r].whole /\ next.turns = 0 /\ next.old = runs[r].old
  BY <1>1, <1>2, HandleAnnounces
<1>4. next \in RunSet
  BY <1>3 DEF RunSet
<1>5. \/ c \in terse \union announced /\ UNCHANGED announced /\ runs' = [runs EXCEPT ![r] = Idle]
      \/ /\ c \notin announced /\ announced' = announced \union {c}
         /\ runs' = [runs EXCEPT ![r] = next]
  BY DEF Readable, AnnounceSession
<1> HIDE DEF next
<1> QED BY <1>1, <1>2, <1>3, <1>4, <1>5, IdleIs, RunMoves DEF Moves

LEMMA ScanIs ==
    ASSUME TypeOK, NEW r \in Runs, NEW c \in Transcripts, Scan(r, c)
    PROVE  /\ Moves(r) /\ runs[r].kind = "idle"
           /\ runs'[r] \in ScanRuns /\ runs'[r].kind = "scan" /\ runs'[r].at = "reading"
           /\ runs'[r].chat = c /\ runs'[r].turns = turns[c] /\ runs'[r].whole = whole[c]
           /\ runs'[r].old = FALSE
<1> DEFINE next == Reading("scan", c)
<1>1. runs' = [runs EXCEPT ![r] = next] /\ runs[r].kind = "idle"
  BY DEF Scan, Is
<1>2. /\ next \in ScanRuns /\ next.kind = "scan" /\ next.at = "reading" /\ next.chat = c
      /\ next.turns = turns[c] /\ next.whole = whole[c] /\ next.old = FALSE
  <2>1. turns[c] \in 0 .. MaxTurns /\ whole[c] \in 0 .. MaxTurns
    BY DEF TypeOK, Chats
  <2> QED BY <2>1, ReadingIs
<1>3. next \in RunSet
  BY <1>2 DEF RunSet
<1> HIDE DEF next
<1> QED BY <1>1, <1>2, <1>3, RunMoves DEF Moves

(* A scan that goes on, or ends. *)
LEMMA ScanGoesOn ==
    ASSUME TypeOK, NEW r \in Runs, ScanCompares(r) \/ Passes(r) \/ Posts(r) \/ PostEnds(r)
    PROVE  /\ runs[r] \in ScanRuns /\ runs[r].kind = "scan" /\ Moves(r)
           /\ \/ runs'[r] = Idle
              \/ /\ runs'[r] \in ScanRuns /\ runs'[r].kind = "scan" /\ runs'[r].at # "reading"
                 /\ runs'[r].chat = runs[r].chat /\ runs'[r].whole = runs[r].whole
                 /\ runs'[r].turns \in {0, runs[r].turns} /\ runs'[r].old = runs[r].old
<1> DEFINE Goes(next) ==
             \/ next = Idle
             \/ /\ next \in ScanRuns /\ next.kind = "scan" /\ next.at # "reading"
                /\ next.chat = runs[r].chat /\ next.whole = runs[r].whole
                /\ next.turns \in {0, runs[r].turns} /\ next.old = runs[r].old
<1>1. runs[r] \in ScanRuns /\ runs[r].kind = "scan"
  BY RunIs, KindIs DEF ScanCompares, ScanReads, Passes, Posts, Posting, Reports, PostEnds, Is
<1>2. ASSUME NEW next, Goes(next), runs' = [runs EXCEPT ![r] = next]
      PROVE  Moves(r) /\ Goes(runs'[r])
  <2>1. next \in RunSet
    BY <1>2, IdleIs DEF RunSet
  <2> HIDE DEF Goes
  <2> QED BY <1>2, <2>1, RunMoves DEF Moves
<1>3. CASE ScanCompares(r)
  <2> DEFINE mid == Settled(runs[r])
             next == Onward(mid)
  <2>1. /\ mid \in ScanRuns /\ mid.turns = 0 /\ mid.chat = runs[r].chat
        /\ mid.whole = runs[r].whole /\ mid.old = runs[r].old
    BY <1>1, SettledScan
  <2> HIDE DEF mid
  <2>2. Goes(next)
    BY <2>1, OnwardIs DEF ScanRuns
  <2>3. runs' = [runs EXCEPT ![r] = next]
    BY <1>3 DEF ScanCompares, mid
  <2> HIDE DEF next
  <2> QED BY <1>1, <1>2, <2>2, <2>3
<1>4. CASE Passes(r) \/ PostEnds(r)
  <2> DEFINE next == NextTurn(runs[r])
  <2>1. runs[r].at # "reading" /\ runs' = [runs EXCEPT ![r] = next]
    BY <1>4 DEF Passes, Reports, PostEnds
  <2>2. Goes(next)
    BY <1>1, <2>1, NextTurnIs
  <2> HIDE DEF next
  <2> QED BY <1>1, <1>2, <2>1, <2>2
<1>5. CASE Posts(r)
  <2> DEFINE next == [runs[r] EXCEPT !.at = "posting"]
  <2>1. runs[r].at = "reporting" /\ runs' = [runs EXCEPT ![r] = next]
    BY <1>1, <1>5 DEF Posts, Posting, Reports, TypeOK
  <2>2. Goes(next)
    BY <1>1, <2>1, PostingIs
  <2> HIDE DEF next
  <2> QED BY <1>1, <1>2, <2>1, <2>2
<1> QED BY <1>3, <1>4, <1>5

LEMMA PollIs ==
    ASSUME TypeOK, NEW r \in Runs, Poll(r)
    PROVE  /\ Moves(r) /\ runs[r].kind = "idle"
           /\ runs'[r] \in PollRuns /\ runs'[r].kind = "poll" /\ runs'[r].at = "polling"
           /\ runs'[r].index = Index /\ runs'[r].todo = listed /\ runs'[r].old = FALSE
<1> DEFINE next == Polling(Index)
<1>1. runs' = [runs EXCEPT ![r] = next] /\ runs[r].kind = "idle"
  BY DEF Poll, Is
<1>2. Index \in Indexes /\ DOMAIN Index = listed
  BY DEF Index, Indexes, TypeOK, Chats
<1>3. /\ next \in PollRuns /\ next.kind = "poll" /\ next.at = "polling"
      /\ next.index = Index /\ next.todo = listed /\ next.old = FALSE
  BY <1>2, PollingIs
<1>4. next \in RunSet
  BY <1>3 DEF RunSet
<1> HIDE DEF next
<1> QED BY <1>1, <1>3, <1>4, RunMoves DEF Moves

LEMMA PollsIs ==
    ASSUME TypeOK, NEW r \in Runs, NEW h \in Hosts, Polls(r, h)
    PROVE  /\ runs[r] \in PollRuns /\ runs[r].kind = "poll" /\ runs[r].at = "polling"
           /\ h \in runs[r].todo /\ runs[r].index[h] \in 0 .. MaxTurns
<1>1. runs[r] \in PollRuns /\ runs[r].kind = "poll" /\ runs[r].at = "polling" /\ h \in runs[r].todo
  BY RunIs, KindIs DEF Polls, Is
<1>2. runs[r].index \in Indexes /\ h \in DOMAIN runs[r].index
  BY <1>1 DEF PollRuns, Indexes
<1> QED BY <1>1, <1>2, IndexIs

LEMMA PollTouchesIs ==
    ASSUME TypeOK, NEW r \in Runs, NEW h \in Hosts, PollTouches(r, h)
    PROVE  /\ Moves(r)
           /\ \/ runs'[r] = Idle
              \/ /\ runs'[r] \in PollRuns /\ runs'[r].kind = "poll" /\ runs'[r].at = "polling"
                 /\ runs'[r].index = runs[r].index /\ runs'[r].todo = runs[r].todo \ {h}
                 /\ runs'[r].old = runs[r].old
<1> DEFINE next == After(runs[r], h)
<1>1. runs[r] \in PollRuns /\ runs[r].at = "polling"
  BY PollsIs DEF PollTouches
<1>2. \/ next = Idle
      \/ /\ next \in PollRuns /\ next.kind = "poll" /\ next.at = "polling"
         /\ next.index = runs[r].index /\ next.todo = runs[r].todo \ {h} /\ next.old = runs[r].old
  BY <1>1, AfterIs
<1>3. next \in RunSet
  BY <1>2 DEF RunSet
<1>4. runs' = [runs EXCEPT ![r] = next]
  BY DEF PollTouches
<1> HIDE DEF next
<1> QED BY <1>2, <1>3, <1>4, RunMoves DEF Moves

LEMMA PollAnnouncesIs ==
    ASSUME TypeOK, NEW r \in Runs, NEW h \in Hosts, PollAnnounces(r, h)
    PROVE  /\ Moves(r)
           /\ \/ /\ h \in announced /\ UNCHANGED announced
                 /\ \/ runs'[r] = Idle
                    \/ /\ runs'[r] \in PollRuns /\ runs'[r].kind = "poll"
                       /\ runs'[r].at = "polling"
                       /\ runs'[r].index = runs[r].index /\ runs'[r].todo = runs[r].todo \ {h}
                       /\ runs'[r].old = runs[r].old
              \/ /\ h \notin announced /\ announced' = announced \union {h}
                 /\ runs'[r] \in PollRuns /\ runs'[r].kind = "poll"
                 /\ runs'[r].at = "announcing" /\ runs'[r].chat = h
                 /\ runs'[r].index = runs[r].index /\ runs'[r].todo = runs[r].todo \ {h}
                 /\ runs'[r].old = runs[r].old
<1> DEFINE done == After(runs[r], h)
           next == [Checked(runs[r], h) EXCEPT !.at = "announcing", !.chat = h]
<1>1. runs[r] \in PollRuns /\ runs[r].at = "polling"
  BY PollsIs DEF PollAnnounces
<1>2. \/ done = Idle
      \/ /\ done \in PollRuns /\ done.kind = "poll" /\ done.at = "polling"
         /\ done.index = runs[r].index /\ done.todo = runs[r].todo \ {h} /\ done.old = runs[r].old
  BY <1>1, AfterIs
<1>3. /\ next \in PollRuns /\ next.kind = "poll" /\ next.at = "announcing" /\ next.chat = h
      /\ next.index = runs[r].index /\ next.todo = runs[r].todo \ {h} /\ next.old = runs[r].old
  <2>1. next = [Checked(runs[r], h) EXCEPT !.at = "announcing", !.chat = h]
    OBVIOUS
  <2> HIDE DEF next
  <2> QED BY <1>1, <2>1 DEF Checked, PollRuns
<1>4. done \in RunSet /\ next \in RunSet
  BY <1>2, <1>3 DEF RunSet
<1>5. \/ h \in announced /\ UNCHANGED announced /\ runs' = [runs EXCEPT ![r] = done]
      \/ /\ h \notin announced /\ announced' = announced \union {h}
         /\ runs' = [runs EXCEPT ![r] = next]
  BY DEF PollAnnounces, AnnounceSession
<1> HIDE DEF next, done
<1> QED BY <1>2, <1>3, <1>4, <1>5, RunMoves DEF Moves

(* A reset makes every activation one of a watcher that is gone. *)
LEMMA ResetIs ==
    ASSUME TypeOK, Reset, NEW r \in Runs
    PROVE  /\ runs'[r] \in RunSet
           /\ \/ runs[r] = Idle /\ runs'[r] = Idle
              \/ /\ runs'[r].kind = runs[r].kind /\ runs'[r].at = runs[r].at
                 /\ runs'[r].chat = runs[r].chat /\ runs'[r].old = TRUE
                 /\ runs[r].kind \in {"handle", "scan"} =>
                      runs'[r].whole = runs[r].whole /\ runs'[r].turns = runs[r].turns
                 /\ runs[r].kind = "poll" =>
                      runs'[r].index = runs[r].index /\ runs'[r].todo = runs[r].todo
<1> DEFINE next == [runs[r] EXCEPT !.old = TRUE]
<1>1. runs'[r] = IF runs[r].kind = "idle" THEN Idle ELSE next
  BY DEF Reset, Is
<1>2. runs[r] \in RunSet
  BY RunIs
<1>3. CASE runs[r].kind = "idle"
  BY <1>1, <1>2, <1>3, KindIs, IdleIs
<1>4. CASE runs[r].kind # "idle"
  <2>1. runs[r] # Idle
    BY <1>4, IdleIs
  <2>2. /\ next \in RunSet /\ next.kind = runs[r].kind /\ next.at = runs[r].at
        /\ next.chat = runs[r].chat /\ next.old = TRUE
        /\ runs[r].kind \in {"handle", "scan"} =>
             next.whole = runs[r].whole /\ next.turns = runs[r].turns
        /\ runs[r].kind = "poll" => next.index = runs[r].index /\ next.todo = runs[r].todo
    BY <1>2, <2>1, OldIs
  <2> HIDE DEF next
  <2> QED BY <1>1, <1>4, <2>2
<1> QED BY <1>3, <1>4

-----------------------------------------------------------------------------
(* The steps keep the types                                                *)

LEMMA RunsTyped ==
    ASSUME NEW r, Moves(r)
    PROVE  runs' \in [Runs -> {Idle} \union HandleRuns \union ScanRuns \union PollRuns]
BY DEF Moves, RunSet

LEMMA NewestTyped ==
    ASSUME TypeOK, NEW c \in Chats, NEW newest \in 0 .. MaxTurns, NewestTurn(c, newest) \/ Unmoved
    PROVE  /\ latest' \in [Chats -> None .. MaxTurns] /\ base' \in [Chats -> None .. MaxTurns]
           /\ touches' \in [Chats -> 0 .. MaxTurns + 1]
<1>1. newest \in None .. MaxTurns /\ MaxTurns \in Nat
  BY WatchAssumption DEF None
<1>2. CASE Unmoved
  BY <1>2 DEF Unmoved, TypeOK
<1>3. CASE Baseline(c, newest)
  BY <1>1, <1>3 DEF Baseline, TypeOK
<1>4. CASE Touch(c, newest)
  <2>1. touches[c] \in 0 .. MaxTurns + 1
    BY DEF TypeOK
  <2> DEFINE more == IF touches[c] = MaxTurns + 1 THEN touches[c] ELSE touches[c] + 1
  <2>2. more \in 0 .. MaxTurns + 1
    BY <1>1, <2>1
  <2>3. touches' = [touches EXCEPT ![c] = more]
    BY <1>4 DEF Touch
  <2> HIDE DEF more
  <2> QED BY <1>1, <1>4, <2>2, <2>3 DEF Touch, TypeOK
<1> QED BY <1>2, <1>3, <1>4 DEF NewestTurn

LEMMA TypeAnnounces ==
    ASSUME TypeOK, NEW r \in Runs, Announced(r) \/ AnnounceFails(r)
    PROVE  TypeOK'
<1> USE DEF editor, watcher, bridge, history
<1>1. runs' \in [Runs -> {Idle} \union HandleRuns \union ScanRuns \union PollRuns]
      /\ runs[r].chat \in Chats
  BY AnnounceEndsIs, RunsTyped
<1>2. CASE Announced(r)
  <2> DEFINE c == runs[r].chat
             more == IF announcements[c] = 2 THEN 2 ELSE announcements[c] + 1
  <2>1. announcements[c] \in 0 .. 2
    BY <1>1 DEF TypeOK
  <2>2. more \in 0 .. 2
    BY <2>1
  <2>3. announcements' = [announcements EXCEPT ![c] = more]
    BY <1>2 DEF Announced
  <2>4. announcements' \in [Chats -> 0 .. 2]
    <3> HIDE DEF more, c
    <3> QED BY <2>2, <2>3 DEF TypeOK
  <2>5. threads' \subseteq Transcripts /\ notified' \in [Transcripts -> 0 .. MaxTurns]
    BY <1>1, <1>2 DEF Announced, TypeOK, Chats
  <2> QED BY <1>1, <1>2, <2>4, <2>5 DEF Announced, TypeOK
<1>3. CASE AnnounceFails(r)
  <2>1. announced' \subseteq Chats /\ seen' \subseteq Chats
    BY <1>3 DEF AnnounceFails, TypeOK
  <2>2. events' \in 0 .. MaxEvents
    BY <1>3, WatchAssumption DEF AnnounceFails, Fault, Event, TypeOK
  <2>3. UNCHANGED <<editor, enabled, due, pending, scans, latest, bridge, history>>
    BY <1>3 DEF AnnounceFails
  <2> QED BY <1>1, <2>1, <2>2, <2>3 DEF TypeOK
<1> QED BY <1>2, <1>3

LEMMA TypeHandles ==
    ASSUME TypeOK, Handles
    PROVE  TypeOK'
<1> USE DEF editor, watcher, bridge, history
<1>1. ASSUME NEW c \in Transcripts, Schedule(c) PROVE TypeOK'
  BY <1>1 DEF Schedule, TypeOK
<1>2. ASSUME NEW r \in Runs, NEW c \in Transcripts, Handle(r, c) PROVE TypeOK'
  <2>1. runs' \in [Runs -> {Idle} \union HandleRuns \union ScanRuns \union PollRuns]
    BY <1>2, HandleIs, RunsTyped DEF TypeOK
  <2> QED BY <1>2, <2>1 DEF Handle, TypeOK
<1>3. ASSUME NEW r \in Runs, Unreadable(r) PROVE TypeOK'
  <2>1. runs' \in [Runs -> {Idle} \union HandleRuns \union ScanRuns \union PollRuns]
    BY <1>3, EndsIs, RunsTyped
  <2> QED BY <1>3, <2>1, WatchAssumption DEF Unreadable, Fault, Event, TypeOK
<1>4. ASSUME NEW r \in Runs, Readable(r) PROVE TypeOK'
  <2>1. runs' \in [Runs -> {Idle} \union HandleRuns \union ScanRuns \union PollRuns]
        /\ runs[r].chat \in Chats /\ announced' \subseteq Chats
    BY <1>4, ReadableIs, RunsTyped, SMTT(30) DEF TypeOK, Chats
  <2> QED BY <1>4, <2>1 DEF Readable, TypeOK
<1> QED BY <1>1, <1>2, <1>3, <1>4 DEF Handles

LEMMA TypeScans ==
    ASSUME TypeOK, ScansTurns
    PROVE  TypeOK'
<1> USE DEF editor, watcher, bridge, history
<1>1. ASSUME NEW r \in Runs, NEW c \in Transcripts, Scan(r, c) PROVE TypeOK'
  <2>1. runs' \in [Runs -> {Idle} \union HandleRuns \union ScanRuns \union PollRuns]
    BY <1>1, ScanIs, RunsTyped
  <2> QED BY <1>1, <2>1 DEF Scan, TypeOK
<1>2. ASSUME NEW r \in Runs, ScanFails(r) PROVE TypeOK'
  <2>1. runs' \in [Runs -> {Idle} \union HandleRuns \union ScanRuns \union PollRuns]
    BY <1>2, EndsIs, RunsTyped
  <2> QED BY <1>2, <2>1, WatchAssumption DEF ScanFails, Fault, Event, TypeOK
<1>3. ASSUME NEW r \in Runs, ScanCompares(r) \/ Passes(r) \/ Posts(r) \/ PostEnds(r)
      PROVE  TypeOK'
  <2>1. runs' \in [Runs -> {Idle} \union HandleRuns \union ScanRuns \union PollRuns]
    BY <1>3, ScanGoesOn, RunsTyped
  <2>2. runs[r] \in ScanRuns
    BY <1>3, ScanGoesOn
  <2>3. /\ runs[r].chat \in Transcripts /\ runs[r].chat \in Chats /\ runs[r].turns \in 0 .. MaxTurns
        /\ runs[r].at = "reporting" => runs[r].next \in Turns
    BY <2>2, WatchAssumption DEF ScanRuns, TextRuns, Chats, Turns
  <2>4. CASE ScanCompares(r)
    <3>1. /\ latest' \in [Chats -> None .. MaxTurns] /\ base' \in [Chats -> None .. MaxTurns]
          /\ touches' \in [Chats -> 0 .. MaxTurns + 1]
      BY <2>3, <2>4, NewestTyped DEF ScanCompares
    <3> QED BY <2>1, <2>4, <3>1 DEF ScanCompares, TypeOK
  <2>5. CASE Passes(r)
    <3>1. ids' \in [Transcripts -> Seq(Turns)] /\ \A d \in Transcripts : Len(ids'[d]) <= MaxPosted
      BY <2>3, <2>5, RecordIs DEF Passes, Reports, TypeOK
    <3> QED BY <2>1, <2>5, <3>1 DEF Passes, TypeOK
  <2>6. CASE Posts(r)
    <3> DEFINE c == runs[r].chat
               t == runs[r].next
               more == IF summaries[c][t] = 2 THEN 2 ELSE summaries[c][t] + 1
    <3>1. c \in Transcripts /\ t \in Turns
      BY <2>3, <2>6 DEF Posts, Posting, Reports
    <3>2. ids' \in [Transcripts -> Seq(Turns)] /\ \A d \in Transcripts : Len(ids'[d]) <= MaxPosted
      BY <2>6, <3>1, RecordIs DEF Posts
    <3>3. more \in 0 .. 2
      <4>1. summaries[c][t] \in 0 .. 2
        BY <3>1 DEF TypeOK
      <4> QED BY <4>1
    <3>4. summaries' = [summaries EXCEPT ![c][t] = more]
      BY <2>6 DEF Posts, Posting
    <3>5. summaries' \in [Transcripts -> [Turns -> 0 .. 2]]
      <4> HIDE DEF c, t, more
      <4> QED BY <3>1, <3>3, <3>4 DEF TypeOK
    <3> QED BY <2>1, <2>6, <3>2, <3>5 DEF Posts, Posting, TypeOK
  <2>7. CASE PostEnds(r)
    BY <2>1, <2>7 DEF PostEnds, TypeOK
  <2> QED BY <1>3, <2>4, <2>5, <2>6, <2>7
<1> QED BY <1>1, <1>2, <1>3 DEF ScansTurns

LEMMA TypePolls ==
    ASSUME TypeOK, PollsHosts
    PROVE  TypeOK'
<1> USE DEF editor, watcher, bridge, history
<1>1. ASSUME NEW r \in Runs, Poll(r) PROVE TypeOK'
  <2>1. runs' \in [Runs -> {Idle} \union HandleRuns \union ScanRuns \union PollRuns]
    BY <1>1, PollIs, RunsTyped
  <2> QED BY <1>1, <2>1 DEF Poll, TypeOK
<1>2. ASSUME NEW r \in Runs, NEW h \in Hosts, PollTouches(r, h) PROVE TypeOK'
  <2>1. runs' \in [Runs -> {Idle} \union HandleRuns \union ScanRuns \union PollRuns]
    BY <1>2, PollTouchesIs, RunsTyped
  <2>2. runs[r].index[h] \in 0 .. MaxTurns /\ h \in Chats
    BY <1>2, PollsIs DEF PollTouches, Chats
  <2>3. /\ latest' \in [Chats -> None .. MaxTurns] /\ base' \in [Chats -> None .. MaxTurns]
        /\ touches' \in [Chats -> 0 .. MaxTurns + 1]
    BY <1>2, <2>2, NewestTyped DEF PollTouches
  <2> QED BY <1>2, <2>1, <2>3 DEF PollTouches, TypeOK
<1>3. ASSUME NEW r \in Runs, NEW h \in Hosts, PollAnnounces(r, h) PROVE TypeOK'
  <2>1. runs' \in [Runs -> {Idle} \union HandleRuns \union ScanRuns \union PollRuns]
        /\ (announced' \in {announced, announced \union {h}})
    BY <1>3, PollAnnouncesIs, RunsTyped
  <2>2. runs[r].index[h] \in 0 .. MaxTurns /\ h \in Chats
    BY <1>3, PollsIs DEF PollAnnounces, Chats
  <2>3. runs[r].index[h] \in None .. MaxTurns
    BY <2>2 DEF None
  <2>4. latest' \in [Chats -> None .. MaxTurns] /\ base' \in [Chats -> None .. MaxTurns]
    BY <1>3, <2>2, <2>3 DEF PollAnnounces, TypeOK
  <2> QED BY <1>3, <2>1, <2>2, <2>4 DEF PollAnnounces, TypeOK
<1> QED BY <1>1, <1>2, <1>3 DEF PollsHosts

LEMMA TypeReset ==
    ASSUME TypeOK, Reset
    PROVE  TypeOK'
<1> USE DEF editor
<1>1. runs' \in [Runs -> {Idle} \union HandleRuns \union ScanRuns \union PollRuns]
  <2>1. \A r \in Runs : runs'[r] \in RunSet
    BY ResetIs
  <2>2. runs' = [r \in Runs |-> runs'[r]]
    BY DEF Reset
  <2> QED BY <2>1, <2>2 DEF RunSet
<1>2. PICK S \in Seedings : Seeds(S)
  BY DEF Reset
<1>3. S \subseteq Chats
  BY <1>2 DEF Seedings
<1>4. /\ seen' \subseteq Chats /\ existing' \subseteq Chats
      /\ latest' \in [Chats -> None .. MaxTurns] /\ base' \in [Chats -> None .. MaxTurns]
  BY <1>2, <1>3, WatchAssumption DEF Seeds, TypeOK, None
<1>5. ids' \in [Transcripts -> Seq(Turns)] /\ \A c \in Transcripts : Len(ids'[c]) <= MaxPosted
  <2>1. << >> \in Seq(Turns) /\ Len(<< >>) = 0
    OBVIOUS
  <2> QED BY <2>1, WatchAssumption DEF Reset
<1>6. crossed' \subseteq Chats
  BY DEF Reset, Handled
<1> QED BY <1>1, <1>4, <1>5, <1>6, WatchAssumption DEF Reset, Event, TypeOK

LEMMA TypeNext ==
    ASSUME TypeOK, [Next]_vars
    PROVE  TypeOK'
<1>1. CASE ConfigChanges
  BY <1>1, WatchAssumption
     DEF ConfigChanges, Event, Handled, TypeOK, editor, watcher, bridge, history
<1> QED BY <1>1, TypeEditor, TypeAnnounces, TypeHandles, TypeScans, TypePolls, TypeReset,
           TypeUnchanged DEF Next, Announces

(* Every variable keeps its type: an activation is one of handle(),        *)
(* scanTurns() or poll() at one of its awaits, only turns the transcript   *)
(* can hold are recorded as posted, and that list keeps its limit.         *)
THEOREM WatchTypeCorrect == Spec => []TypeOK
BY TypeInit, TypeNext, PTL DEF Spec

-----------------------------------------------------------------------------
(* What an activation read is no newer than the chat                       *)

Behind(run, most) ==
    /\ run.kind \in {"handle", "scan"} =>
         run.whole <= most[run.chat] /\ run.turns <= most[run.chat]
    /\ run.kind = "poll" => \A h \in run.todo : run.index[h] <= most[h]

Consistent ==
    /\ \A c \in Chats : whole[c] <= turns[c]
    /\ \A r \in Runs : Behind(runs[r], turns)

LEMMA TurnsTyped ==
    ASSUME TypeOK, NEW c \in Chats
    PROVE  turns[c] \in 0 .. MaxTurns /\ turns[c] \in Nat /\ MaxTurns \in Nat
BY WatchAssumption DEF TypeOK

LEMMA TextIs ==
    ASSUME NEW run \in RunSet, run.kind \in {"handle", "scan"}
    PROVE  /\ run.chat \in Transcripts /\ run.chat \in Chats
           /\ run.whole \in 0 .. MaxTurns /\ run.turns \in 0 .. MaxTurns
BY KindIs DEF HandleRuns, ScanRuns, TextRuns, Chats

LEMMA PollHas ==
    ASSUME NEW run \in RunSet, run.kind = "poll", NEW h \in run.todo
    PROVE  h \in Hosts /\ h \in Chats /\ run.index[h] \in 0 .. MaxTurns
<1>1. run.index \in Indexes /\ h \in DOMAIN run.index
  BY KindIs DEF PollRuns, Indexes
<1> QED BY <1>1, IndexIs DEF Chats

LEMMA TurnsGrow ==
    ASSUME TypeOK, Consistent, [Next]_vars
    PROVE  \A c \in Chats : turns[c] <= turns'[c] /\ whole'[c] <= turns'[c]
<1> USE DEF editor, watcher, bridge, history
<1>1. CASE UNCHANGED <<turns, whole>>
  BY <1>1, TurnsTyped DEF Consistent
<1>2. ASSUME NEW c \in Chats, Ask(c) \/ Answered(c) PROVE
      \A d \in Chats : turns[d] <= turns'[d] /\ whole'[d] <= turns'[d]
  <2>1. \A d \in Chats : turns[d] \in Nat /\ whole[d] \in Nat /\ whole[d] <= turns[d]
    BY WatchAssumption DEF TypeOK, Consistent
  <2>2. \/ turns' = [turns EXCEPT ![c] = turns[c] + 1] /\ whole' = whole
        \/ turns' = turns /\ whole' = [whole EXCEPT ![c] = turns[c]]
    BY <1>2 DEF Ask, Answered
  <2>3. turns \in [Chats -> 0 .. MaxTurns] /\ whole \in [Chats -> 0 .. MaxTurns]
    BY DEF TypeOK
  <2> QED BY <2>1, <2>2, <2>3
<1>3. CASE Editor
  BY <1>1, <1>2, <1>3 DEF Editor, Rewritten, ToolNotifies, Archives
<1>4. CASE Announces
  BY <1>1, <1>4 DEF Announces, Announced, AnnounceFails
<1>5. CASE Handles
  BY <1>1, <1>5 DEF Handles, Schedule, Handle, Unreadable, Readable
<1>6. CASE ScansTurns
  BY <1>1, <1>6 DEF ScansTurns, Scan, ScanFails, ScanCompares, Passes, Posts, Posting, PostEnds
<1>7. CASE PollsHosts
  BY <1>1, <1>7 DEF PollsHosts, Poll, PollTouches, PollAnnounces
<1>8. CASE ConfigChanges \/ Reset \/ UNCHANGED vars
  BY <1>1, <1>8 DEF ConfigChanges, Reset, vars
<1> QED BY <1>3, <1>4, <1>5, <1>6, <1>7, <1>8 DEF Next

LEMMA OneBehind ==
    ASSUME Consistent, NEW r \in Runs, Unchanged(r), Behind(runs'[r], turns)
    PROVE  \A q \in Runs : Behind(runs'[q], turns)
BY DEF Consistent, Unchanged

LEMMA IdleBehind == Behind(Idle, turns)
BY IdleIs DEF Behind

LEMMA RunsBehind ==
    ASSUME TypeOK, Consistent, [Next]_vars
    PROVE  \A q \in Runs : Behind(runs'[q], turns)
<1> USE DEF editor, watcher, bridge, history
<1>1. CASE UNCHANGED runs
  BY <1>1 DEF Consistent
<1>2. CASE Editor
  BY <1>1, <1>2 DEF Editor, Ask, Answered, Rewritten, ToolNotifies, Archives
<1>3. ASSUME NEW r \in Runs, Announced(r) \/ AnnounceFails(r)
      PROVE  \A q \in Runs : Behind(runs'[q], turns)
  <2>1. Behind(runs'[r], turns)
    BY <1>3, AnnounceEndsIs, IdleBehind DEF Consistent, Behind
  <2> QED BY <1>3, <2>1, AnnounceEndsIs, OneBehind DEF Moves
<1>4. CASE Handles
  <2>1. ASSUME NEW c \in Transcripts, Schedule(c) PROVE UNCHANGED runs
    BY <2>1 DEF Schedule
  <2>2. ASSUME NEW r \in Runs, NEW c \in Transcripts, Handle(r, c)
        PROVE  \A q \in Runs : Behind(runs'[q], turns)
    <3>1. CASE UNCHANGED runs
      BY <1>1, <3>1
    <3>2. CASE ~ UNCHANGED runs
      <4>1. c \in Chats /\ turns[c] \in Nat /\ whole[c] <= turns[c]
        BY TurnsTyped DEF Consistent, Chats
      <4>2. /\ runs'[r].kind = "handle" /\ runs'[r].chat = c
            /\ runs'[r].turns = turns[c] /\ runs'[r].whole = whole[c]
        BY <2>2, <3>2, HandleIs
      <4>3. Behind(runs'[r], turns)
        BY <4>1, <4>2 DEF Behind
      <4> QED BY <2>2, <3>2, <4>3, HandleIs, OneBehind DEF Moves
    <3> QED BY <3>1, <3>2
  <2>3. ASSUME NEW r \in Runs, Unreadable(r) PROVE \A q \in Runs : Behind(runs'[q], turns)
    BY <2>3, EndsIs, IdleBehind, OneBehind DEF Moves
  <2>4. ASSUME NEW r \in Runs, Readable(r) PROVE \A q \in Runs : Behind(runs'[q], turns)
    <3>1. runs[r].chat \in Chats /\ turns[runs[r].chat] \in Nat
      BY <2>4, ReadableIs, TurnsTyped DEF Chats
    <3>2. Behind(runs'[r], turns)
      BY <2>4, <3>1, ReadableIs, IdleBehind DEF Consistent, Behind
    <3> QED BY <2>4, <3>2, ReadableIs, OneBehind DEF Moves
  <2> QED BY <1>1, <1>4, <2>1, <2>2, <2>3, <2>4 DEF Handles
<1>5. CASE ScansTurns
  <2>1. ASSUME NEW r \in Runs, NEW c \in Transcripts, Scan(r, c)
        PROVE  \A q \in Runs : Behind(runs'[q], turns)
    <3>1. c \in Chats /\ turns[c] \in Nat /\ whole[c] <= turns[c]
      BY TurnsTyped DEF Consistent, Chats
    <3>2. /\ runs'[r].kind = "scan" /\ runs'[r].chat = c
          /\ runs'[r].turns = turns[c] /\ runs'[r].whole = whole[c]
      BY <2>1, ScanIs
    <3>3. Behind(runs'[r], turns)
      BY <3>1, <3>2 DEF Behind
    <3> QED BY <2>1, <3>3, ScanIs, OneBehind DEF Moves
  <2>2. ASSUME NEW r \in Runs, ScanFails(r) PROVE \A q \in Runs : Behind(runs'[q], turns)
    BY <2>2, EndsIs, IdleBehind, OneBehind DEF Moves
  <2>3. ASSUME NEW r \in Runs, ScanCompares(r) \/ Passes(r) \/ Posts(r) \/ PostEnds(r)
        PROVE  \A q \in Runs : Behind(runs'[q], turns)
    <3>1. runs[r] \in RunSet /\ runs[r].kind = "scan"
      BY <2>3, RunIs, ScanGoesOn
    <3>2. turns[runs[r].chat] \in Nat
      BY <3>1, TextIs, TurnsTyped
    <3>3. Behind(runs'[r], turns)
      BY <2>3, <3>1, <3>2, ScanGoesOn, IdleBehind DEF Consistent, Behind
    <3> QED BY <2>3, <3>3, ScanGoesOn, OneBehind DEF Moves
  <2> QED BY <1>5, <2>1, <2>2, <2>3 DEF ScansTurns
<1>6. CASE PollsHosts
  <2>1. ASSUME NEW r \in Runs, Poll(r) PROVE \A q \in Runs : Behind(runs'[q], turns)
    <3>1. \A h \in listed : Index[h] = turns[h] /\ turns[h] \in Nat
      BY TurnsTyped DEF Index, TypeOK, Chats
    <3>2. runs'[r].kind = "poll" /\ runs'[r].index = Index /\ runs'[r].todo = listed
      BY <2>1, PollIs
    <3>3. Behind(runs'[r], turns)
      BY <3>1, <3>2 DEF Behind
    <3> QED BY <2>1, <3>3, PollIs, OneBehind DEF Moves
  <2>2. ASSUME NEW r \in Runs, NEW h \in Hosts, PollTouches(r, h)
        PROVE  \A q \in Runs : Behind(runs'[q], turns)
    <3>1. runs[r].kind = "poll"
      BY <2>2, PollsIs DEF PollTouches
    <3>2. Behind(runs'[r], turns)
      BY <2>2, <3>1, PollTouchesIs, IdleBehind DEF Consistent, Behind
    <3> QED BY <2>2, <3>2, PollTouchesIs, OneBehind DEF Moves
  <2>3. ASSUME NEW r \in Runs, NEW h \in Hosts, PollAnnounces(r, h)
        PROVE  \A q \in Runs : Behind(runs'[q], turns)
    <3>1. runs[r].kind = "poll"
      BY <2>3, PollsIs DEF PollAnnounces
    <3>2. Behind(runs'[r], turns)
      BY <2>3, <3>1, PollAnnouncesIs, IdleBehind DEF Consistent, Behind
    <3> QED BY <2>3, <3>2, PollAnnouncesIs, OneBehind DEF Moves
  <2> QED BY <1>6, <2>1, <2>2, <2>3 DEF PollsHosts
<1>7. CASE Reset
  <2> SUFFICES ASSUME NEW q \in Runs PROVE Behind(runs'[q], turns)
    OBVIOUS
  <2> QED BY <1>7, ResetIs, IdleBehind DEF Consistent, Behind
<1>8. CASE ConfigChanges \/ UNCHANGED vars
  BY <1>1, <1>8 DEF ConfigChanges, vars
<1> QED BY <1>2, <1>3, <1>4, <1>5, <1>6, <1>7, <1>8 DEF Next, Announces

LEMMA BehindGrows ==
    ASSUME TypeOK, TypeOK', NEW run \in RunSet, Behind(run, turns),
           \A c \in Chats : turns[c] <= turns'[c]
    PROVE  Behind(run, turns')
<1>1. \A c \in Chats : turns[c] \in Nat /\ turns'[c] \in Nat /\ MaxTurns \in Nat
  BY WatchAssumption DEF TypeOK
<1>2. CASE run.kind \in {"handle", "scan"}
  BY <1>1, <1>2, TextIs DEF Behind
<1>3. CASE run.kind = "poll"
  <2> SUFFICES ASSUME NEW h \in run.todo PROVE run.index[h] <= turns'[h]
    BY <1>3 DEF Behind
  <2>1. run.index[h] <= turns[h]
    BY <1>3 DEF Behind
  <2>2. h \in Chats /\ run.index[h] \in 0 .. MaxTurns
    BY <1>3, PollHas
  <2> QED BY <1>1, <2>1, <2>2
<1>4. CASE run.kind = "idle"
  BY <1>4 DEF Behind
<1> QED BY <1>2, <1>3, <1>4, KindIs

LEMMA ConsistentNext ==
    ASSUME TypeOK, TypeOK', Consistent, [Next]_vars
    PROVE  Consistent'
<1>1. \A c \in Chats : turns[c] <= turns'[c] /\ whole'[c] <= turns'[c]
  BY TurnsGrow
<1>2. ASSUME NEW q \in Runs PROVE Behind(runs'[q], turns')
  <2>1. runs'[q] \in RunSet
    BY DEF TypeOK, RunSet
  <2> QED BY <1>1, <2>1, RunsBehind, BehindGrows
<1> QED BY <1>1, <1>2 DEF Consistent

LEMMA ConsistentInit ==
    ASSUME Init
    PROVE  Consistent
<1>1. \A c \in Chats : whole[c] <= turns[c]
  BY DEF Init
<1>2. \A r \in Runs : runs[r] = Idle
  BY DEF Init
<1> QED BY <1>1, <1>2, IdleBehind DEF Consistent

-----------------------------------------------------------------------------
(* Posted turns                                                            *)

(* While the list of posted turns can hold all turns of the transcript, it *)
(* holds each turn that was posted, and none of them twice: it is never    *)
(* cut, so that none is forgotten.                                         *)
PostedFor(c) ==
    turns[c] <= MaxPosted =>
        /\ \A t \in Turns : summaries[c][t] <= 1 /\ (summaries[c][t] = 1 => Recorded(c, t))
        /\ \A i \in DOMAIN ids[c] : ids[c][i] <= turns[c]
        /\ \A i, j \in DOMAIN ids[c] : ids[c][i] = ids[c][j] => i = j

PostedInv == \A c \in Transcripts : PostedFor(c)

LEMMA IdsTyped ==
    ASSUME TypeOK, NEW c \in Transcripts
    PROVE  /\ ids[c] \in Seq(Turns) /\ Len(ids[c]) \in Nat /\ DOMAIN ids[c] = 1 .. Len(ids[c])
           /\ \A i \in 1 .. Len(ids[c]) : ids[c][i] \in Turns
BY DEF TypeOK

LEMMA UpTo ==
    ASSUME NEW n \in Nat
    PROVE  IsFiniteSet(1 .. n) /\ Cardinality(1 .. n) = n
<1>1. IsFiniteSet(1 .. n) /\ Cardinality(1 .. n) = (IF 1 > n THEN 0 ELSE n - 1 + 1)
  BY FS_Interval
<1> QED BY <1>1

LEMMA RoomToRecord ==
    ASSUME TypeOK, NEW c \in Transcripts, NEW t \in Turns, t <= turns[c], turns[c] <= MaxPosted,
           ~Recorded(c, t), PostedFor(c)
    PROVE  Len(ids[c]) < MaxPosted
<1> DEFINE n == Len(ids[c])
           all == [i \in 1 .. n + 1 |-> IF i <= n THEN ids[c][i] ELSE t]
<1>1. /\ n \in Nat /\ DOMAIN ids[c] = 1 .. n /\ \A i \in 1 .. n : ids[c][i] \in Turns
      /\ turns[c] \in Nat
  BY IdsTyped, TurnsTyped DEF Chats
<1>2. all \in [1 .. n + 1 -> 1 .. turns[c]]
  BY <1>1 DEF PostedFor, Turns
<1>3. ASSUME NEW x \in 1 .. n + 1, NEW y \in 1 .. n + 1, all[x] = all[y] PROVE x = y
  <2>1. \A i \in 1 .. n : ids[c][i] # t
    BY <1>1 DEF Recorded
  <2>2. \A i, j \in 1 .. n : ids[c][i] = ids[c][j] => i = j
    BY <1>1 DEF PostedFor
  <2> HIDE DEF n
  <2> QED BY <1>1, <1>3, <2>1, <2>2
<1>4. /\ IsFiniteSet(1 .. n + 1) /\ Cardinality(1 .. n + 1) = n + 1
      /\ IsFiniteSet(1 .. turns[c]) /\ Cardinality(1 .. turns[c]) = turns[c]
  <2> HIDE DEF n
  <2>1. n + 1 \in Nat
    BY <1>1
  <2> QED BY <1>1, <2>1, UpTo
<1> HIDE DEF all, n
<1>5. ~ (turns[c] < n + 1)
  <2> SUFFICES ASSUME turns[c] < n + 1 PROVE FALSE
    OBVIOUS
  <2> DEFINE S == 1 .. n + 1
             T == 1 .. turns[c]
  <2>1. /\ IsFiniteSet(S) /\ IsFiniteSet(T) /\ Cardinality(T) < Cardinality(S)
        /\ all \in [S -> T]
    BY <1>2, <1>4
  <2> HIDE DEF S, T
  <2>2. \E x, y \in S : x # y /\ all[x] = all[y]
    BY <2>1, FS_PigeonHole
  <2> QED BY <1>3, <2>2 DEF S
<1>6. n < MaxPosted
  BY <1>1, <1>5, WatchAssumption
<1> QED BY <1>6 DEF n

LEMMA RecordKeeps ==
    ASSUME TypeOK, NEW c \in Transcripts, NEW t \in Turns, t <= turns[c], turns[c] <= MaxPosted,
           ~Recorded(c, t), PostedFor(c), Record(c, t)
    PROVE  /\ Recorded(c, t)' /\ \A u \in Turns : Recorded(c, u) => Recorded(c, u)'
           /\ \A i \in DOMAIN ids'[c] : ids'[c][i] <= turns[c]
           /\ \A i, j \in DOMAIN ids'[c] : ids'[c][i] = ids'[c][j] => i = j
<1> DEFINE old == ids[c]
           new == ids'[c]
           n == Len(old)
<1>1. new = Append(old, t)
  BY RoomToRecord, RecordIs
<1>2. /\ old \in Seq(Turns) /\ n \in Nat /\ DOMAIN old = 1 .. n
      /\ \A i \in 1 .. n : old[i] \in Turns
  BY IdsTyped
<1>3. /\ DOMAIN new = 1 .. n + 1 /\ new[n + 1] = t /\ \A i \in 1 .. n : new[i] = old[i]
  <2> HIDE DEF old, new
  <2> QED BY <1>1, <1>2 DEF n
<1>4. /\ \A i \in 1 .. n : old[i] # t /\ old[i] <= turns[c]
      /\ \A i, j \in 1 .. n : old[i] = old[j] => i = j
  BY <1>2 DEF Recorded, PostedFor
<1>5. Recorded(c, t)' /\ \A u \in Turns : Recorded(c, u) => Recorded(c, u)'
  <2>1. n + 1 \in DOMAIN new /\ \A i \in DOMAIN old : i \in DOMAIN new /\ new[i] = old[i]
    <3> HIDE DEF n, old, new
    <3> QED BY <1>2, <1>3
  <2> QED BY <1>3, <2>1 DEF Recorded
<1> HIDE DEF old, new, n
<1>6. /\ \A i \in DOMAIN new : new[i] <= turns[c]
      /\ \A i, j \in DOMAIN new : new[i] = new[j] => i = j
  BY <1>2, <1>3, <1>4
<1> QED BY <1>5, <1>6 DEF new

LEMMA PostedQuiet ==
    ASSUME TypeOK, TypeOK', NEW c \in Transcripts, PostedFor(c), turns[c] <= turns'[c],
           summaries'[c] = summaries[c], ids'[c] = ids[c]
    PROVE  PostedFor(c)'
<1>1. turns[c] \in Nat /\ turns'[c] \in Nat /\ MaxPosted \in Nat
  BY WatchAssumption DEF TypeOK, Chats
<1>2. DOMAIN ids[c] = 1 .. Len(ids[c]) /\ \A i \in DOMAIN ids[c] : ids[c][i] \in Nat
  BY IdsTyped DEF Turns
<1>3. CASE turns'[c] <= MaxPosted
  BY <1>1, <1>2, <1>3 DEF PostedFor, Recorded
<1> QED BY <1>3 DEF PostedFor

(* What a scan reports is a turn the transcript holds. *)
LEMMA ReportIs ==
    ASSUME TypeOK, Consistent, NEW r \in Runs, Reports(r)
    PROVE  /\ runs[r].chat \in Transcripts /\ runs[r].next \in Turns
           /\ runs[r].next <= turns[runs[r].chat]
<1>1. runs[r] \in ScanRuns /\ runs[r] \in RunSet /\ runs[r].at = "reporting" /\ runs[r].kind = "scan"
  BY RunIs, KindIs DEF Reports, Is
<1>2. runs[r].next \in 1 .. MaxTurns + 1 /\ runs[r].next <= runs[r].whole
  BY <1>1 DEF ScanRuns, TextRuns
<1>3. /\ runs[r].chat \in Transcripts /\ runs[r].chat \in Chats
      /\ runs[r].whole \in 0 .. MaxTurns
  BY <1>1, TextIs
<1>4. runs[r].whole <= turns[runs[r].chat] /\ turns[runs[r].chat] \in Nat /\ MaxTurns \in Nat
  BY <1>1, <1>3, TurnsTyped DEF Consistent, Behind
<1> QED BY <1>2, <1>3, <1>4 DEF Turns

LEMMA PassesKeeps ==
    ASSUME TypeOK, TypeOK', Consistent, PostedInv, NEW r \in Runs, Passes(r)
    PROVE  PostedInv'
<1> PICK c \in Transcripts, t \in Turns : c = runs[r].chat /\ t = runs[r].next
  BY ReportIs DEF Passes
<1>1. c \in Transcripts /\ t \in Turns /\ t <= turns[c]
  BY ReportIs DEF Passes
<1>2. turns' = turns /\ summaries' = summaries
  BY DEF Passes, editor, history
<1>3. \/ UNCHANGED ids
      \/ ~Recorded(c, t) /\ Record(c, t)
  BY DEF Passes
<1>4. \A d \in Transcripts : turns[d] <= turns'[d]
  BY <1>2, TurnsTyped DEF Chats
<1>5. CASE UNCHANGED ids
  BY <1>2, <1>4, <1>5, PostedQuiet DEF PostedInv
<1>6. CASE ~Recorded(c, t) /\ Record(c, t)
  <2>1. ASSUME NEW d \in Transcripts \ {c} PROVE PostedFor(d)'
    BY <1>1, <1>2, <1>4, <1>6, <2>1, RecordIs, PostedQuiet DEF PostedInv
  <2>2. PostedFor(c)'
    <3> SUFFICES ASSUME turns[c] <= MaxPosted PROVE PostedFor(c)'
      BY <1>2 DEF PostedFor
    <3>1. PostedFor(c)
      BY <1>1 DEF PostedInv
    <3>2. /\ \A u \in Turns : Recorded(c, u) => Recorded(c, u)'
          /\ \A i \in DOMAIN ids'[c] : ids'[c][i] <= turns[c]
          /\ \A i, j \in DOMAIN ids'[c] : ids'[c][i] = ids'[c][j] => i = j
      BY <1>1, <1>6, <3>1, RecordKeeps
    <3>3. \A u \in Turns : summaries'[c][u] <= 1 /\ (summaries'[c][u] = 1 => Recorded(c, u)')
      BY <1>2, <3>1, <3>2 DEF PostedFor
    <3> QED BY <1>2, <3>2, <3>3 DEF PostedFor
  <2> QED BY <1>1, <2>1, <2>2 DEF PostedInv
<1> QED BY <1>3, <1>5, <1>6

LEMMA PostsKeeps ==
    ASSUME TypeOK, TypeOK', Consistent, PostedInv, NEW r \in Runs, Posts(r)
    PROVE  PostedInv'
<1> PICK c \in Transcripts, t \in Turns : c = runs[r].chat /\ t = runs[r].next
  BY ReportIs DEF Posts, Posting
<1> DEFINE more == IF summaries[c][t] = 2 THEN 2 ELSE summaries[c][t] + 1
<1>1. c \in Transcripts /\ t \in Turns /\ t <= turns[c]
  BY ReportIs DEF Posts, Posting
<1>2. /\ turns' = turns /\ ~Recorded(c, t) /\ Record(c, t)
      /\ summaries' = [summaries EXCEPT ![c][t] = more]
  BY DEF Posts, Posting, editor
<1>3. \A d \in Transcripts : turns[d] <= turns'[d]
  BY <1>2, TurnsTyped DEF Chats
<1>4. summaries[c][t] \in 0 .. 2
  BY <1>1 DEF TypeOK
<1>5. summaries \in [Transcripts -> [Turns -> 0 .. 2]]
  BY DEF TypeOK
<1>6. summaries[c][t] = 0 => more = 1
  OBVIOUS
<1> HIDE DEF more
<1>7. /\ summaries'[c][t] = more /\ \A u \in Turns \ {t} : summaries'[c][u] = summaries[c][u]
      /\ \A d \in Transcripts \ {c} : summaries'[d] = summaries[d]
  BY <1>1, <1>2, <1>5
<1>8. ASSUME NEW d \in Transcripts \ {c} PROVE PostedFor(d)'
  BY <1>1, <1>2, <1>3, <1>7, <1>8, RecordIs, PostedQuiet DEF PostedInv
<1>9. PostedFor(c)'
  <2> SUFFICES ASSUME turns[c] <= MaxPosted PROVE PostedFor(c)'
    BY <1>2 DEF PostedFor
  <2>1. PostedFor(c)
    BY <1>1 DEF PostedInv
  <2>2. /\ Recorded(c, t)' /\ \A u \in Turns : Recorded(c, u) => Recorded(c, u)'
        /\ \A i \in DOMAIN ids'[c] : ids'[c][i] <= turns[c]
        /\ \A i, j \in DOMAIN ids'[c] : ids'[c][i] = ids'[c][j] => i = j
    BY <1>1, <1>2, <2>1, RecordKeeps
  <2>3. \A u \in Turns : summaries[c][u] <= 1 /\ (summaries[c][u] = 1 => Recorded(c, u))
    BY <2>1 DEF PostedFor
  <2>4. more = 1
    BY <1>1, <1>2, <1>4, <1>6, <2>3
  <2>5. \A u \in Turns : summaries'[c][u] <= 1 /\ (summaries'[c][u] = 1 => Recorded(c, u)')
    BY <1>7, <2>2, <2>3, <2>4
  <2> QED BY <1>2, <2>2, <2>5 DEF PostedFor
<1> QED BY <1>1, <1>8, <1>9 DEF PostedInv

LEMMA PostedNext ==
    ASSUME TypeOK, TypeOK', Consistent, PostedInv, [Next]_vars
    PROVE  PostedInv'
<1> USE DEF editor, watcher, bridge, history
<1>1. ASSUME UNCHANGED <<summaries, ids>> PROVE PostedInv'
  <2>1. \A c \in Transcripts : turns[c] <= turns'[c]
    BY TurnsGrow DEF Chats
  <2> QED BY <1>1, <2>1, PostedQuiet DEF PostedInv
<1>2. CASE Editor
  BY <1>1, <1>2 DEF Editor, Ask, Answered, Rewritten, ToolNotifies, Archives
<1>3. CASE Announces
  BY <1>1, <1>3 DEF Announces, Announced, AnnounceFails
<1>4. CASE Handles
  BY <1>1, <1>4 DEF Handles, Schedule, Handle, Unreadable, Readable
<1>5. CASE ScansTurns
  BY <1>1, <1>5, PassesKeeps, PostsKeeps DEF ScansTurns, Scan, ScanFails, ScanCompares, PostEnds
<1>6. CASE PollsHosts
  BY <1>1, <1>6 DEF PollsHosts, Poll, PollTouches, PollAnnounces
<1>7. CASE Reset
  <2>1. \A c \in Transcripts : ids'[c] = << >> /\ \A t \in Turns : summaries'[c][t] = 0
    BY <1>7 DEF Reset
  <2>2. DOMAIN << >> = {}
    OBVIOUS
  <2> QED BY <2>1, <2>2 DEF PostedInv, PostedFor
<1>8. CASE ConfigChanges \/ UNCHANGED vars
  BY <1>1, <1>8 DEF ConfigChanges, vars
<1> QED BY <1>2, <1>3, <1>4, <1>5, <1>6, <1>7, <1>8 DEF Next

LEMMA PostedInit ==
    ASSUME Init
    PROVE  PostedInv
<1>1. \A c \in Transcripts : ids[c] = << >> /\ \A t \in Turns : summaries[c][t] = 0
  BY DEF Init
<1>2. DOMAIN << >> = {}
  OBVIOUS
<1> QED BY <1>1, <1>2 DEF PostedInv, PostedFor

LEMMA PostedIsOnce ==
    ASSUME PostedInv
    PROVE  TurnPostedOnce
BY DEF PostedInv, PostedFor, TurnPostedOnce

(* No turn is posted twice while the transcript holds no more turns than   *)
(* postTurnSummary() remembers, however many scans run side by side over   *)
(* it, whatever posts fail, and whatever the model reports between them.   *)
THEOREM TurnsPostedOnce == Spec => []TurnPostedOnce
<1>1. Init => Consistent /\ PostedInv
  BY ConsistentInit, PostedInit
<1>2. TypeOK /\ TypeOK' /\ Consistent /\ PostedInv /\ [Next]_vars => Consistent' /\ PostedInv'
  BY ConsistentNext, PostedNext
<1> QED BY <1>1, <1>2, WatchTypeCorrect, PostedIsOnce, PTL DEF Spec

-----------------------------------------------------------------------------
(* Announcements                                                           *)

Reads(run, c) == run.kind = "handle" /\ run.at = "reading" /\ run.chat = c

CallsFor(run, c) == run.kind # "idle" /\ run.at = "announcing" /\ run.chat = c

\* The chat that an activation handles, or has still to look at.
Owns(run, c) ==
    \/ run.kind = "handle" /\ run.chat = c
    \/ run.kind = "poll" /\ ((run.at = "announcing" /\ run.chat = c) \/ c \in run.todo)

(* A chat that no clearing of the announced set has crossed: it is handled *)
(* by the watchers of today only; while one announces it, it is in both    *)
(* sets, has not reached Teams yet, and nobody else announces it; when it  *)
(* has been announced it stays seen, and it stays in the announced set as  *)
(* long as a handler that may still call announceSession() reads it.       *)
OnceFor(c) ==
    /\ \A r \in Runs : Owns(runs[r], c) => ~runs[r].old
    /\ announcements[c] <= 1
    /\ announcements[c] = 1 => c \in seen
    /\ \A r \in Runs : CallsFor(runs[r], c) => c \in announced /\ c \in seen /\ announcements[c] = 0
    /\ \A r, q \in Runs : CallsFor(runs[r], c) /\ CallsFor(runs[q], c) => r = q
    /\ announcements[c] = 1 /\ (\E r \in Runs : Reads(runs[r], c)) => c \in announced
    /\ c \in announced => announcements[c] = 1 \/ Announcing(c)
    /\ c \in seen => c \in existing \union terse \/ announcements[c] = 1 \/ Announcing(c)

OnceInv == \A c \in Chats \ crossed : OnceFor(c)

LEMMA AnnouncingIs ==
    ASSUME NEW c
    PROVE  /\ Announcing(c) <=> \E r \in Runs : CallsFor(runs[r], c)
           /\ Announcing(c)' <=> \E r \in Runs : CallsFor(runs'[r], c)
BY DEF Announcing, CallsFor, Is

(* A step that leaves the chat alone. *)
LEMMA OnceQuiet ==
    ASSUME NEW c, OnceFor(c),
           c \in seen' <=> c \in seen, c \in announced' <=> c \in announced,
           announcements'[c] = announcements[c],
           c \in existing' \union terse' <=> c \in existing \union terse,
           \A q \in Runs :
               /\ CallsFor(runs'[q], c) <=> CallsFor(runs[q], c)
               /\ Owns(runs'[q], c) => ~runs'[q].old \/ (Owns(runs[q], c) /\ runs[q].old)
               /\ Reads(runs'[q], c) => Reads(runs[q], c) \/ c \notin seen
    PROVE  OnceFor(c)'
<1>1. Announcing(c)' <=> Announcing(c)
  BY AnnouncingIs
<1>2. \A q \in Runs : Owns(runs'[q], c) => ~runs'[q].old
  BY DEF OnceFor
<1>3. announcements'[c] = 1 /\ (\E r \in Runs : Reads(runs'[r], c)) => c \in announced'
  BY DEF OnceFor
<1>4. /\ \A r \in Runs : CallsFor(runs'[r], c) =>
             c \in announced' /\ c \in seen' /\ announcements'[c] = 0
      /\ \A r, q \in Runs : CallsFor(runs'[r], c) /\ CallsFor(runs'[q], c) => r = q
  BY DEF OnceFor
<1>5. /\ announcements'[c] <= 1 /\ announcements'[c] = 1 => c \in seen'
      /\ c \in announced' => announcements'[c] = 1 \/ Announcing(c)'
      /\ c \in seen' => c \in existing' \union terse' \/ announcements'[c] = 1 \/ Announcing(c)'
  BY <1>1 DEF OnceFor
<1> QED BY <1>2, <1>3, <1>4, <1>5 DEF OnceFor

(* No activation does what an idle one or a scan does. *)
LEMMA OwnNothing ==
    ASSUME NEW run \in RunSet, run.kind \in {"idle", "scan"}, NEW c
    PROVE  ~CallsFor(run, c) /\ ~Owns(run, c) /\ ~Reads(run, c)
BY KindIs DEF CallsFor, Owns, Reads, ScanRuns, TextRuns

LEMMA CallersOwn ==
    ASSUME NEW run \in RunSet, NEW c
    PROVE  CallsFor(run, c) \/ Reads(run, c) => Owns(run, c)
BY OwnNothing, KindIs DEF CallsFor, Owns, Reads

(* One activation moves, and nothing the chat is about changes. *)
LEMMA OnceMoves ==
    ASSUME NEW c, OnceFor(c), NEW r \in Runs, Unchanged(r),
           c \in seen' <=> c \in seen, c \in announced' <=> c \in announced,
           announcements'[c] = announcements[c],
           c \in existing' \union terse' <=> c \in existing \union terse,
           CallsFor(runs'[r], c) <=> CallsFor(runs[r], c),
           Owns(runs'[r], c) => ~runs'[r].old \/ (Owns(runs[r], c) /\ runs[r].old),
           Reads(runs'[r], c) => Reads(runs[r], c) \/ c \notin seen
    PROVE  OnceFor(c)'
<1>1. ASSUME NEW q \in Runs
      PROVE  /\ CallsFor(runs'[q], c) <=> CallsFor(runs[q], c)
             /\ Owns(runs'[q], c) => ~runs'[q].old \/ (Owns(runs[q], c) /\ runs[q].old)
             /\ Reads(runs'[q], c) => Reads(runs[q], c) \/ c \notin seen
  <2>1. CASE q = r
    BY <2>1
  <2>2. CASE q # r
    <3>1. runs'[q] = runs[q]
      BY <2>2 DEF Unchanged
    <3> QED BY <3>1
  <2> QED BY <2>1, <2>2
<1> QED BY <1>1, OnceQuiet

LEMMA OnceStill ==
    ASSUME OnceInv, UNCHANGED <<seen, announced, announcements, existing, terse, crossed, runs>>
    PROVE  OnceInv'
<1>1. ASSUME NEW c \in Chats \ crossed PROVE OnceFor(c)'
  <2>1. OnceFor(c)
    BY DEF OnceInv
  <2>2. \A q \in Runs : runs'[q] = runs[q]
    OBVIOUS
  <2> QED BY <2>1, <2>2, OnceQuiet
<1> QED BY <1>1 DEF OnceInv

LEMMA OnceInit ==
    ASSUME Init
    PROVE  OnceInv
<1> SUFFICES ASSUME NEW c \in Chats PROVE OnceFor(c)
  BY DEF OnceInv
<1>1. \A r \in Runs : ~CallsFor(runs[r], c) /\ ~Owns(runs[r], c) /\ ~Reads(runs[r], c)
  <2>1. \A r \in Runs : runs[r] = Idle
    BY DEF Init
  <2> QED BY <2>1, IdleIs, OwnNothing
<1>2. announcements[c] = 0 /\ announced = {} /\ existing = seen
  BY DEF Init
<1> QED BY <1>1, <1>2 DEF OnceFor

(* What an activation that has ended its announcement still handles. *)
LEMMA EndedOwns ==
    ASSUME TypeOK, NEW r \in Runs, Announced(r) \/ AnnounceFails(r), NEW c
    PROVE  /\ ~CallsFor(runs'[r], c) /\ ~Reads(runs'[r], c)
           /\ Owns(runs'[r], c) => Owns(runs[r], c) /\ runs'[r].old = runs[r].old
           /\ CallsFor(runs[r], runs[r].chat) /\ Owns(runs[r], runs[r].chat)
           /\ CallsFor(runs[r], c) => c = runs[r].chat
<1>1. CASE runs'[r] = Idle
  BY <1>1, AnnounceEndsIs, IdleIs, OwnNothing DEF CallsFor, Owns
<1>2. CASE runs'[r] # Idle
  BY <1>2, AnnounceEndsIs DEF CallsFor, Owns, Reads
<1> QED BY <1>1, <1>2

LEMMA AnnouncementEnds ==
    ASSUME TypeOK, OnceInv, NEW r \in Runs, Announced(r) \/ AnnounceFails(r)
    PROVE  OnceInv'
<1> USE DEF editor, watcher, history
<1> PICK d \in Chats : d = runs[r].chat
  BY AnnounceEndsIs
<1>1. Unchanged(r)
  BY AnnounceEndsIs DEF Moves
<1>2. crossed' = crossed /\ existing' = existing /\ terse' = terse
  BY DEF Announced, AnnounceFails
<1>3. ASSUME NEW c \in Chats \ crossed, c # d PROVE OnceFor(c)'
  <2>1. /\ c \in seen' <=> c \in seen
        /\ c \in announced' <=> c \in announced
        /\ announcements'[c] = announcements[c]
    BY <1>3 DEF Announced, AnnounceFails, TypeOK
  <2>2. OnceFor(c)
    BY DEF OnceInv
  <2>3. ~CallsFor(runs[r], c)
    BY <1>3, EndedOwns
  <2> QED BY <1>1, <1>2, <2>1, <2>2, <2>3, EndedOwns, OnceMoves
<1>4. ASSUME d \notin crossed PROVE OnceFor(d)'
  <2>1. OnceFor(d)
    BY <1>4 DEF OnceInv
  <2>2. /\ CallsFor(runs[r], d) /\ Owns(runs[r], d) /\ ~CallsFor(runs'[r], d)
        /\ ~Reads(runs'[r], d)
        /\ Owns(runs'[r], d) => runs'[r].old = runs[r].old
    BY EndedOwns
  <2>3. d \in announced /\ d \in seen /\ announcements[d] = 0 /\ ~runs[r].old
    BY <2>1, <2>2 DEF OnceFor
  <2>4. ASSUME NEW q \in Runs
        PROVE  ~CallsFor(runs'[q], d) /\ (Owns(runs'[q], d) => ~runs'[q].old)
    <3>1. CASE q = r
      BY <2>2, <2>3, <3>1
    <3>2. CASE q # r
      BY <1>1, <2>1, <2>2, <3>2 DEF Unchanged, OnceFor
    <3> QED BY <3>1, <3>2
  <2>5. CASE Announced(r)
    <3>1. announcements'[d] = 1 /\ seen' = seen /\ announced' = announced
      BY <2>3, <2>5 DEF Announced, TypeOK
    <3> QED BY <2>3, <2>4, <3>1 DEF OnceFor
  <2>6. CASE AnnounceFails(r)
    <3>1. announcements'[d] = 0 /\ d \notin seen' /\ d \notin announced'
      BY <2>3, <2>6 DEF AnnounceFails
    <3> QED BY <2>4, <3>1 DEF OnceFor
  <2> QED BY <2>5, <2>6
<1> QED BY <1>2, <1>3, <1>4 DEF OnceInv

LEMMA ReadingEnds ==
    ASSUME TypeOK, OnceInv, NEW r \in Runs, Readable(r)
    PROVE  OnceInv'
<1> USE DEF editor, watcher, history
<1> PICK d \in Chats : d = runs[r].chat
  BY ReadableIs DEF Chats
<1>1. Unchanged(r)
  BY ReadableIs DEF Moves
<1>2. /\ crossed' = crossed /\ existing' = existing /\ terse' = terse
      /\ announcements' = announcements
  BY DEF Readable
<1>3. \/ d \in terse \union announced /\ announced' = announced /\ runs'[r] = Idle
      \/ /\ d \notin announced /\ announced' = announced \union {d}
         /\ runs'[r].kind = "handle" /\ runs'[r].at = "announcing"
         /\ runs'[r].chat = d /\ runs'[r].old = runs[r].old
  BY ReadableIs
<1>4. Reads(runs[r], d) /\ Owns(runs[r], d) /\ \A c : ~CallsFor(runs[r], c)
  BY ReadableIs DEF Reads, Owns, CallsFor
<1>5. \A c : ~Reads(runs'[r], c) /\ (Owns(runs'[r], c) => c = d /\ runs'[r].old = runs[r].old)
  BY <1>3, IdleIs, OwnNothing DEF Reads, Owns
<1>6. \A c : CallsFor(runs'[r], c) => c = d /\ d \notin announced /\ d \in announced'
  BY <1>3, IdleIs, OwnNothing DEF CallsFor
<1>7. ASSUME NEW c \in Chats \ crossed, c # d PROVE OnceFor(c)'
  <2>1. /\ c \in seen' <=> c \in seen
        /\ c \in announced' <=> c \in announced
    BY <1>3, <1>7 DEF Readable
  <2>2. OnceFor(c)
    BY DEF OnceInv
  <2> QED BY <1>1, <1>2, <1>4, <1>5, <1>6, <1>7, <2>1, <2>2, OnceMoves
<1>8. ASSUME d \notin crossed PROVE OnceFor(d)'
  <2>1. OnceFor(d)
    BY <1>8 DEF OnceInv
  <2>2. ~runs[r].old /\ d \in seen'
    BY <1>4, <2>1 DEF OnceFor, Readable
  <2>3. \A q \in Runs : Owns(runs'[q], d) => ~runs'[q].old
    BY <1>1, <1>5, <2>1, <2>2 DEF OnceFor, Unchanged
  <2>4. announced \subseteq announced'
    BY <1>3
  <2>5. \A q \in Runs : Reads(runs'[q], d) => Reads(runs[q], d)
    BY <1>1, <1>5 DEF Unchanged
  <2>6. announcements[d] = 1 => d \in announced
    BY <1>4, <2>1 DEF OnceFor
  <2>7. CASE d \in terse \union announced /\ announced' = announced /\ runs'[r] = Idle
    <3>1. \A q \in Runs : CallsFor(runs'[q], d) <=> CallsFor(runs[q], d)
      BY <1>1, <1>4, <2>7, IdleIs, OwnNothing DEF Unchanged
    <3>2. Announcing(d)' <=> Announcing(d)
      BY <3>1, AnnouncingIs
    <3> QED BY <1>2, <2>1, <2>2, <2>3, <2>5, <2>7, <3>1, <3>2 DEF OnceFor
  <2>8. CASE /\ d \notin announced /\ announced' = announced \union {d}
             /\ runs'[r].kind = "handle" /\ runs'[r].at = "announcing"
             /\ runs'[r].chat = d /\ runs'[r].old = runs[r].old
    <3>1. CallsFor(runs'[r], d)
      BY <2>8 DEF CallsFor
    <3>2. announcements[d] = 0
      BY <2>1, <2>6, <2>8 DEF OnceFor, TypeOK
    <3>3. \A q \in Runs : CallsFor(runs'[q], d) => q = r
      BY <1>1, <2>1, <2>8 DEF OnceFor, Unchanged
    <3>4. Announcing(d)'
      BY <3>1, AnnouncingIs
    <3> QED BY <1>2, <2>2, <2>3, <2>8, <3>2, <3>3, <3>4 DEF OnceFor
  <2> QED BY <1>3, <2>7, <2>8
<1> QED BY <1>2, <1>7, <1>8 DEF OnceInv

LEMMA PollStarts ==
    ASSUME TypeOK, OnceInv, NEW r \in Runs, NEW h \in Hosts, PollAnnounces(r, h)
    PROVE  OnceInv'
<1> USE DEF editor, watcher, history
<1>1. Unchanged(r)
  BY PollAnnouncesIs DEF Moves
<1>2. /\ crossed' = crossed /\ existing' = existing /\ terse' = terse
      /\ announcements' = announcements
  BY DEF PollAnnounces
<1>3. \/ /\ h \in announced /\ announced' = announced
         /\ \/ runs'[r] = Idle
            \/ /\ runs'[r].kind = "poll" /\ runs'[r].at = "polling"
               /\ runs'[r].todo = runs[r].todo \ {h} /\ runs'[r].old = runs[r].old
      \/ /\ h \notin announced /\ announced' = announced \union {h}
         /\ runs'[r].kind = "poll" /\ runs'[r].at = "announcing" /\ runs'[r].chat = h
         /\ runs'[r].todo = runs[r].todo \ {h} /\ runs'[r].old = runs[r].old
  BY PollAnnouncesIs
<1>4. Owns(runs[r], h) /\ \A c : ~CallsFor(runs[r], c)
  BY PollsIs DEF PollAnnounces, Owns, CallsFor
<1>5. ASSUME NEW c
      PROVE  /\ ~Reads(runs'[r], c)
             /\ Owns(runs'[r], c) => Owns(runs[r], c) /\ runs'[r].old = runs[r].old
             /\ CallsFor(runs'[r], c) => c = h /\ h \notin announced
  <2>1. runs[r].kind = "poll"
    BY PollsIs DEF PollAnnounces
  <2>2. CASE runs'[r] = Idle
    BY <2>2, IdleIs, OwnNothing
  <2>3. CASE runs'[r] # Idle
    BY <1>3, <1>4, <2>1, <2>3 DEF Reads, Owns, CallsFor
  <2> QED BY <2>2, <2>3
<1>6. ASSUME NEW c \in Chats \ crossed, c # h PROVE OnceFor(c)'
  <2>1. /\ c \in seen' <=> c \in seen
        /\ c \in announced' <=> c \in announced
    BY <1>3, <1>6 DEF PollAnnounces
  <2>2. OnceFor(c)
    BY DEF OnceInv
  <2> QED BY <1>1, <1>2, <1>4, <1>5, <1>6, <2>1, <2>2, OnceMoves
<1>7. ASSUME h \notin crossed PROVE OnceFor(h)'
  <2>1. OnceFor(h)
    BY <1>7 DEF OnceInv, Chats
  <2>2. ~runs[r].old
    BY <1>4, <2>1 DEF OnceFor
  <2>3. h \notin seen /\ h \in seen'
    BY <2>2 DEF PollAnnounces
  <2>4. announcements[h] = 0
    BY <2>1, <2>3 DEF OnceFor, TypeOK, Chats
  <2>5. \A q \in Runs : ~CallsFor(runs[q], h)
    BY <2>1, <2>3 DEF OnceFor
  <2>6. h \notin announced
    BY <2>1, <2>4, <2>5, AnnouncingIs DEF OnceFor
  <2>7. h \in announced' /\ CallsFor(runs'[r], h)
    BY <1>3, <2>6 DEF CallsFor
  <2>8. \A q \in Runs : CallsFor(runs'[q], h) => q = r
    BY <1>1, <2>5 DEF Unchanged
  <2>9. \A q \in Runs : Owns(runs'[q], h) => ~runs'[q].old
    BY <1>1, <1>5, <2>1, <2>2 DEF OnceFor, Unchanged
  <2>10. Announcing(h)'
    BY <2>7, AnnouncingIs
  <2> QED BY <1>2, <2>3, <2>4, <2>7, <2>8, <2>9, <2>10 DEF OnceFor
<1> QED BY <1>2, <1>6, <1>7 DEF OnceInv

(* An activation starts, goes on or ends, and announces nothing. *)
LEMMA OnceGoesOn ==
    ASSUME OnceInv, NEW r \in Runs, Unchanged(r),
           UNCHANGED <<seen, announced, announcements, existing, terse, crossed>>,
           \A c \in Chats :
               /\ ~CallsFor(runs[r], c) /\ ~CallsFor(runs'[r], c)
               /\ Owns(runs'[r], c) => ~runs'[r].old \/ (Owns(runs[r], c) /\ runs[r].old)
               /\ Reads(runs'[r], c) => Reads(runs[r], c) \/ c \notin seen
    PROVE  OnceInv'
<1>1. ASSUME NEW c \in Chats \ crossed PROVE OnceFor(c)'
  <2>1. OnceFor(c)
    BY DEF OnceInv
  <2> QED BY <2>1, OnceMoves
<1> QED BY <1>1 DEF OnceInv

LEMMA OnceConfig ==
    ASSUME TypeOK, OnceInv, ConfigChanges
    PROVE  OnceInv'
<1> USE DEF editor, watcher
<1>1. ASSUME NEW c \in Chats \ crossed' PROVE OnceFor(c)'
  <2>1. c \notin crossed /\ c \notin Handled
    BY <1>1 DEF ConfigChanges
  <2>2. OnceFor(c)
    BY <2>1 DEF OnceInv
  <2>3. \A q \in Runs : runs[q] \in RunSet /\ ~Owns(runs[q], c)
    BY <2>1, RunIs DEF Handled, Owns, Is
  <2>4. \A q \in Runs : runs'[q] = runs[q] /\ ~CallsFor(runs[q], c) /\ ~Reads(runs[q], c)
    BY <2>3, CallersOwn DEF ConfigChanges
  <2>5. ~Announcing(c)
    BY <2>4, AnnouncingIs
  <2>6. /\ seen' = seen /\ existing' = existing /\ terse' = terse /\ announced' = {}
        /\ announcements' = announcements
    BY DEF ConfigChanges
  <2> QED BY <2>2, <2>3, <2>4, <2>5, <2>6 DEF OnceFor
<1> QED BY <1>1 DEF OnceInv

LEMMA OnceReset ==
    ASSUME TypeOK, TypeOK', Reset
    PROVE  OnceInv'
<1>1. ASSUME NEW c \in Chats \ crossed' PROVE OnceFor(c)'
  <2>1. c \notin Handled
    BY <1>1 DEF Reset
  <2>2. \A q \in Runs : ~Owns(runs[q], c)
    BY <2>1 DEF Handled, Owns, Is
  <2>3. ASSUME NEW q \in Runs PROVE ~Owns(runs'[q], c)
    <3>1. CASE runs'[q] = Idle
      BY <3>1, IdleIs, OwnNothing
    <3>2. CASE runs'[q] # Idle
      BY <2>2, <3>2, ResetIs DEF Owns
    <3> QED BY <3>1, <3>2
  <2>4. \A q \in Runs : ~CallsFor(runs'[q], c) /\ ~Reads(runs'[q], c)
    BY <2>3, CallersOwn, ResetIs
  <2>5. announcements'[c] = 0 /\ announced' = {} /\ existing' = seen'
    BY DEF Reset, Seeds
  <2> QED BY <2>3, <2>4, <2>5 DEF OnceFor
<1> QED BY <1>1 DEF OnceInv

LEMMA OnceNext ==
    ASSUME TypeOK, TypeOK', OnceInv, [Next]_vars
    PROVE  OnceInv'
<1> USE DEF editor, watcher, bridge, history
<1>1. CASE Editor
  BY <1>1, OnceStill DEF Editor, Ask, Answered, Rewritten, ToolNotifies, Archives
<1>2. CASE Announces
  BY <1>2, AnnouncementEnds DEF Announces
<1>3. CASE Handles
  <2>1. ASSUME NEW c \in Transcripts, Schedule(c) PROVE OnceInv'
    BY <2>1, OnceStill DEF Schedule
  <2>2. ASSUME NEW r \in Runs, NEW c \in Transcripts, Handle(r, c) PROVE OnceInv'
    <3>1. UNCHANGED <<seen, announced, announcements, existing, terse, crossed>>
      BY <2>2 DEF Handle
    <3>2. CASE UNCHANGED runs
      BY <3>1, <3>2, OnceStill
    <3>3. CASE ~ UNCHANGED runs
      <4>1. /\ c \notin seen /\ Unchanged(r) /\ runs[r].kind = "idle"
            /\ runs'[r].kind = "handle" /\ runs'[r].at = "reading" /\ runs'[r].chat = c
            /\ runs'[r].old = FALSE
        BY <2>2, <3>3, HandleIs DEF Moves
      <4>2. \A d : /\ ~CallsFor(runs[r], d) /\ ~CallsFor(runs'[r], d)
                   /\ Reads(runs'[r], d) => d \notin seen
        BY <4>1 DEF CallsFor, Reads
      <4> QED BY <3>1, <4>1, <4>2, OnceGoesOn
    <3> QED BY <3>2, <3>3
  <2>3. ASSUME NEW r \in Runs, Unreadable(r) PROVE OnceInv'
    <3>1. Unchanged(r) /\ runs'[r] = Idle /\ runs[r].at = "reading"
      BY <2>3, EndsIs DEF Moves, Unreadable, HandleReads
    <3>2. \A c : ~CallsFor(runs[r], c) /\ ~CallsFor(Idle, c) /\ ~Owns(Idle, c) /\ ~Reads(Idle, c)
      BY <3>1, IdleIs, OwnNothing DEF CallsFor
    <3>3. UNCHANGED <<seen, announced, announcements, existing, terse, crossed>>
      BY <2>3 DEF Unreadable
    <3> QED BY <3>1, <3>2, <3>3, OnceGoesOn
  <2> QED BY <1>3, <2>1, <2>2, <2>3, ReadingEnds DEF Handles
<1>4. CASE ScansTurns
  <2>1. ASSUME NEW r \in Runs, Unchanged(r), runs[r].kind \in {"idle", "scan"},
               runs'[r] \in RunSet, runs'[r].kind \in {"idle", "scan"},
               UNCHANGED <<seen, announced, announcements, existing, terse, crossed>>
        PROVE  OnceInv'
    <3>1. runs[r] \in RunSet
      BY RunIs
    <3>2. \A c : /\ ~CallsFor(runs[r], c) /\ ~CallsFor(runs'[r], c)
                 /\ ~Owns(runs'[r], c) /\ ~Reads(runs'[r], c)
      BY <2>1, <3>1, OwnNothing
    <3> QED BY <2>1, <3>2, OnceGoesOn
  <2>2. ASSUME NEW r \in Runs, NEW c \in Transcripts, Scan(r, c) PROVE OnceInv'
    <3>1. UNCHANGED <<seen, announced, announcements, existing, terse, crossed>>
      BY <2>2 DEF Scan
    <3> QED BY <2>1, <2>2, <3>1, ScanIs DEF Moves
  <2>3. ASSUME NEW r \in Runs, ScanFails(r) PROVE OnceInv'
    <3>1. UNCHANGED <<seen, announced, announcements, existing, terse, crossed>>
      BY <2>3 DEF ScanFails
    <3>2. runs[r].kind = "scan"
      BY <2>3 DEF ScanFails, ScanReads, Is
    <3> QED BY <2>1, <2>3, <3>1, <3>2, EndsIs, IdleIs DEF Moves
  <2>4. ASSUME NEW r \in Runs, ScanCompares(r) \/ Passes(r) \/ Posts(r) \/ PostEnds(r)
        PROVE  OnceInv'
    <3>1. UNCHANGED <<seen, announced, announcements, existing, terse, crossed>>
      BY <2>4 DEF ScanCompares, Passes, Posts, Posting, PostEnds
    <3> QED BY <2>1, <2>4, <3>1, ScanGoesOn, IdleIs DEF Moves
  <2> QED BY <1>4, <2>2, <2>3, <2>4 DEF ScansTurns
<1>5. CASE PollsHosts
  <2>1. ASSUME NEW r \in Runs, Poll(r) PROVE OnceInv'
    <3>1. UNCHANGED <<seen, announced, announcements, existing, terse, crossed>>
      BY <2>1 DEF Poll
    <3>2. /\ Unchanged(r) /\ runs[r].kind = "idle" /\ runs'[r].kind = "poll"
          /\ runs'[r].at = "polling" /\ runs'[r].old = FALSE
      BY <2>1, PollIs DEF Moves
    <3>3. \A c : ~CallsFor(runs[r], c) /\ ~CallsFor(runs'[r], c) /\ ~Reads(runs'[r], c)
      BY <3>2 DEF CallsFor, Reads
    <3> QED BY <3>1, <3>2, <3>3, OnceGoesOn
  <2>2. ASSUME NEW r \in Runs, NEW h \in Hosts, PollTouches(r, h) PROVE OnceInv'
    <3>1. UNCHANGED <<seen, announced, announcements, existing, terse, crossed>>
      BY <2>2 DEF PollTouches
    <3>2. Unchanged(r) /\ runs[r].kind = "poll" /\ runs[r].at = "polling"
      BY <2>2, PollTouchesIs, PollsIs DEF Moves, PollTouches
    <3>3. ASSUME NEW c
          PROVE  /\ ~CallsFor(runs[r], c) /\ ~CallsFor(runs'[r], c) /\ ~Reads(runs'[r], c)
                 /\ Owns(runs'[r], c) => ~runs'[r].old \/ (Owns(runs[r], c) /\ runs[r].old)
      <4>1. CASE runs'[r] = Idle
        BY <3>2, <4>1, IdleIs, OwnNothing DEF CallsFor
      <4>2. CASE runs'[r] # Idle
        <5>1. /\ runs'[r].kind = "poll" /\ runs'[r].at = "polling"
              /\ runs'[r].todo = runs[r].todo \ {h} /\ runs'[r].old = runs[r].old
          BY <2>2, <4>2, PollTouchesIs
        <5> QED BY <3>2, <5>1 DEF CallsFor, Reads, Owns
      <4> QED BY <4>1, <4>2
    <3> QED BY <3>1, <3>2, <3>3, OnceGoesOn
  <2> QED BY <1>5, <2>1, <2>2, PollStarts DEF PollsHosts
<1>6. CASE UNCHANGED vars
  BY <1>6, OnceStill DEF vars
<1> QED BY <1>1, <1>2, <1>3, <1>4, <1>5, <1>6, OnceConfig, OnceReset DEF Next

(* Above all: a chat that a watcher has ticked off has been announced, is  *)
(* being announced, or was not to be, and none is announced twice, for as  *)
(* long as no configuration change or reset falls between.                 *)
THEOREM SeenChatsAreAnnounced == Spec => []SeenIsAnnounced
<1>1. OnceInv => SeenIsAnnounced
  BY DEF OnceInv, OnceFor, SeenIsAnnounced
<1>2. TypeOK /\ TypeOK' /\ OnceInv /\ [Next]_vars => OnceInv'
  BY OnceNext
<1> QED BY <1>1, <1>2, OnceInit, WatchTypeCorrect, PTL DEF Spec

-----------------------------------------------------------------------------
(* Touches                                                                 *)

\* A scan of today's watcher that has still to compare what it read.
Compares(run, c) ==
    run.kind = "scan" /\ run.at = "reading" /\ run.chat = c /\ ~run.old

Live(run) == run.kind = "poll" /\ ~run.old

(* The key that is remembered is no newer than the chat.  Where no two     *)
(* scans read at a time, it has moved on by at least one turn for each     *)
(* touch, and what the one scan has read is no older than it.              *)
TouchFor(c) ==
    /\ latest[c] = None <=> base[c] = None
    /\ latest[c] <= turns[c]
    /\ c \notin overlapped =>
         /\ touches[c] <= latest[c] - base[c]
         /\ \A r \in Runs : Compares(runs[r], c) => latest[c] <= runs[r].turns
         /\ \A r, q \in Runs : Compares(runs[r], c) /\ Compares(runs[q], c) => r = q

(* One poll runs at a time, on an index no older than what is remembered.  *)
OnePoll ==
    /\ \A r, q \in Runs : Live(runs[r]) /\ Live(runs[q]) => r = q
    /\ \A r \in Runs : Live(runs[r]) => \A h \in runs[r].todo : latest[h] <= runs[r].index[h]

TouchInv == (\A c \in Chats : TouchFor(c)) /\ OnePoll

LEMMA TouchTyped ==
    ASSUME TypeOK, NEW c \in Chats
    PROVE  /\ latest[c] \in Int /\ base[c] \in Int /\ touches[c] \in Nat /\ turns[c] \in Nat
           /\ latest[c] >= None /\ base[c] >= None
           /\ touches[c] <= MaxTurns + 1 /\ turns[c] <= MaxTurns /\ MaxTurns \in Nat
<1>1. latest[c] \in None .. MaxTurns /\ base[c] \in None .. MaxTurns
  BY DEF TypeOK
<1>2. touches[c] \in 0 .. MaxTurns + 1
  BY DEF TypeOK
<1>3. turns[c] \in 0 .. MaxTurns /\ MaxTurns \in Nat
  BY TurnsTyped
<1> QED BY <1>1, <1>2, <1>3 DEF None

(* What NewestTurn() makes of a key that is no older than the last one. *)
LEMMA NewestIs ==
    ASSUME TypeOK, NEW c \in Chats, NEW newest \in 0 .. MaxTurns, NewestTurn(c, newest),
           TouchFor(c), newest <= turns[c]
    PROVE  /\ latest'[c] = None <=> base'[c] = None
           /\ latest'[c] <= turns[c]
           /\ c \notin overlapped /\ latest[c] <= newest => touches'[c] <= latest'[c] - base'[c]
<1>1. /\ latest[c] \in Int /\ base[c] \in Int /\ touches[c] \in Nat /\ turns[c] \in Nat
      /\ latest[c] >= None /\ newest \in Nat
  BY TouchTyped
<1>2. /\ latest[c] = None <=> base[c] = None
      /\ latest[c] <= turns[c]
      /\ c \notin overlapped => touches[c] <= latest[c] - base[c]
  BY DEF TouchFor
<1>3. /\ latest \in [Chats -> None .. MaxTurns] /\ base \in [Chats -> None .. MaxTurns]
      /\ touches \in [Chats -> 0 .. MaxTurns + 1]
  BY DEF TypeOK
<1>4. CASE Baseline(c, newest)
  <2>1. /\ latest[c] = None /\ latest'[c] = newest /\ base'[c] = newest
        /\ touches'[c] = touches[c]
    BY <1>3, <1>4 DEF Baseline
  <2> QED BY <1>1, <1>2, <2>1 DEF None
<1>5. CASE latest[c] # None /\ newest \notin {0, latest[c]} /\ Touch(c, newest)
  <2>1. /\ latest'[c] = newest /\ base'[c] = base[c]
        /\ touches'[c] = (IF touches[c] = MaxTurns + 1 THEN touches[c] ELSE touches[c] + 1)
    BY <1>3, <1>5 DEF Touch
  <2>2. touches'[c] <= touches[c] + 1 /\ touches'[c] \in Nat
    BY <1>1, <2>1
  <2> QED BY <1>1, <1>2, <1>5, <2>1, <2>2 DEF None
<1>6. CASE latest[c] # None /\ Unmoved
  BY <1>2, <1>6 DEF Unmoved
<1> QED BY <1>4, <1>5, <1>6 DEF NewestTurn

LEMMA NewestElsewhere ==
    ASSUME TypeOK, NEW c \in Chats, NEW newest, NewestTurn(c, newest) \/ Unmoved,
           NEW d \in Chats, d # c
    PROVE  latest'[d] = latest[d] /\ base'[d] = base[d] /\ touches'[d] = touches[d]
BY DEF TypeOK, NewestTurn, Unmoved, Baseline, Touch

(* A step that leaves what is remembered of the chat alone. *)
LEMMA TouchQuiet ==
    ASSUME TypeOK, TypeOK', NEW c \in Chats, TouchFor(c), turns[c] <= turns'[c],
           latest'[c] = latest[c], base'[c] = base[c], touches'[c] = touches[c],
           c \in overlapped => c \in overlapped',
           \A q \in Runs : Compares(runs'[q], c) =>
               Compares(runs[q], c) /\ runs'[q].turns = runs[q].turns
    PROVE  TouchFor(c)'
<1>1. latest[c] \in Int /\ turns[c] \in Nat /\ turns'[c] \in Nat
  <2>1. turns'[c] \in 0 .. MaxTurns
    BY DEF TypeOK
  <2> QED BY <2>1, TouchTyped
<1>2. latest[c] <= turns'[c]
  BY <1>1 DEF TouchFor
<1> QED BY <1>2 DEF TouchFor

LEMMA OnePollStill ==
    ASSUME OnePoll, \A h \in Hosts : latest'[h] = latest[h],
           \A q \in Runs : Live(runs'[q]) =>
               /\ runs[q] \in RunSet
               /\ Live(runs[q]) /\ runs'[q].index = runs[q].index
               /\ runs'[q].todo \subseteq runs[q].todo
    PROVE  OnePoll'
<1>1. \A r, q \in Runs : Live(runs'[r]) /\ Live(runs'[q]) => r = q
  BY DEF OnePoll
<1>2. ASSUME NEW r \in Runs, Live(runs'[r]), NEW h \in runs'[r].todo
      PROVE  latest'[h] <= runs'[r].index[h]
  <2>1. h \in runs[r].todo /\ h \in Hosts
    BY <1>2, PollHas DEF Live
  <2> QED BY <1>2, <2>1 DEF OnePoll
<1> QED BY <1>1, <1>2 DEF OnePoll

(* A step that touches nothing, and starts neither a scan nor a poll. *)
LEMMA TouchStill ==
    ASSUME TypeOK, TypeOK', TouchInv, \A c \in Chats : turns[c] <= turns'[c],
           UNCHANGED <<latest, base, touches, overlapped>>,
           \A q \in Runs :
               /\ \A c \in Chats : Compares(runs'[q], c) =>
                      Compares(runs[q], c) /\ runs'[q].turns = runs[q].turns
               /\ Live(runs'[q]) =>
                      /\ Live(runs[q]) /\ runs'[q].index = runs[q].index
                      /\ runs'[q].todo \subseteq runs[q].todo
    PROVE  TouchInv'
<1>1. ASSUME NEW c \in Chats PROVE TouchFor(c)'
  <2>1. TouchFor(c)
    BY DEF TouchInv
  <2> QED BY <2>1, TouchQuiet
<1>2. OnePoll'
  BY RunIs, OnePollStill DEF TouchInv
<1> QED BY <1>1, <1>2 DEF TouchInv

LEMMA TouchMoves ==
    ASSUME TypeOK, TypeOK', TouchInv, \A c \in Chats : turns[c] <= turns'[c],
           UNCHANGED <<latest, base, touches, overlapped>>, NEW r \in Runs, Unchanged(r),
           \A c \in Chats : ~Compares(runs'[r], c),
           Live(runs'[r]) =>
               /\ Live(runs[r]) /\ runs'[r].index = runs[r].index
               /\ runs'[r].todo \subseteq runs[r].todo
    PROVE  TouchInv'
<1>1. ASSUME NEW q \in Runs
      PROVE  /\ \A c \in Chats : Compares(runs'[q], c) =>
                    Compares(runs[q], c) /\ runs'[q].turns = runs[q].turns
             /\ Live(runs'[q]) =>
                    /\ Live(runs[q]) /\ runs'[q].index = runs[q].index
                    /\ runs'[q].todo \subseteq runs[q].todo
  <2>1. CASE q = r
    BY <2>1
  <2>2. CASE q # r
    <3>1. runs'[q] = runs[q]
      BY <2>2 DEF Unchanged
    <3> QED BY <3>1
  <2> QED BY <2>1, <2>2
<1> QED BY <1>1, TouchStill

LEMMA ScanStarts ==
    ASSUME TypeOK, TypeOK', TouchInv, NEW r \in Runs, NEW c \in Transcripts, Scan(r, c)
    PROVE  TouchInv'
<1> USE DEF editor, watcher, history
<1>1. /\ Unchanged(r) /\ runs[r].kind = "idle" /\ runs'[r].kind = "scan" /\ runs'[r].chat = c
      /\ runs'[r].turns = turns[c]
  BY ScanIs DEF Moves
<1>2. turns' = turns /\ latest' = latest /\ base' = base /\ touches' = touches /\ c \in Chats
  BY DEF Scan, Chats
<1>3. overlapped' = IF \E q \in Runs : /\ runs[q].kind = "scan" /\ runs[q].at = "reading"
                                       /\ runs[q].chat = c
                    THEN overlapped \union {c} ELSE overlapped
  BY DEF Scan, Is
<1>4. \A d \in Chats : TouchFor(d) /\ turns[d] <= turns'[d]
  BY <1>2, TouchTyped DEF TouchInv
<1>5. ASSUME NEW d \in Chats, d # c PROVE TouchFor(d)'
  <2>1. ASSUME NEW q \in Runs, Compares(runs'[q], d)
        PROVE  Compares(runs[q], d) /\ runs'[q].turns = runs[q].turns
    BY <1>1, <1>5, <2>1 DEF Compares, Unchanged
  <2>2. d \in overlapped => d \in overlapped'
    BY <1>3
  <2> QED BY <1>2, <1>4, <2>1, <2>2, TouchQuiet
<1>6. TouchFor(c)'
  <2>1. /\ latest'[c] = None <=> base'[c] = None
        /\ latest'[c] <= turns'[c]
        /\ c \notin overlapped => touches'[c] <= latest'[c] - base'[c]
    BY <1>2, <1>4 DEF TouchFor
  <2>2. CASE c \in overlapped'
    BY <2>1, <2>2 DEF TouchFor
  <2>3. CASE c \notin overlapped'
    <3>1. c \notin overlapped /\ \A q \in Runs : ~Compares(runs[q], c)
      BY <1>3, <2>3 DEF Compares
    <3>2. \A q \in Runs : Compares(runs'[q], c) => q = r
      BY <1>1, <3>1 DEF Unchanged
    <3>3. latest'[c] <= runs'[r].turns
      BY <1>1, <1>2, <2>1
    <3> QED BY <2>1, <2>3, <3>1, <3>2, <3>3 DEF TouchFor
  <2> QED BY <2>2, <2>3
<1>7. OnePoll'
  <2>1. ASSUME NEW q \in Runs, Live(runs'[q])
        PROVE  runs[q] \in RunSet /\ runs'[q] = runs[q]
    BY <1>1, <2>1, RunIs DEF Live, Unchanged
  <2>2. \A h \in Hosts : latest'[h] = latest[h]
    BY <1>2
  <2>3. OnePoll
    BY DEF TouchInv
  <2> QED BY <2>1, <2>2, <2>3, OnePollStill
<1> QED BY <1>5, <1>6, <1>7 DEF TouchInv

LEMMA ScanTouches ==
    ASSUME TypeOK, TypeOK', Consistent, TouchInv, NEW r \in Runs, ScanCompares(r)
    PROVE  TouchInv'
<1> USE DEF editor, watcher, history
<1> PICK d \in Transcripts : d = runs[r].chat
  BY ScanGoesOn, RunIs, TextIs
<1>1. d \in Chats /\ d \notin Hosts /\ runs[r].turns \in 0 .. MaxTurns
      /\ runs[r].turns <= turns[d]
  <2>1. runs[r] \in RunSet /\ runs[r].kind = "scan"
    BY ScanGoesOn, RunIs
  <2> QED BY <2>1, TextIs, WatchAssumption DEF Consistent, Behind, Chats
<1>2. /\ Unchanged(r) /\ \A c : ~Compares(runs'[r], c)
      /\ ~Live(runs'[r])
  <2>1. Unchanged(r) /\ (runs'[r] = Idle \/ (runs'[r].kind = "scan" /\ runs'[r].at # "reading"))
    BY ScanGoesOn DEF Moves
  <2> QED BY <2>1, IdleIs DEF Compares, Live
<1>3. turns' = turns /\ overlapped' = overlapped
  BY DEF ScanCompares
<1>4. \A c \in Chats : TouchFor(c) /\ turns[c] <= turns'[c]
  BY <1>3, TouchTyped DEF TouchInv
<1>5. CASE runs[r].old
  <2>1. UNCHANGED <<latest, base, touches, overlapped>>
    BY <1>5 DEF ScanCompares, Unmoved
  <2> QED BY <1>2, <1>4, <2>1, TouchMoves
<1>6. CASE ~runs[r].old
  <2>1. NewestTurn(d, runs[r].turns) /\ Compares(runs[r], d)
    BY <1>6 DEF ScanCompares, ScanReads, Is, Compares
  <2>2. ASSUME NEW q \in Runs, NEW c \in Chats, Compares(runs'[q], c)
        PROVE  q # r /\ Compares(runs[q], c) /\ runs'[q].turns = runs[q].turns
    BY <1>2, <2>2 DEF Unchanged
  <2>3. ASSUME NEW c \in Chats, c # d PROVE TouchFor(c)'
    <3>1. latest'[c] = latest[c] /\ base'[c] = base[c] /\ touches'[c] = touches[c]
      BY <1>1, <2>1, <2>3, NewestElsewhere
    <3> QED BY <1>3, <1>4, <2>2, <3>1, TouchQuiet
  <2>4. TouchFor(d)'
    <3>1. TouchFor(d)
      BY <1>1, <1>4
    <3>2. d \notin overlapped => latest[d] <= runs[r].turns
      BY <2>1, <3>1 DEF TouchFor
    <3>3. /\ latest'[d] = None <=> base'[d] = None
          /\ latest'[d] <= turns[d]
          /\ d \notin overlapped => touches'[d] <= latest'[d] - base'[d]
      BY <1>1, <2>1, <3>1, <3>2, NewestIs
    <3>4. d \notin overlapped => \A q \in Runs : ~Compares(runs'[q], d)
      BY <1>1, <2>1, <2>2, <3>1 DEF TouchFor
    <3> QED BY <1>3, <3>3, <3>4 DEF TouchFor
  <2>5. OnePoll'
    <3>1. \A h \in Hosts : latest'[h] = latest[h]
      BY <1>1, <2>1, NewestElsewhere DEF Chats
    <3>2. ASSUME NEW q \in Runs, Live(runs'[q])
          PROVE  runs[q] \in RunSet /\ runs'[q] = runs[q]
      BY <1>2, <3>2, RunIs DEF Unchanged
    <3>3. OnePoll
      BY DEF TouchInv
    <3> QED BY <3>1, <3>2, <3>3, OnePollStill
  <2> QED BY <2>3, <2>4, <2>5 DEF TouchInv
<1> QED BY <1>5, <1>6

LEMMA PollBegins ==
    ASSUME TypeOK, TypeOK', TouchInv, NEW r \in Runs, Poll(r)
    PROVE  TouchInv'
<1> USE DEF editor, watcher, history
<1>1. /\ Unchanged(r) /\ runs'[r].kind = "poll" /\ runs'[r].index = Index
      /\ runs'[r].todo = listed
  BY PollIs DEF Moves
<1>2. UNCHANGED <<turns, latest, base, touches, overlapped>> /\ listed \subseteq Hosts
  BY DEF Poll, TypeOK
<1>3. ASSUME NEW c \in Chats PROVE TouchFor(c)'
  <2>1. TouchFor(c) /\ turns[c] <= turns'[c]
    BY <1>2, TouchTyped DEF TouchInv
  <2>2. ASSUME NEW q \in Runs, Compares(runs'[q], c) PROVE runs'[q] = runs[q]
    BY <1>1, <2>2 DEF Compares, Unchanged
  <2> QED BY <1>2, <2>1, <2>2, TouchQuiet
<1>4. \A q \in Runs : Live(runs'[q]) => q = r
  BY <1>1 DEF Poll, Is, Live, Unchanged
<1>5. \A h \in listed : latest'[h] <= Index[h]
  BY <1>2 DEF Index, TouchInv, TouchFor, Chats
<1>6. OnePoll'
  BY <1>1, <1>4, <1>5 DEF OnePoll
<1> QED BY <1>3, <1>6 DEF TouchInv

(* The poll has dealt with one chat of the index. *)
LEMMA HostMoves ==
    ASSUME TypeOK, TypeOK', TouchInv, NEW r \in Runs, NEW h \in Hosts,
           Live(runs[r]), Unchanged(r), turns' = turns, overlapped' = overlapped,
           latest'[h] = None <=> base'[h] = None, latest'[h] <= turns[h],
           touches'[h] <= latest'[h] - base'[h],
           \A c \in Chats : c # h =>
               latest'[c] = latest[c] /\ base'[c] = base[c] /\ touches'[c] = touches[c],
           \A c \in Chats : ~Compares(runs'[r], c),
           Live(runs'[r]) =>
               runs'[r].index = runs[r].index /\ runs'[r].todo \subseteq runs[r].todo \ {h}
    PROVE  TouchInv'
<1>1. ASSUME NEW q \in Runs, NEW c \in Chats, Compares(runs'[q], c)
      PROVE  Compares(runs[q], c) /\ runs'[q].turns = runs[q].turns
  BY <1>1 DEF Unchanged
<1>2. ASSUME NEW c \in Chats, c # h PROVE TouchFor(c)'
  <2>1. TouchFor(c) /\ turns[c] <= turns'[c]
    BY TouchTyped DEF TouchInv
  <2>2. latest'[c] = latest[c] /\ base'[c] = base[c] /\ touches'[c] = touches[c]
    BY <1>2
  <2> QED BY <1>1, <2>1, <2>2, TouchQuiet
<1>3. TouchFor(h)'
  <2>1. h \in Chats /\ h \notin Transcripts
    BY WatchAssumption DEF Chats
  <2>2. \A q \in Runs : ~Compares(runs[q], h)
    BY <2>1, RunIs, TextIs DEF Compares
  <2>3. \A q \in Runs : ~Compares(runs'[q], h)
    BY <1>1, <2>1, <2>2
  <2> QED BY <2>3 DEF TouchFor
<1>4. OnePoll'
  <2>1. \A q \in Runs : Live(runs'[q]) => q = r
    BY DEF TouchInv, OnePoll, Unchanged
  <2>2. ASSUME Live(runs'[r]), NEW g \in runs'[r].todo PROVE latest'[g] <= runs'[r].index[g]
    <3>1. g \in runs[r].todo /\ g # h /\ runs'[r].index = runs[r].index
      BY <2>2
    <3>2. g \in Chats
      BY <3>1, RunIs, PollHas DEF Live
    <3> QED BY <3>1, <3>2 DEF TouchInv, OnePoll
  <2> QED BY <2>1, <2>2 DEF OnePoll
<1> QED BY <1>2, <1>3, <1>4 DEF TouchInv

LEMMA PollKnows ==
    ASSUME TypeOK, Consistent, TouchInv, NEW r \in Runs, NEW h \in Hosts, Polls(r, h)
    PROVE  LET n == runs[r].index[h] IN
           /\ h \in Chats /\ h \notin overlapped /\ n \in 0 .. MaxTurns /\ n <= turns[h]
           /\ ~runs[r].old => Live(runs[r]) /\ latest[h] <= n
<1>1. /\ runs[r].kind = "poll" /\ h \in runs[r].todo /\ runs[r].index[h] \in 0 .. MaxTurns
  BY PollsIs
<1>2. h \in Chats /\ h \notin overlapped
  BY WatchAssumption DEF Chats, TypeOK
<1>3. runs[r].index[h] <= turns[h]
  BY <1>1 DEF Consistent, Behind
<1> QED BY <1>1, <1>2, <1>3 DEF Live, TouchInv, OnePoll

LEMMA PollGoesOn ==
    ASSUME TypeOK, NEW r \in Runs, NEW h \in Hosts, PollTouches(r, h) \/ PollAnnounces(r, h)
    PROVE  /\ Unchanged(r) /\ \A c : ~Compares(runs'[r], c)
           /\ Live(runs'[r]) => /\ Live(runs[r]) /\ runs'[r].index = runs[r].index
                                /\ runs'[r].todo \subseteq runs[r].todo \ {h}
<1>1. Unchanged(r) /\ runs[r].kind = "poll"
  BY PollTouchesIs, PollAnnouncesIs, PollsIs DEF Moves, PollTouches, PollAnnounces
<1>2. CASE runs'[r] = Idle
  BY <1>1, <1>2, IdleIs DEF Compares, Live
<1>3. CASE runs'[r] # Idle
  <2>1. /\ runs'[r].kind = "poll" /\ runs'[r].index = runs[r].index
        /\ runs'[r].todo = runs[r].todo \ {h} /\ runs'[r].old = runs[r].old
    BY <1>3, PollTouchesIs, PollAnnouncesIs
  <2> QED BY <1>1, <2>1 DEF Compares, Live
<1> QED BY <1>2, <1>3

LEMMA PollTouchesKeeps ==
    ASSUME TypeOK, TypeOK', Consistent, TouchInv, NEW r \in Runs, NEW h \in Hosts,
           PollTouches(r, h)
    PROVE  TouchInv'
<1> USE DEF editor, watcher, history
<1> DEFINE n == runs[r].index[h]
<1>1. /\ h \in Chats /\ h \notin overlapped /\ n \in 0 .. MaxTurns /\ n <= turns[h]
      /\ ~runs[r].old => Live(runs[r]) /\ latest[h] <= n
  BY PollKnows DEF PollTouches
<1>2. turns' = turns /\ overlapped' = overlapped
  BY DEF PollTouches
<1>3. \/ Unmoved
      \/ ~runs[r].old /\ NewestTurn(h, n)
  BY DEF PollTouches
<1>4. \A c \in Chats : turns[c] <= turns'[c]
  BY <1>2, TouchTyped
<1> HIDE DEF n
<1>5. CASE Unmoved
  <2>1. UNCHANGED <<latest, base, touches, overlapped>>
    BY <1>2, <1>5 DEF Unmoved
  <2> QED BY <1>4, <2>1, PollGoesOn, TouchMoves
<1>6. CASE ~runs[r].old /\ NewestTurn(h, n)
  <2>1. TouchFor(h)
    BY <1>1 DEF TouchInv
  <2>2. /\ latest'[h] = None <=> base'[h] = None
        /\ latest'[h] <= turns[h] /\ touches'[h] <= latest'[h] - base'[h]
    BY <1>1, <1>6, <2>1, NewestIs
  <2>3. \A c \in Chats : c # h =>
            latest'[c] = latest[c] /\ base'[c] = base[c] /\ touches'[c] = touches[c]
    BY <1>1, <1>6, NewestElsewhere
  <2>4. Live(runs[r])
    BY <1>1, <1>6
  <2> QED BY <1>2, <2>2, <2>3, <2>4, PollGoesOn, HostMoves
<1> QED BY <1>3, <1>5, <1>6

LEMMA PollAnnouncesKeeps ==
    ASSUME TypeOK, TypeOK', Consistent, TouchInv, NEW r \in Runs, NEW h \in Hosts,
           PollAnnounces(r, h)
    PROVE  TouchInv'
<1> USE DEF editor, watcher, history
<1> DEFINE n == runs[r].index[h]
<1>1. /\ h \in Chats /\ h \notin overlapped /\ n \in 0 .. MaxTurns /\ n <= turns[h]
      /\ ~runs[r].old => Live(runs[r]) /\ latest[h] <= n
  BY PollKnows DEF PollAnnounces
<1>2. turns' = turns /\ overlapped' = overlapped /\ touches' = touches
  BY DEF PollAnnounces
<1>3. \A c \in Chats : turns[c] <= turns'[c]
  BY <1>2, TouchTyped
<1>4. CASE runs[r].old
  <2>1. UNCHANGED <<latest, base, touches, overlapped>>
    BY <1>2, <1>4 DEF PollAnnounces
  <2> QED BY <1>3, <2>1, PollGoesOn, TouchMoves
<1>5. CASE ~runs[r].old
  <2>1. /\ latest \in [Chats -> None .. MaxTurns] /\ base \in [Chats -> None .. MaxTurns]
    BY DEF TypeOK
  <2>2. /\ latest' = [latest EXCEPT ![h] = n]
        /\ base' = [base EXCEPT ![h] = IF base[h] = None THEN n ELSE base[h]]
    BY <1>5 DEF PollAnnounces
  <2> HIDE DEF n
  <2>3. /\ latest'[h] = n /\ base'[h] = (IF base[h] = None THEN n ELSE base[h])
        /\ \A c \in Chats : c # h => latest'[c] = latest[c] /\ base'[c] = base[c]
    BY <1>1, <2>1, <2>2
  <2>4. /\ latest[h] = None <=> base[h] = None
        /\ touches[h] <= latest[h] - base[h]
    BY <1>1 DEF TouchInv, TouchFor
  <2>5. /\ latest[h] \in Int /\ base[h] \in Int /\ touches[h] \in Nat /\ n \in Nat
        /\ latest[h] <= n
    BY <1>1, <1>5, TouchTyped
  <2>6. /\ latest'[h] = None <=> base'[h] = None
        /\ touches'[h] <= latest'[h] - base'[h]
    BY <1>2, <2>3, <2>4, <2>5 DEF None
  <2>7. latest'[h] <= turns[h] /\ Live(runs[r])
    BY <1>1, <1>5, <2>3
  <2>8. \A c \in Chats : c # h =>
            latest'[c] = latest[c] /\ base'[c] = base[c] /\ touches'[c] = touches[c]
    BY <1>2, <2>3
  <2> QED BY <1>2, <2>6, <2>7, <2>8, PollGoesOn, HostMoves
<1> QED BY <1>4, <1>5

LEMMA TouchReset ==
    ASSUME TypeOK, TypeOK', Reset
    PROVE  TouchInv'
<1>1. ASSUME NEW q \in Runs, NEW c PROVE ~Compares(runs'[q], c) /\ ~Live(runs'[q])
  <2>1. CASE runs'[q] = Idle
    BY <2>1, IdleIs DEF Compares, Live
  <2>2. CASE runs'[q] # Idle
    BY <2>2, ResetIs DEF Compares, Live
  <2> QED BY <2>1, <2>2
<1>2. PICK S \in Seedings : Seeds(S)
  BY DEF Reset
<1>3. ASSUME NEW c \in Chats PROVE TouchFor(c)'
  <2>1. /\ latest'[c] = (IF c \in S THEN turns[c] ELSE None) /\ base' = latest'
        /\ touches'[c] = 0 /\ turns' = turns
    BY <1>2 DEF Seeds, Reset, editor
  <2>2. turns[c] \in Nat
    BY TouchTyped
  <2> QED BY <1>1, <2>1, <2>2 DEF TouchFor, None
<1> QED BY <1>1, <1>3 DEF TouchInv, OnePoll

LEMMA TouchInit ==
    ASSUME Init
    PROVE  TouchInv
<1>1. \A q \in Runs : \A c : ~Compares(runs[q], c) /\ ~Live(runs[q])
  <2>1. \A q \in Runs : runs[q] = Idle
    BY DEF Init
  <2> QED BY <2>1, IdleIs DEF Compares, Live
<1>2. ASSUME NEW c \in Chats PROVE TouchFor(c)
  <2>1. /\ latest[c] = (IF c \in seen THEN turns[c] ELSE None) /\ base = latest
        /\ touches[c] = 0 /\ turns[c] \in 0 .. 1
    BY DEF Init
  <2> QED BY <1>1, <2>1 DEF TouchFor, None
<1> QED BY <1>1, <1>2 DEF TouchInv, OnePoll

LEMMA TouchNext ==
    ASSUME TypeOK, TypeOK', Consistent, TouchInv, [Next]_vars
    PROVE  TouchInv'
<1> USE DEF editor, watcher, bridge, history
<1>1. \A c \in Chats : turns[c] <= turns'[c]
  BY TurnsGrow
<1>2. ASSUME UNCHANGED <<latest, base, touches, overlapped, runs>> PROVE TouchInv'
  <2>1. \A q \in Runs : runs'[q] = runs[q]
    BY <1>2
  <2> QED BY <1>1, <1>2, <2>1, TouchStill
<1>3. ASSUME UNCHANGED <<latest, base, touches, overlapped>>, NEW r \in Runs, Unchanged(r),
             runs'[r] = Idle \/ runs'[r].kind = "handle"
                 \/ (runs'[r].kind = "scan" /\ runs'[r].at # "reading")
      PROVE  TouchInv'
  <2>1. ~Live(runs'[r]) /\ \A c : ~Compares(runs'[r], c)
    BY <1>3, IdleIs DEF Live, Compares
  <2> QED BY <1>1, <1>3, <2>1, TouchMoves
<1>4. CASE Editor
  BY <1>2, <1>4 DEF Editor, Ask, Answered, Rewritten, ToolNotifies, Archives
<1>5. ASSUME NEW r \in Runs, Announced(r) \/ AnnounceFails(r) PROVE TouchInv'
  <2>1. UNCHANGED <<latest, base, touches, overlapped>>
    BY <1>5 DEF Announced, AnnounceFails
  <2>2. CASE runs'[r] = Idle
    BY <1>3, <1>5, <2>1, <2>2, AnnounceEndsIs DEF Moves
  <2>3. CASE runs'[r] # Idle
    <3>1. /\ Unchanged(r) /\ runs[r].kind = "poll" /\ runs'[r].kind = "poll"
          /\ runs'[r].index = runs[r].index /\ runs'[r].todo = runs[r].todo
          /\ runs'[r].old = runs[r].old
      BY <1>5, <2>3, AnnounceEndsIs DEF Moves
    <3>2. /\ \A c : ~Compares(runs'[r], c)
          /\ Live(runs'[r]) => Live(runs[r])
      BY <3>1 DEF Compares, Live
    <3> QED BY <1>1, <2>1, <3>1, <3>2, TouchMoves
  <2> QED BY <2>2, <2>3
<1>6. CASE Handles
  <2>1. ASSUME NEW c \in Transcripts, Schedule(c) PROVE TouchInv'
    BY <1>2, <2>1 DEF Schedule
  <2>2. ASSUME NEW r \in Runs, NEW c \in Transcripts, Handle(r, c) PROVE TouchInv'
    <3>1. UNCHANGED <<latest, base, touches, overlapped>>
      BY <2>2 DEF Handle
    <3> QED BY <1>2, <1>3, <2>2, <3>1, HandleIs DEF Moves
  <2>3. ASSUME NEW r \in Runs, Unreadable(r) PROVE TouchInv'
    <3>1. UNCHANGED <<latest, base, touches, overlapped>>
      BY <2>3 DEF Unreadable
    <3> QED BY <1>3, <2>3, <3>1, EndsIs DEF Moves
  <2>4. ASSUME NEW r \in Runs, Readable(r) PROVE TouchInv'
    <3>1. UNCHANGED <<latest, base, touches, overlapped>>
      BY <2>4 DEF Readable
    <3> QED BY <1>3, <2>4, <3>1, ReadableIs DEF Moves
  <2> QED BY <1>6, <2>1, <2>2, <2>3, <2>4 DEF Handles
<1>7. CASE ScansTurns
  <2>1. ASSUME NEW r \in Runs, ScanFails(r) PROVE TouchInv'
    <3>1. UNCHANGED <<latest, base, touches, overlapped>>
      BY <2>1 DEF ScanFails
    <3> QED BY <1>3, <2>1, <3>1, EndsIs DEF Moves
  <2>2. ASSUME NEW r \in Runs, Passes(r) \/ Posts(r) \/ PostEnds(r) PROVE TouchInv'
    <3>1. UNCHANGED <<latest, base, touches, overlapped>>
      BY <2>2 DEF Passes, Posts, Posting, PostEnds
    <3> QED BY <1>3, <2>2, <3>1, ScanGoesOn DEF Moves
  <2> QED BY <1>7, <2>1, <2>2, ScanStarts, ScanTouches DEF ScansTurns
<1>8. CASE PollsHosts
  BY <1>8, PollBegins, PollTouchesKeeps, PollAnnouncesKeeps DEF PollsHosts
<1>9. CASE ConfigChanges \/ UNCHANGED vars
  BY <1>2, <1>9 DEF ConfigChanges, vars
<1> QED BY <1>4, <1>5, <1>6, <1>7, <1>8, <1>9, TouchReset DEF Next, Announces

(* A chat is touched no more often than it has got turns since its first   *)
(* baseline, however often its transcript is rewritten or the index polled *)
(* again, unless two scans were reading it at a time.                      *)
THEOREM TouchesAreTurns == Spec => []TouchIsTurn
<1>1. Init => Consistent /\ TouchInv
  BY ConsistentInit, TouchInit
<1>2. TypeOK /\ TypeOK' /\ Consistent /\ TouchInv /\ [Next]_vars => Consistent' /\ TouchInv'
  BY ConsistentNext, TouchNext
<1>3. TouchInv => TouchIsTurn
  BY DEF TouchInv, TouchFor, TouchIsTurn
<1> QED BY <1>1, <1>2, <1>3, WatchTypeCorrect, PTL DEF Spec
=============================================================================
