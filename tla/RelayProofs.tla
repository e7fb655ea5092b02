---------------------------- MODULE RelayProofs ----------------------------
(***************************************************************************)
(* Theorems about Relay, for any number of sessions, replies and faults.   *)
(***************************************************************************)
EXTENDS Relay, WellFoundedInduction, TLAPS

-----------------------------------------------------------------------------
(* Records and files *)

(* The newest of some replies exists. *)
LEMMA Newer ==
    ASSUME NEW rs, rs \subseteq Replies, NEW r \in rs
    PROVE  \E p \in rs : \A q \in rs : q <= p
<1> DEFINE Away == {MaxReplies - p : p \in rs}
<1>1. Away \subseteq Nat /\ Away # {}
  BY RelayAssumption DEF Replies
<1>2. PICK a \in Away : \A b \in Away : <<b, a>> \notin OpToRel(<, Nat)
  BY <1>1, NatLessThanWellFounded, WFMin
<1>3. PICK p \in rs : a = MaxReplies - p
  OBVIOUS
<1>4. \A q \in rs : q <= p
  <2> SUFFICES ASSUME NEW q \in rs PROVE q <= p
    OBVIOUS
  <2>1. MaxReplies - q \in Away
    OBVIOUS
  <2>2. ~(MaxReplies - q < a)
    BY <1>1, <1>2, <2>1 DEF OpToRel
  <2> QED BY <1>3, <2>2, RelayAssumption DEF Replies
<1> QED BY <1>4

(* A watermark moves to the newest reply that was read, never back. *)
LEMMA NewestIs ==
    ASSUME NEW rs, rs \subseteq Replies, NEW m \in Nat
    PROVE  /\ Newest(m, rs) \in {m} \union rs
           /\ m <= Newest(m, rs)
           /\ \A r \in rs : r <= Newest(m, rs)
<1>1. CASE \E r \in rs : r > m
  <2>1. \E p \in rs : \A q \in rs : q <= p
    BY <1>1, Newer
  <2>2. Newest(m, rs) \in rs /\ \A q \in rs : q <= Newest(m, rs)
    BY <1>1, <2>1 DEF Newest
  <2>3. PICK r \in rs : r > m
    BY <1>1
  <2>4. Newest(m, rs) \in Nat /\ r \in Nat /\ r <= Newest(m, rs)
    <3>1. Newest(m, rs) \in Replies /\ r \in Replies
      BY <2>2
    <3>2. \A q \in Replies : q \in Nat
      BY RelayAssumption DEF Replies
    <3> QED BY <2>2, <3>1, <3>2
  <2> HIDE DEF Newest
  <2> QED BY <2>2, <2>3, <2>4
<1>2. CASE ~ \E r \in rs : r > m
  BY <1>2, RelayAssumption DEF Newest, Replies
<1> QED BY <1>1, <1>2

(* poll() of the server: what a read adds. *)
LEMMA PolledIs ==
    ASSUME NEW rec \in Record, NEW new, NEW expires, new \subseteq Replies, expires \in BOOLEAN
    PROVE  LET p == Polled(rec, new, expires)
           IN  /\ p \in Record
               /\ p.seen = rec.seen \union new /\ p.pending = rec.pending \union new
               /\ p.delivered = rec.delivered /\ p.mark = Newest(rec.mark, new)
<1>1. rec.mark \in Nat /\ rec.mark \in 0 .. MaxReplies
  BY RelayAssumption DEF Record
<1>2. Newest(rec.mark, new) \in {rec.mark} \union new
  BY <1>1, NewestIs
<1>3. Newest(rec.mark, new) \in 0 .. MaxReplies
  <2>1. Newest(rec.mark, new) = rec.mark \/ Newest(rec.mark, new) \in Replies
    BY <1>2
  <2>2. \A q \in Replies : q \in 0 .. MaxReplies
    BY RelayAssumption DEF Replies
  <2> QED BY <1>1, <2>1, <2>2
<1> QED BY <1>3 DEF Polled, Record

(* collect(): what a read adds. *)
LEMMA CollectedIs ==
    ASSUME NEW rec \in Record, NEW new, new \subseteq Replies
    PROVE  LET p == Collected(rec, new)
           IN  /\ p \in Record
               /\ p.seen = rec.seen \union new /\ p.pending = rec.pending \union new
               /\ p.delivered = rec.delivered /\ p.mark = Newest(rec.mark, new)
<1>1. rec.mark \in Nat /\ rec.mark \in 0 .. MaxReplies
  BY RelayAssumption DEF Record
<1>2. Newest(rec.mark, new) \in {rec.mark} \union new
  BY <1>1, NewestIs
<1>3. Newest(rec.mark, new) \in 0 .. MaxReplies
  <2>1. Newest(rec.mark, new) = rec.mark \/ Newest(rec.mark, new) \in Replies
    BY <1>2
  <2>2. \A q \in Replies : q \in 0 .. MaxReplies
    BY RelayAssumption DEF Replies
  <2> QED BY <1>1, <2>1, <2>2
<1> QED BY <1>3 DEF Collected, Record

(* clear(): what leaves the queue. *)
LEMMA ClearedIs ==
    ASSUME NEW rec \in Record, NEW ids, ids \subseteq Replies
    PROVE  LET p == Cleared(rec, ids)
           IN  /\ p \in Record
               /\ p.seen = rec.seen /\ p.pending = rec.pending \ ids
               /\ p.delivered = rec.delivered \union ids /\ p.mark = rec.mark
BY DEF Cleared, Record

(* reconcile(): the server's record against the file's. *)
LEMMA ReconciledIs ==
    ASSUME NEW mine \in Record, NEW other \in Record
    PROVE  LET p == Reconciled(mine, other)
               known == other.delivered \union mine.delivered
           IN  /\ p \in Record
               /\ p.seen = mine.seen /\ p.pending = mine.pending \ known
               /\ p.delivered = known /\ p.mark = mine.mark
BY DEF Reconciled, Record

(* A record and what it says of replies, whatever its flags say. *)
Alike(p, rec) ==
    p.seen = rec.seen /\ p.pending = rec.pending /\ p.delivered = rec.delivered /\ p.mark = rec.mark

(* The edits that change flags alone. *)
LEMMA FlagsOnly ==
    ASSUME NEW rec \in Record
    PROVE  /\ [rec EXCEPT !.quiet = TRUE] \in Record /\ Alike([rec EXCEPT !.quiet = TRUE], rec)
           /\ [rec EXCEPT !.chat = TRUE] \in Record /\ Alike([rec EXCEPT !.chat = TRUE], rec)
           /\ [rec EXCEPT !.noticed = TRUE] \in Record /\ Alike([rec EXCEPT !.noticed = TRUE], rec)
           /\ [rec EXCEPT !.quiet = FALSE] \in Record /\ Alike([rec EXCEPT !.quiet = FALSE], rec)
           /\ [rec EXCEPT !.expired = FALSE, !.quiet = FALSE] \in Record
           /\ Alike([rec EXCEPT !.expired = FALSE, !.quiet = FALSE], rec)
BY DEF Record, Alike

(* What a file holds of a session. *)
LEMMA FileIs ==
    ASSUME NEW f \in File, NEW s \in Sessions
    PROVE  f[s] # None => f[s] \in Record
BY DEF File

(* A record written into a file. *)
LEMMA FileSet ==
    ASSUME NEW f \in File, NEW s \in Sessions, NEW rec \in Record
    PROVE  [f EXCEPT ![s] = rec] \in File
BY DEF File

-----------------------------------------------------------------------------
(* What a copy of a record promises.  lg is the thread, D the replies that *)
(* are dealt with for good, R the sessions whose watermark was moved back. *)

(* A record owes a reply: it is in the queue or a fetch will return it.    *)
Owes(rec, r) == r \in rec.pending \/ (r > rec.mark /\ r \notin rec.seen /\ r \notin rec.delivered)

Good(rec, s, lg, D, R) ==
    /\ rec.mark <= Len(lg)
    /\ rec.seen \subseteq DOMAIN lg /\ rec.pending \subseteq DOMAIN lg
    /\ rec.delivered \subseteq D
    /\ s \notin R => \A r \in DOMAIN lg : lg[r] = s => (Owes(rec, r) \/ r \in D)

GoodFile(f, lg, D, R) == \A s \in Sessions : f[s] # None => Good(f[s], s, lg, D, R)

(* It stays so when more is dealt with and more sessions are rewound.      *)
LEMMA GoodGrows ==
    ASSUME NEW f, NEW lg, NEW D, NEW R, GoodFile(f, lg, D, R),
           NEW E, NEW S, D \subseteq E, R \subseteq S
    PROVE  GoodFile(f, lg, E, S)
BY DEF GoodFile, Good

(* It stays so when a reply is posted: no record has read or queued it.    *)
LEMMA GoodAppends ==
    ASSUME NEW f \in File, NEW lg \in Seq(Sessions), Len(lg) < MaxReplies, NEW D, NEW R,
           D \subseteq DOMAIN lg, GoodFile(f, lg, D, R), NEW t \in Sessions
    PROVE  GoodFile(f, Append(lg, t), D, R)
<1> DEFINE up == Append(lg, t)
<1>1. /\ Len(lg) \in Nat /\ Len(up) = Len(lg) + 1 /\ DOMAIN lg = 1 .. Len(lg)
      /\ DOMAIN up = 1 .. Len(lg) + 1
      /\ \A r \in DOMAIN lg : up[r] = lg[r]
  OBVIOUS
<1> SUFFICES ASSUME NEW s \in Sessions, f[s] # None PROVE Good(f[s], s, up, D, R)
  BY DEF GoodFile
<1> DEFINE rec == f[s]
<1>2. rec \in Record /\ Good(rec, s, lg, D, R)
  BY FileIs DEF GoodFile
<1>3. rec.mark \in Nat
  BY <1>2, RelayAssumption DEF Record
<1> HIDE DEF up, rec
<1>4. DOMAIN lg \subseteq DOMAIN up
  BY <1>1
<1>5. rec.mark <= Len(up) /\ rec.seen \subseteq DOMAIN up /\ rec.pending \subseteq DOMAIN up
      /\ rec.delivered \subseteq D
  BY <1>1, <1>2, <1>3, <1>4 DEF Good
<1>6. ASSUME s \notin R, NEW r \in DOMAIN up, up[r] = s PROVE Owes(rec, r) \/ r \in D
  <2>1. CASE r \in DOMAIN lg
    BY <1>1, <1>2, <1>6, <2>1 DEF Good
  <2>2. CASE r \notin DOMAIN lg
    <3>1. r = Len(lg) + 1
      BY <1>1, <2>2
    <3>2. r > rec.mark
      BY <1>1, <1>2, <1>3, <3>1 DEF Good
    <3>3. r \notin rec.seen /\ r \notin rec.delivered
      BY <1>2, <2>2 DEF Good
    <3> QED BY <3>2, <3>3 DEF Owes
  <2> QED BY <2>1, <2>2
<1>7. Good(rec, s, up, D, R)
  BY <1>5, <1>6 DEF Good
<1> QED BY <1>7 DEF up, rec

(* The flags of a record promise nothing. *)
LEMMA GoodAlike ==
    ASSUME NEW rec, NEW p, Alike(p, rec), NEW s, NEW lg, NEW D, NEW R, Good(rec, s, lg, D, R)
    PROVE  Good(p, s, lg, D, R)
BY DEF Good, Alike, Owes

(* A good record put into a good file. *)
LEMMA GoodSet ==
    ASSUME NEW f \in File, NEW lg, NEW D, NEW R, GoodFile(f, lg, D, R),
           NEW s \in Sessions, NEW rec, Good(rec, s, lg, D, R)
    PROVE  GoodFile([f EXCEPT ![s] = rec], lg, D, R)
BY DEF GoodFile, File

(* GoesQuiet() and the quiet flag of any copy. *)
LEMMA GoodQuiet ==
    ASSUME NEW f \in File, NEW lg, NEW D, NEW R, GoodFile(f, lg, D, R), NEW s \in Sessions
    PROVE  /\ Quieten(f, s) \in File /\ GoodFile(Quieten(f, s), lg, D, R)
           /\ \A t \in Sessions : /\ Quieten(f, s)[t] = None <=> f[t] = None
                                  /\ f[t] # None => Alike(Quieten(f, s)[t], f[t])
<1>1. CASE f[s] = None
  BY <1>1 DEF Quieten, Alike
<1>2. CASE f[s] # None
  <2> DEFINE rec == [f[s] EXCEPT !.quiet = TRUE]
  <2>1. f[s] \in Record /\ Good(f[s], s, lg, D, R)
    BY <1>2, FileIs DEF GoodFile
  <2>2. rec \in Record /\ Alike(rec, f[s])
    BY <2>1, FlagsOnly
  <2>3. Good(rec, s, lg, D, R)
    BY <2>1, <2>2, GoodAlike
  <2>4. Quieten(f, s) = [f EXCEPT ![s] = rec]
    BY <1>2 DEF Quieten
  <2>5. [f EXCEPT ![s] = rec] \in File
    BY <2>2, FileSet
  <2>6. GoodFile([f EXCEPT ![s] = rec], lg, D, R)
    BY <2>3, GoodSet
  <2>7. [f EXCEPT ![s] = rec][s] = rec /\ \A t \in Sessions : t # s => [f EXCEPT ![s] = rec][t] = f[t]
    BY DEF File
  <2> HIDE DEF rec
  <2>8. rec # None
    BY <2>2, NoneAssumption
  <2>9. \A t \in Sessions : Alike(f[t], f[t])
    BY DEF Alike
  <2> QED BY <1>2, <2>2, <2>4, <2>5, <2>6, <2>7, <2>8, <2>9
<1> QED BY <1>1, <1>2

(* What a read adds: p is rec with the replies new.  A reply that rec owes *)
(* by its watermark only is one of them, or is newer than all of them.     *)
LEMMA GoodRead ==
    ASSUME NEW rec \in Record, NEW s \in Sessions, NEW lg \in Seq(Sessions), NEW D, NEW R,
           Good(rec, s, lg, D, R), Len(lg) <= MaxReplies,
           NEW new, new \subseteq DOMAIN lg,
           s \notin R => \A q \in new : \A r \in DOMAIN lg :
               (lg[r] = s /\ r > rec.mark /\ r <= q)
                   => (r \in new \/ r \in rec.seen \/ r \in rec.delivered),
           NEW p, p.seen = rec.seen \union new, p.pending = rec.pending \union new,
           p.delivered = rec.delivered, p.mark = Newest(rec.mark, new)
    PROVE  Good(p, s, lg, D, R)
<1>1. Len(lg) \in Nat /\ DOMAIN lg = 1 .. Len(lg) /\ rec.mark \in Nat
  BY RelayAssumption DEF Record
<1>2. new \subseteq Replies
  BY <1>1, RelayAssumption DEF Replies
<1>3. /\ p.mark = rec.mark \/ p.mark \in new
      /\ \A q \in new : q <= p.mark
  BY <1>1, <1>2, NewestIs
<1>4. \A r \in DOMAIN lg : r \in Nat /\ r <= Len(lg)
  BY <1>1
<1>5. p.mark \in Nat /\ p.mark <= Len(lg)
  BY <1>1, <1>3, <1>4 DEF Good
<1>6. p.seen \subseteq DOMAIN lg /\ p.pending \subseteq DOMAIN lg /\ p.delivered \subseteq D
  BY DEF Good
<1>7. ASSUME s \notin R, NEW r \in DOMAIN lg, lg[r] = s, r \notin D PROVE Owes(p, r)
  <2>1. Owes(rec, r)
    BY <1>7 DEF Good
  <2>2. CASE r \in rec.pending \/ r \in new
    BY <2>2 DEF Owes
  <2>3. CASE r \notin rec.pending /\ r \notin new
    <3>1. r > rec.mark /\ r \notin rec.seen /\ r \notin rec.delivered
      BY <2>1, <2>3 DEF Owes
    <3>2. \A q \in new : ~(r <= q)
      BY <1>7, <2>3, <3>1
    <3>3. r > p.mark
      BY <1>3, <1>4, <3>1, <3>2
    <3> QED BY <2>3, <3>1, <3>3 DEF Owes
  <2> QED BY <2>2, <2>3
<1> QED BY <1>5, <1>6, <1>7 DEF Good

(* What takes replies out: p is rec without some that are dealt with.      *)
LEMMA GoodTaken ==
    ASSUME NEW rec, NEW s, NEW lg, NEW D, NEW R, Good(rec, s, lg, D, R),
           NEW p, p.seen = rec.seen, p.mark = rec.mark,
           p.pending \subseteq rec.pending, rec.pending \ p.pending \subseteq D,
           p.delivered \subseteq D, rec.delivered \subseteq p.delivered
    PROVE  Good(p, s, lg, D, R)
<1>1. ASSUME NEW r, Owes(rec, r) PROVE Owes(p, r) \/ r \in D
  BY <1>1 DEF Owes
<1> QED BY <1>1 DEF Good

(* reactivate(): what an expired record owed is dealt with on purpose.     *)
LEMMA GoodRevived ==
    ASSUME NEW rec \in Record, NEW s \in Sessions, log \in Seq(Sessions), Len(log) <= MaxReplies,
           NEW D, NEW R, Good(rec, s, log, D, R),
           rec.expired => Owed(rec, s) \subseteq D
    PROVE  Revived(rec) \in Record /\ Good(Revived(rec), s, log, D, R)
<1>1. CASE rec.expired
  <2> DEFINE p == [rec EXCEPT !.expired = FALSE, !.noticed = FALSE, !.mark = Len(log),
                              !.pending = {}, !.quiet = FALSE]
  <2>1. Revived(rec) = p
    BY <1>1 DEF Revived
  <2>2. Len(log) \in Nat /\ Len(log) \in 0 .. MaxReplies
    BY RelayAssumption
  <2>3. /\ p \in Record /\ p.seen = rec.seen /\ p.pending = {} /\ p.mark = Len(log)
        /\ p.delivered = rec.delivered
    BY <2>2 DEF Record
  <2> HIDE DEF p
  <2>4. ASSUME s \notin R, NEW r \in DOMAIN log, log[r] = s PROVE r \in D
    BY <1>1, <2>4 DEF Good, Owes, Owed, Posted
  <2>5. p.mark <= Len(log) /\ p.seen \subseteq DOMAIN log /\ p.pending \subseteq DOMAIN log
        /\ p.delivered \subseteq D
    BY <2>2, <2>3 DEF Good
  <2>6. Good(p, s, log, D, R)
    BY <2>4, <2>5 DEF Good
  <2> QED BY <2>1, <2>3, <2>6
<1>2. CASE ~rec.expired
  BY <1>2, FlagsOnly, GoodAlike DEF Revived
<1> QED BY <1>1, <1>2

(* mergeForWrite(): the server's write is as good as both its parts.       *)
LEMMA GoodMerged ==
    ASSUME NEW m \in File, NEW d \in File, NEW lg, NEW D, NEW R,
           GoodFile(m, lg, D, R), GoodFile(d, lg, D, R)
    PROVE  mergeForWrite(m, d) \in File /\ GoodFile(mergeForWrite(m, d), lg, D, R)
<1> DEFINE f == mergeForWrite(m, d)
<1>1. ASSUME NEW s \in Sessions
      PROVE  f[s] \in Record \union {None} /\ (f[s] # None => Good(f[s], s, lg, D, R))
  <2>1. CASE m[s] = None \/ d[s] = None
    BY <2>1, FileIs DEF mergeForWrite, GoodFile
  <2>2. CASE m[s] # None /\ d[s] # None
    <3> DEFINE p == Reconciled(m[s], d[s])
    <3>1. f[s] = p
      BY <2>2 DEF mergeForWrite
    <3>2. m[s] \in Record /\ d[s] \in Record /\ Good(m[s], s, lg, D, R) /\ Good(d[s], s, lg, D, R)
      BY <2>2, FileIs DEF GoodFile
    <3>3. /\ p \in Record /\ p.seen = m[s].seen /\ p.mark = m[s].mark
          /\ p.delivered = d[s].delivered \union m[s].delivered
          /\ p.pending = m[s].pending \ (d[s].delivered \union m[s].delivered)
      BY <3>2, ReconciledIs
    <3>4. d[s].delivered \subseteq D /\ m[s].delivered \subseteq D
      BY <3>2 DEF Good
    <3> HIDE DEF p
    <3>5. Good(p, s, lg, D, R)
      BY <3>2, <3>3, <3>4, GoodTaken
    <3> QED BY <3>1, <3>3, <3>5
  <2> QED BY <2>1, <2>2
<1>2. f = [s \in Sessions |-> f[s]]
  BY DEF mergeForWrite
<1> HIDE DEF f
<1>3. f \in File
  BY <1>1, <1>2 DEF File
<1>4. GoodFile(f, lg, D, R)
  BY <1>1 DEF GoodFile
<1> QED BY <1>3, <1>4 DEF f

-----------------------------------------------------------------------------
(* The inductive invariant *)

(* Replies that are dealt with for good. *)
Dealt == inChat \union settled \union elsewhere

(* Every copy of the file, one read earlier included, keeps its promise.   *)
FilesGood ==
    /\ GoodFile(disk, log, Dealt, rewound) /\ GoodFile(mem, log, Dealt, rewound)
    /\ GoodFile(copy, log, Dealt, rewound) /\ GoodFile(edit, log, Dealt, rewound)
    /\ react # None => GoodFile(react, log, Dealt, rewound)

(* The relay works on replies that were posted, and clears those that are  *)
(* dealt with.                                                             *)
QueueGood ==
    /\ rest \subseteq DOMAIN log /\ reply \in DOMAIN log \union {0}
    /\ Dealt \subseteq DOMAIN log
    /\ \A s \in Sessions : taken[s] \subseteq Dealt

(* Where drain() is at work on a session, and on a reply of it.            *)
AtReply == {"name", "naming", "handing", "delivering"}
AtSession == AtReply \union {"identify", "identifying", "held"}
Control ==
    /\ at \in AtSession => cur \in Sessions /\ copy[cur] # None
    /\ at \in AtSession \union {"session", "fetching"} => left \subseteq Known(copy)
    /\ at \in AtReply => reply # 0

(* A claim stands for a delivery that is under way or dealt with.          *)
ClaimsHeld ==
    /\ elsewhere \subseteq claims /\ inChat \subseteq claims /\ Delivering \subseteq claims
    /\ claims \subseteq Dealt \union Delivering

(* What the running loop read is no newer than what is in the file. *)
Behind == \A s \in Sessions \ rewound : copy[s] # None => disk[s] # None /\ copy[s].mark <= disk[s].mark

(* collect(): a fetch leaves no gap above the watermark it started from.   *)
Closed ==
    at = "fetching" => \A s \in Sessions : found[s] # {} =>
        /\ copy[s] # None
        /\ found[s] \subseteq Posted(s)
        /\ \A q \in found[s] : \A r \in Posted(s) : copy[s].mark < r /\ r <= q => r \in found[s]

IInv == TypeOK /\ FilesGood /\ QueueGood /\ Control /\ ClaimsHeld /\ OneDelivery /\ Behind /\ Closed

(* A step that deals with more and rewinds more leaves the copies good. *)
LEMMA Kept ==
    ASSUME IInv, log' = log, Dealt \subseteq Dealt', rewound \subseteq rewound'
    PROVE  /\ GoodFile(disk, log', Dealt', rewound') /\ GoodFile(mem, log', Dealt', rewound')
           /\ GoodFile(copy, log', Dealt', rewound') /\ GoodFile(edit, log', Dealt', rewound')
           /\ react # None => GoodFile(react, log', Dealt', rewound')
           /\ GoodFile(Empty, log', Dealt', rewound')
<1>1. GoodFile(disk, log', Dealt', rewound') /\ GoodFile(mem, log', Dealt', rewound')
  BY GoodGrows DEF IInv, FilesGood
<1>2. GoodFile(copy, log', Dealt', rewound') /\ GoodFile(edit, log', Dealt', rewound')
  BY GoodGrows DEF IInv, FilesGood
<1>3. react # None => GoodFile(react, log', Dealt', rewound')
  BY GoodGrows DEF IInv, FilesGood
<1>4. GoodFile(Empty, log', Dealt', rewound')
  BY DEF GoodFile, Empty
<1> QED BY <1>1, <1>2, <1>3, <1>4

(* Posted replies are replies. *)
LEMMA Positions == IInv => DOMAIN log \subseteq Replies
<1> SUFFICES ASSUME IInv PROVE \A r \in DOMAIN log : r \in Replies
  OBVIOUS
<1>1. log \in Seq(Sessions) /\ Len(log) <= MaxReplies
  BY DEF IInv, TypeOK
<1> QED BY <1>1, RelayAssumption DEF Replies

(* The file without records. *)
LEMMA EmptyFile == Empty \in File /\ Known(Empty) = {}
BY DEF Empty, File, Known

(* A write of the file does not move it behind the running loop.           *)
LEMMA BehindKept ==
    ASSUME IInv, NEW f \in File, disk' = f, Rewinds(f), copy' = copy
    PROVE  Behind' /\ rewound \subseteq rewound' /\ rewound' \subseteq Sessions
<1>1. rewound \subseteq rewound' /\ rewound' \subseteq Sessions
  BY DEF Rewinds, IInv, TypeOK, Known
<1>2. ASSUME NEW s \in Sessions, s \notin rewound', copy[s] # None
      PROVE  f[s] # None /\ copy[s].mark <= f[s].mark
  <2>1. disk[s] # None /\ copy[s].mark <= disk[s].mark
    BY <1>1, <1>2 DEF IInv, Behind
  <2>2. f[s] # None /\ ~(f[s].mark < disk[s].mark)
    BY <1>2, <2>1 DEF Rewinds, Known
  <2>3. copy[s] \in Record /\ disk[s] \in Record /\ f[s] \in Record
    BY <1>2, <2>1, <2>2, FileIs DEF IInv, TypeOK
  <2>4. copy[s].mark \in Nat /\ disk[s].mark \in Nat /\ f[s].mark \in Nat
    BY <2>3, RelayAssumption DEF Record
  <2> QED BY <2>1, <2>2, <2>4
<1>3. Behind'
  BY <1>2 DEF Behind
<1> QED BY <1>1, <1>3

-----------------------------------------------------------------------------
(* The steps of the server *)

(* persist() of sessions that are as good as the old ones. *)
LEMMA Persisted ==
    ASSUME IInv, NEW m \in File, GoodFile(m, log, Dealt', rewound), Persist(m),
           UNCHANGED <<log, serving, relayVars, claims, foreign, elsewhere, inChat>>,
           settled \subseteq settled', settled' \subseteq DOMAIN log, settled' \subseteq Replies,
           events' \in 0 .. MaxEvents
    PROVE  IInv'
<1>1. mem' = m /\ disk' = mergeForWrite(m, disk) /\ Rewinds(disk')
  BY DEF Persist
<1>2. Dealt \subseteq Dealt' /\ Dealt' \subseteq DOMAIN log /\ disk \in File
  BY DEF Dealt, IInv, QueueGood, TypeOK
<1>3. GoodFile(disk, log, Dealt', rewound)
  BY <1>2, GoodGrows DEF IInv, FilesGood
<1>4. disk' \in File /\ GoodFile(disk', log, Dealt', rewound)
  BY <1>1, <1>2, <1>3, GoodMerged
<1>5. Behind' /\ rewound \subseteq rewound' /\ rewound' \subseteq Sessions
  BY <1>1, <1>4, BehindKept DEF relayVars
<1>6. FilesGood'
  <2>1. GoodFile(disk', log', Dealt', rewound') /\ GoodFile(mem', log', Dealt', rewound')
    BY <1>1, <1>4, <1>5, GoodGrows
  <2> QED BY <1>2, <1>5, <2>1, Kept DEF FilesGood, relayVars
<1>7. TypeOK'
  BY <1>1, <1>4, <1>5 DEF IInv, TypeOK, relayVars
<1>8. QueueGood' /\ Control' /\ ClaimsHeld' /\ OneDelivery'
  BY <1>2 DEF IInv, QueueGood, Control, ClaimsHeld, OneDelivery, Delivering, Dealt, relayVars, Known
<1>9. Closed'
  BY DEF IInv, Closed, relayVars, Posted
<1> QED BY <1>5, <1>6, <1>7, <1>8, <1>9 DEF IInv

LEMMA BootKeeps == ASSUME IInv, Boot PROVE IInv'
<1>1. FilesGood' /\ Dealt' = Dealt
  BY Kept DEF Boot, FilesGood, history, relayVars, Dealt
<1>2. TypeOK'
  BY RelayAssumption DEF Boot, Event, IInv, TypeOK, relayVars, history
<1>3. QueueGood' /\ Control' /\ ClaimsHeld' /\ OneDelivery' /\ Behind' /\ Closed'
  BY <1>1 DEF Boot, IInv, QueueGood, Control, ClaimsHeld, OneDelivery, Delivering, Behind, Closed, Posted,
              relayVars, history, Known
<1> QED BY <1>1, <1>2, <1>3 DEF IInv

LEMMA ExitKeeps == ASSUME IInv, Exit PROVE IInv'
<1>1. FilesGood' /\ Dealt' = Dealt
  BY Kept DEF Exit, FilesGood, history, relayVars, Dealt
<1>2. TypeOK'
  BY EmptyFile DEF Exit, IInv, TypeOK, relayVars, history
<1>3. QueueGood' /\ Control' /\ ClaimsHeld' /\ OneDelivery' /\ Behind' /\ Closed'
  BY <1>1 DEF Exit, IInv, QueueGood, Control, ClaimsHeld, OneDelivery, Delivering, Behind, Closed, Posted,
              relayVars, history, Known
<1> QED BY <1>1, <1>2, <1>3 DEF IInv

LEMMA NotifyKeeps == ASSUME IInv, NEW s \in Sessions, Notify(s) PROVE IInv'
<1> DEFINE rec == IF mem[s] = None THEN NewRecord
                  ELSE [mem[s] EXCEPT !.expired = FALSE, !.quiet = FALSE]
<1>1. mem \in File /\ GoodFile(mem, log, Dealt, rewound) /\ log \in Seq(Sessions)
  BY DEF IInv, TypeOK, FilesGood
<1>2. rec \in Record /\ Good(rec, s, log, Dealt, rewound)
  <2>1. CASE mem[s] = None
    <3>1. \A r \in DOMAIN log : log[r] # s
      BY <2>1 DEF Notify, Posted
    <3>2. NewRecord \in Record /\ Good(NewRecord, s, log, Dealt, rewound)
      BY <1>1, <3>1, RelayAssumption DEF NewRecord, Record, Good
    <3> QED BY <2>1, <3>2
  <2>2. CASE mem[s] # None
    <3>1. mem[s] \in Record /\ Good(mem[s], s, log, Dealt, rewound)
      BY <1>1, <2>2, FileIs DEF GoodFile
    <3> QED BY <2>2, <3>1, FlagsOnly, GoodAlike
  <2> QED BY <2>1, <2>2
<1>3. Persist([mem EXCEPT ![s] = rec])
  BY DEF Notify
<1> HIDE DEF rec
<1>4. [mem EXCEPT ![s] = rec] \in File /\ GoodFile([mem EXCEPT ![s] = rec], log, Dealt, rewound)
  BY <1>1, <1>2, FileSet, GoodSet
<1>5. /\ UNCHANGED <<log, serving, relayVars, claims, foreign, elsewhere, inChat, settled>>
      /\ events' \in 0 .. MaxEvents /\ Dealt' = Dealt
  BY RelayAssumption DEF Notify, Event, history, Dealt, IInv, TypeOK
<1>6. settled \subseteq DOMAIN log /\ settled \subseteq Replies
  BY DEF IInv, TypeOK, QueueGood, Dealt
<1> QED BY <1>3, <1>4, <1>5, <1>6, Persisted

LEMMA TakeKeeps == ASSUME IInv, NEW s \in Sessions, Take(s) PROVE IInv'
<1> DEFINE rec == [mem[s] EXCEPT !.pending = {}]
<1>1. mem \in File /\ GoodFile(mem, log, Dealt, rewound) /\ mem[s] # None
  BY DEF IInv, TypeOK, FilesGood, Take
<1>2. mem[s] \in Record /\ Good(mem[s], s, log, Dealt, rewound)
  BY <1>1, FileIs DEF GoodFile
<1>3. /\ rec \in Record /\ rec.seen = mem[s].seen /\ rec.mark = mem[s].mark
      /\ rec.pending = {} /\ rec.delivered = mem[s].delivered
  BY <1>2 DEF Record
<1>4. Persist([mem EXCEPT ![s] = rec])
  BY DEF Take
<1>5. /\ UNCHANGED <<log, serving, relayVars, claims, foreign, elsewhere, inChat, events>>
      /\ settled' = settled \union mem[s].pending
  BY DEF Take
<1>6. /\ Dealt \subseteq Dealt' /\ mem[s].pending \subseteq Dealt'
      /\ settled' \subseteq DOMAIN log /\ settled' \subseteq Replies /\ events' \in 0 .. MaxEvents
  BY <1>2, <1>5 DEF Dealt, IInv, QueueGood, TypeOK, Good, Record
<1> HIDE DEF rec
<1>7. Good(rec, s, log, Dealt', rewound)
  <2>1. GoodFile(mem, log, Dealt', rewound)
    BY <1>1, <1>6, GoodGrows
  <2>2. Good(mem[s], s, log, Dealt', rewound)
    BY <1>1, <2>1 DEF GoodFile
  <2>3. mem[s].delivered \subseteq Dealt'
    BY <2>2 DEF Good
  <2> QED BY <1>3, <1>6, <2>2, <2>3, GoodTaken
<1>8. GoodFile(mem, log, Dealt', rewound)
  BY <1>1, <1>6, GoodGrows
<1>9. [mem EXCEPT ![s] = rec] \in File /\ GoodFile([mem EXCEPT ![s] = rec], log, Dealt', rewound)
  BY <1>1, <1>3, <1>7, <1>8, FileSet, GoodSet
<1> QED BY <1>4, <1>5, <1>6, <1>9, Persisted

LEMMA ServerPollKeeps == ASSUME IInv, ServerPoll PROVE IInv'
<1> USE RelayAssumption
<1>1. PICK read \in SUBSET Open(mem) :
        LET New(s) == IF s \in read
                      THEN {r \in Posted(s) : r > mem[s].mark} \ mem[s].seen ELSE {}
        IN  /\ IF read = Open(mem) THEN UNCHANGED events ELSE Fault("fetch")
            /\ Persist([s \in Sessions |->
                   IF mem[s] = None THEN None
                   ELSE Polled(mem[s], New(s), mem[s].expired \/ (mem[s].quiet /\ New(s) = {}))])
  BY DEF ServerPoll
<1> DEFINE New(s) == IF s \in read THEN {r \in Posted(s) : r > mem[s].mark} \ mem[s].seen ELSE {}
           To(s) == Polled(mem[s], New(s), mem[s].expired \/ (mem[s].quiet /\ New(s) = {}))
           m == [s \in Sessions |-> IF mem[s] = None THEN None ELSE To(s)]
<1>2. Persist(m) /\ events' \in 0 .. MaxEvents
  <2>1. events' = events \/ Event
    BY <1>1 DEF Fault
  <2>2. events' \in 0 .. MaxEvents
    BY <2>1 DEF Event, IInv, TypeOK
  <2> QED BY <1>1, <2>2
<1>3. /\ UNCHANGED <<log, serving, relayVars, claims, foreign, elsewhere, inChat, settled>>
      /\ Dealt' = Dealt /\ settled \subseteq DOMAIN log /\ settled \subseteq Replies
  BY DEF ServerPoll, history, Dealt, IInv, TypeOK, QueueGood
<1>4. ASSUME NEW s \in Sessions, mem[s] # None
      PROVE  To(s) \in Record /\ Good(To(s), s, log, Dealt, rewound)
  <2>1. mem[s] \in Record /\ Good(mem[s], s, log, Dealt, rewound)
    BY <1>4, FileIs DEF GoodFile, IInv, TypeOK, FilesGood
  <2>2. log \in Seq(Sessions) /\ Len(log) <= MaxReplies
    BY DEF IInv, TypeOK
  <2>3. New(s) \subseteq DOMAIN log
    BY DEF Posted
  <2>4. DOMAIN log \subseteq Replies
    BY <2>2 DEF Replies
  <2>5. (mem[s].expired \/ (mem[s].quiet /\ New(s) = {})) \in BOOLEAN
    BY <2>1 DEF Record
  <2>6. /\ To(s) \in Record /\ To(s).seen = mem[s].seen \union New(s)
        /\ To(s).pending = mem[s].pending \union New(s)
        /\ To(s).delivered = mem[s].delivered /\ To(s).mark = Newest(mem[s].mark, New(s))
    <3>1. New(s) \subseteq Replies
      BY <2>3, <2>4
    <3> HIDE DEF New
    <3>2. \A expires \in BOOLEAN :
            LET p == Polled(mem[s], New(s), expires)
            IN  /\ p \in Record
                /\ p.seen = mem[s].seen \union New(s) /\ p.pending = mem[s].pending \union New(s)
                /\ p.delivered = mem[s].delivered /\ p.mark = Newest(mem[s].mark, New(s))
      BY <2>1, <3>1, PolledIs
    <3> QED BY <2>5, <3>2
  <2>7. \A q \in New(s) : \A r \in DOMAIN log : (log[r] = s /\ r > mem[s].mark /\ r <= q)
            => (r \in New(s) \/ r \in mem[s].seen \/ r \in mem[s].delivered)
    BY DEF Posted
  <2> HIDE DEF To, New
  <2> QED BY <2>1, <2>2, <2>3, <2>6, <2>7, GoodRead
<1> HIDE DEF To
<1>5. m \in File /\ GoodFile(m, log, Dealt, rewound)
  BY <1>4 DEF File, GoodFile
<1> HIDE DEF m
<1> QED BY <1>2, <1>3, <1>5, Persisted

-----------------------------------------------------------------------------
(* The steps of the environment *)

LEMMA PostKeeps == ASSUME IInv, NEW t \in Sessions, Post(t) PROVE IInv'
<1>1. /\ log' = Append(log, t) /\ Len(log) < MaxReplies /\ log \in Seq(Sessions)
      /\ UNCHANGED <<disk, serving, mem, relayVars, claims, foreign, elsewhere, history, rewound, events>>
  BY DEF Post, IInv, TypeOK
<1>2. /\ log' \in Seq(Sessions) /\ Len(log') <= MaxReplies
      /\ DOMAIN log \subseteq DOMAIN log'
      /\ \A r \in DOMAIN log : log'[r] = log[r]
      /\ \A r \in DOMAIN log' : \A q \in DOMAIN log : r <= q => r \in DOMAIN log
  BY <1>1, RelayAssumption
<1>3. Dealt' = Dealt /\ Dealt \subseteq DOMAIN log
  BY <1>1 DEF Dealt, history, IInv, QueueGood
<1>4. FilesGood'
  <2>1. disk \in File /\ mem \in File /\ copy \in File /\ edit \in File /\ (react # None => react \in File)
    BY DEF IInv, TypeOK
  <2>2. /\ GoodFile(disk, log', Dealt, rewound) /\ GoodFile(mem, log', Dealt, rewound)
        /\ GoodFile(copy, log', Dealt, rewound) /\ GoodFile(edit, log', Dealt, rewound)
    BY <1>1, <1>3, <2>1, GoodAppends DEF IInv, FilesGood
  <2>3. react # None => GoodFile(react, log', Dealt, rewound)
    BY <1>1, <1>3, <2>1, GoodAppends DEF IInv, FilesGood
  <2> QED BY <1>1, <1>3, <2>2, <2>3 DEF FilesGood, relayVars
<1>5. TypeOK'
  BY <1>1, <1>2 DEF IInv, TypeOK, relayVars, history
<1>6. QueueGood' /\ Control' /\ ClaimsHeld' /\ OneDelivery' /\ Behind'
  BY <1>1, <1>2, <1>3 DEF IInv, QueueGood, Control, ClaimsHeld, OneDelivery, Delivering, Behind,
                          relayVars, history, Known
<1>7. Closed'
  <2> SUFFICES ASSUME at = "fetching", NEW s \in Sessions, found[s] # {}
               PROVE  /\ copy[s] # None /\ found[s] \subseteq Posted(s)'
                      /\ \A q \in found[s] : \A r \in Posted(s)' :
                             copy[s].mark < r /\ r <= q => r \in found[s]
    BY <1>1 DEF Closed, relayVars
  <2>1. /\ copy[s] # None /\ found[s] \subseteq Posted(s)
        /\ \A q \in found[s] : \A r \in Posted(s) : copy[s].mark < r /\ r <= q => r \in found[s]
    BY DEF IInv, Closed
  <2>2. Posted(s) \subseteq Posted(s)' /\ Posted(s) \subseteq DOMAIN log
    BY <1>2 DEF Posted
  <2>3. \A q \in found[s] : \A r \in Posted(s)' : r <= q => r \in Posted(s)
    BY <1>2, <2>1, <2>2 DEF Posted
  <2> QED BY <2>1, <2>2, <2>3
<1> QED BY <1>4, <1>5, <1>6, <1>7 DEF IInv

LEMMA GoesQuietKeeps == ASSUME IInv, NEW t \in Sessions, GoesQuiet(t) PROVE IInv'
<1>1. /\ disk' = Quieten(disk, t) /\ mem' = Quieten(mem, t) /\ copy' = Quieten(copy, t)
      /\ edit' = Quieten(edit, t) /\ react' = (IF react = None THEN None ELSE Quieten(react, t))
      /\ UNCHANGED <<log, serving, at, left, found, told, cur, chat, rest, reply, taken, tries, parked,
                     claims, foreign, elsewhere, history, rewound>>
      /\ events' \in 0 .. MaxEvents
  BY RelayAssumption DEF GoesQuiet, Event, IInv, TypeOK
<1>2. Dealt' = Dealt
  BY <1>1 DEF Dealt, history
<1>3. disk \in File /\ mem \in File /\ copy \in File /\ edit \in File /\ (react # None => react \in File)
  BY DEF IInv, TypeOK
<1>4. /\ disk' \in File /\ GoodFile(disk', log, Dealt, rewound)
      /\ mem' \in File /\ GoodFile(mem', log, Dealt, rewound)
      /\ copy' \in File /\ GoodFile(copy', log, Dealt, rewound)
      /\ edit' \in File /\ GoodFile(edit', log, Dealt, rewound)
  BY <1>1, <1>3, GoodQuiet DEF IInv, FilesGood
<1>5. react' # None => react' \in File /\ GoodFile(react', log, Dealt, rewound)
  BY <1>1, <1>3, GoodQuiet DEF IInv, FilesGood
<1>6. \A s \in Sessions : /\ disk'[s] = None <=> disk[s] = None
                          /\ disk[s] # None => disk'[s].mark = disk[s].mark
  BY <1>1, <1>3, GoodQuiet DEF IInv, FilesGood, Alike
<1>7. \A s \in Sessions : /\ copy'[s] = None <=> copy[s] = None
                          /\ copy[s] # None => copy'[s].mark = copy[s].mark
  BY <1>1, <1>3, GoodQuiet DEF IInv, FilesGood, Alike
<1>8. FilesGood'
  BY <1>1, <1>2, <1>4, <1>5 DEF FilesGood
<1>9. TypeOK'
  BY <1>1, <1>4, <1>5 DEF IInv, TypeOK, history
<1>10. QueueGood' /\ ClaimsHeld' /\ OneDelivery'
  BY <1>1, <1>2 DEF IInv, QueueGood, ClaimsHeld, OneDelivery, Delivering, history
<1>11. Control'
  BY <1>1, <1>7 DEF IInv, Control, Known
<1>12. Behind'
  BY <1>1, <1>6, <1>7 DEF IInv, Behind
<1>13. Closed'
  BY <1>1, <1>7 DEF IInv, Closed, Posted
<1> QED BY <1>8, <1>9, <1>10, <1>11, <1>12, <1>13 DEF IInv

(* Other paths claim, deliver and give back a reply; the relay stands.     *)
LEMMA OthersKeep ==
    ASSUME IInv, UNCHANGED <<log, disk, serving, mem, relayVars, foreign, rewound>>,
           Dealt \subseteq Dealt', Dealt' \subseteq DOMAIN log, ClaimsHeld', OneDelivery',
           claims' \subseteq Replies, events' \in 0 .. MaxEvents
    PROVE  IInv'
<1>1. FilesGood'
  BY Kept DEF FilesGood, relayVars
<1>2. Dealt' \subseteq Replies
  BY Positions
<1>3. TypeOK'
  BY <1>2 DEF IInv, TypeOK, relayVars, Dealt
<1>4. QueueGood' /\ Control' /\ Behind' /\ Closed'
  BY DEF IInv, QueueGood, Control, Behind, Closed, Posted, relayVars, Known
<1> QED BY <1>1, <1>3, <1>4 DEF IInv

LEMMA OtherClaimsKeeps == ASSUME IInv, NEW r \in Replies, OtherClaims(r) PROVE IInv'
<1>1. /\ UNCHANGED <<log, disk, serving, mem, relayVars, foreign, history, rewound>>
      /\ claims' = claims \union {r} /\ elsewhere' = elsewhere \union {r}
      /\ r \in DOMAIN log /\ r \notin claims /\ events' \in 0 .. MaxEvents
  BY RelayAssumption DEF OtherClaims, Fault, Event, IInv, TypeOK
<1>2. Dealt' = Dealt \union {r} /\ Delivering' = Delivering
  BY <1>1 DEF Dealt, history, Delivering, relayVars
<1>3. ClaimsHeld' /\ OneDelivery'
  BY <1>1, <1>2 DEF IInv, ClaimsHeld, OneDelivery, history
<1>4. Dealt \subseteq Dealt' /\ Dealt' \subseteq DOMAIN log /\ claims' \subseteq Replies
  BY <1>1, <1>2 DEF IInv, QueueGood, TypeOK
<1> QED BY <1>1, <1>3, <1>4, OthersKeep

LEMMA OtherDeliversKeeps == ASSUME IInv, NEW r \in Replies, OtherDelivers(r) PROVE IInv'
<1>1. /\ UNCHANGED <<log, disk, serving, mem, relayVars, claims, foreign, settled, rewound, events>>
      /\ inChat' = inChat \union {r} /\ elsewhere' = elsewhere \ {r} /\ r \in elsewhere
  BY DEF OtherDelivers
<1>2. Dealt' = Dealt /\ Delivering' = Delivering
  BY <1>1 DEF Dealt, Delivering, relayVars
<1>3. ClaimsHeld' /\ OneDelivery'
  BY <1>1, <1>2 DEF IInv, ClaimsHeld, OneDelivery
<1>4. Dealt \subseteq Dealt' /\ Dealt' \subseteq DOMAIN log /\ claims' \subseteq Replies
      /\ events' \in 0 .. MaxEvents
  BY <1>1, <1>2 DEF IInv, QueueGood, TypeOK
<1> QED BY <1>1, <1>3, <1>4, OthersKeep

LEMMA OtherGivesBackKeeps == ASSUME IInv, NEW r \in Replies, OtherGivesBack(r) PROVE IInv'
<1>1. /\ UNCHANGED <<log, disk, serving, mem, relayVars, foreign, inChat, rewound, events>>
      /\ claims' = claims \ {r} /\ settled' = settled \union {r}
      /\ elsewhere' = elsewhere \ {r} /\ r \in elsewhere
  BY DEF OtherGivesBack
<1>2. Dealt' = Dealt /\ Delivering' = Delivering
  BY <1>1 DEF Dealt, Delivering, relayVars
<1>3. ClaimsHeld' /\ OneDelivery'
  BY <1>1, <1>2 DEF IInv, ClaimsHeld, OneDelivery
<1>4. Dealt \subseteq Dealt' /\ Dealt' \subseteq DOMAIN log /\ claims' \subseteq Replies
      /\ events' \in 0 .. MaxEvents
  BY <1>1, <1>2 DEF IInv, QueueGood, TypeOK
<1> QED BY <1>1, <1>3, <1>4, OthersKeep

LEMMA ReloadKeeps == ASSUME IInv, Reload PROVE IInv'
<1>1. /\ at' = "idle" /\ copy' = Empty /\ edit' = Empty /\ left' = {} /\ found' = NoReplies /\ told' = {}
      /\ cur' = None /\ chat' = FALSE /\ rest' = {} /\ reply' = 0 /\ taken' = NoReplies
      /\ tries' = [r \in Replies |-> 0] /\ parked' = {} /\ react' = None
      /\ settled' = (IF at = "delivering" THEN settled \union {reply} ELSE settled)
      /\ UNCHANGED <<log, disk, serving, mem, claims, foreign, elsewhere, inChat, rewound>>
      /\ events' \in 0 .. MaxEvents
  BY RelayAssumption DEF Reload, Fault, Event, IInv, TypeOK
<1>2. Dealt' = Dealt \union Delivering /\ Delivering' = {}
  BY <1>1 DEF Dealt, Delivering
<1>3. Dealt' \subseteq DOMAIN log /\ DOMAIN log \subseteq Replies
  BY <1>2, Positions DEF IInv, QueueGood, Control, AtReply, Delivering
<1>4. FilesGood'
  BY <1>1, <1>2, Kept DEF FilesGood
<1>5. TypeOK'
  <2>1. tries' \in [Replies -> 0 .. ResolveAttempts]
    BY <1>1, RelayAssumption
  <2>2. settled' \subseteq Replies
    BY <1>3 DEF Dealt
  <2>3. found' \in [Sessions -> SUBSET Replies] /\ taken' \in [Sessions -> SUBSET Replies]
    BY <1>1 DEF NoReplies
  <2> QED BY <1>1, <2>1, <2>2, <2>3, EmptyFile DEF IInv, TypeOK
<1>6. QueueGood' /\ Control' /\ ClaimsHeld' /\ OneDelivery'
  BY <1>1, <1>2, <1>3 DEF IInv, QueueGood, Control, ClaimsHeld, OneDelivery, NoReplies, AtReply, AtSession
<1>7. Behind' /\ Closed'
  BY <1>1 DEF Behind, Closed, Empty
<1> QED BY <1>4, <1>5, <1>6, <1>7 DEF IInv

LEMMA ReactivateReadsKeeps == ASSUME IInv, NEW s \in Sessions, ReactivateReads(s) PROVE IInv'
<1> DEFINE rec == Revived(disk[s])
<1>1. /\ react' = [disk EXCEPT ![s] = rec] /\ disk[s] # None
      /\ settled' = settled \union (IF disk[s].expired THEN Owed(disk[s], s) ELSE {})
      /\ UNCHANGED <<log, disk, serving, mem, at, copy, edit, left, found, told, cur, chat, rest, reply,
                     taken, tries, parked, claims, foreign, elsewhere, inChat, rewound>>
      /\ events' \in 0 .. MaxEvents
  BY RelayAssumption DEF ReactivateReads, Event, IInv, TypeOK
<1>2. disk \in File /\ log \in Seq(Sessions) /\ Len(log) <= MaxReplies
  BY DEF IInv, TypeOK
<1>3. disk[s] \in Record /\ Good(disk[s], s, log, Dealt, rewound)
  BY <1>1, <1>2, FileIs DEF IInv, FilesGood, GoodFile
<1>4. Owed(disk[s], s) \subseteq DOMAIN log /\ DOMAIN log \subseteq Replies
  BY <1>3, Positions DEF Owed, Posted, Good
<1>5. /\ Dealt \subseteq Dealt' /\ Dealt' \subseteq DOMAIN log /\ Delivering' = Delivering
      /\ disk[s].expired => Owed(disk[s], s) \subseteq Dealt'
  BY <1>1, <1>4 DEF Dealt, Delivering, IInv, QueueGood
<1>6. GoodFile(disk, log, Dealt', rewound)
  BY <1>5, GoodGrows DEF IInv, FilesGood
<1>7. rec \in Record /\ Good(rec, s, log, Dealt', rewound)
  BY <1>1, <1>2, <1>3, <1>5, <1>6, GoodRevived DEF GoodFile
<1> HIDE DEF rec
<1>8. react' \in File /\ GoodFile(react', log, Dealt', rewound)
  BY <1>1, <1>2, <1>6, <1>7, FileSet, GoodSet
<1>9. FilesGood'
  BY <1>1, <1>5, <1>8, Kept DEF FilesGood
<1>10. TypeOK'
  BY <1>1, <1>4, <1>5, <1>8 DEF IInv, TypeOK, Dealt
<1>11. QueueGood' /\ Control' /\ ClaimsHeld' /\ OneDelivery'
  BY <1>1, <1>5 DEF IInv, QueueGood, Control, ClaimsHeld, OneDelivery, Known
<1>12. Behind' /\ Closed'
  BY <1>1 DEF IInv, Behind, Closed, Posted
<1> QED BY <1>9, <1>10, <1>11, <1>12 DEF IInv

LEMMA ReactivateWritesKeeps == ASSUME IInv, ReactivateWrites PROVE IInv'
<1>1. /\ react # None /\ disk' = react /\ Rewinds(react) /\ react' = None
      /\ UNCHANGED <<log, serving, mem, at, copy, edit, left, found, told, cur, chat, rest, reply,
                     taken, tries, parked, claims, foreign, elsewhere, history, events>>
  BY DEF ReactivateWrites
<1>2. react \in File /\ Dealt' = Dealt /\ Delivering' = Delivering
  BY <1>1 DEF IInv, TypeOK, Dealt, Delivering, history
<1>3. Behind' /\ rewound \subseteq rewound' /\ rewound' \subseteq Sessions
  BY <1>1, <1>2, BehindKept
<1>4. FilesGood'
  BY <1>1, <1>2, <1>3, Kept DEF FilesGood
<1>5. TypeOK'
  BY <1>1, <1>2, <1>3 DEF IInv, TypeOK, history
<1>6. QueueGood' /\ Control' /\ ClaimsHeld' /\ OneDelivery' /\ Closed'
  BY <1>1, <1>2 DEF IInv, QueueGood, Control, ClaimsHeld, OneDelivery, Known, Closed, Posted, history
<1> QED BY <1>3, <1>4, <1>5, <1>6 DEF IInv

-----------------------------------------------------------------------------
(* The steps of drain() *)

(* The relay edits some records of a file and keeps the others. *)
LEMMA Edited ==
    ASSUME NEW f \in File, NEW lg, NEW D, NEW R, GoodFile(f, lg, D, R), NEW W,
           NEW g, g = [s \in Sessions |-> g[s]],
           \A s \in Sessions : s \in W => g[s] \in Record /\ Good(g[s], s, lg, D, R),
           \A s \in Sessions : s \notin W => g[s] = f[s]
    PROVE  g \in File /\ GoodFile(g, lg, D, R)
<1>1. \A s \in Sessions : g[s] \in Record \union {None}
  BY DEF File
<1>2. GoodFile(g, lg, D, R)
  BY DEF GoodFile
<1> QED BY <1>1, <1>2 DEF File

LEMMA ExpireReadsKeeps == ASSUME IInv, ExpireReads PROVE IInv'
<1> DEFINE quiet == {s \in Open(disk) : disk[s].quiet}
           g == [s \in Sessions |-> IF s \in quiet
                     THEN [disk[s] EXCEPT !.expired = TRUE, !.pending = {}] ELSE disk[s]]
<1>1. /\ at = "idle"
      /\ at' = (IF quiet = {} THEN "announce" ELSE "expiring")
      /\ edit' = (IF quiet = {} THEN Empty ELSE g)
      /\ settled' = settled \union UNION {disk[s].pending : s \in quiet}
      /\ taken' = NoReplies
      /\ UNCHANGED <<log, disk, serving, mem, copy, left, found, told, cur, chat, rest, reply, tries,
                     parked, react, claims, foreign, elsewhere, inChat, rewound, events>>
  BY DEF ExpireReads
<1>2. disk \in File /\ GoodFile(disk, log, Dealt, rewound)
  BY DEF IInv, TypeOK, FilesGood
<1>3. \A s \in quiet : s \in Sessions /\ disk[s] \in Record /\ Good(disk[s], s, log, Dealt, rewound)
  BY <1>2, FileIs DEF Open, Known, GoodFile
<1>4. UNION {disk[s].pending : s \in quiet} \subseteq DOMAIN log
  BY <1>3 DEF Good
<1>5. /\ Dealt' = Dealt \union UNION {disk[s].pending : s \in quiet}
      /\ Delivering' = {} /\ Delivering = {}
  BY <1>1 DEF Dealt, Delivering
<1>6. /\ Dealt' \subseteq DOMAIN log /\ Dealt' \subseteq Replies
  BY <1>4, <1>5, Positions DEF IInv, QueueGood
<1>7. GoodFile(disk, log, Dealt', rewound)
  BY <1>2, <1>5, GoodGrows
<1>8. ASSUME NEW s \in Sessions, s \in quiet
      PROVE  g[s] \in Record /\ Good(g[s], s, log, Dealt', rewound)
  <2> DEFINE p == [disk[s] EXCEPT !.expired = TRUE, !.pending = {}]
  <2>1. disk[s] \in Record /\ Good(disk[s], s, log, Dealt', rewound)
    BY <1>3, <1>7, <1>8 DEF GoodFile, Open, Known
  <2>2. /\ p \in Record /\ p.seen = disk[s].seen /\ p.pending = {} /\ p.mark = disk[s].mark
        /\ p.delivered = disk[s].delivered
    BY <2>1 DEF Record
  <2>3. disk[s].pending \subseteq Dealt' /\ disk[s].delivered \subseteq Dealt' /\ g[s] = p
    BY <1>5, <1>8, <2>1 DEF Good
  <2> HIDE DEF p
  <2>4. Good(p, s, log, Dealt', rewound)
    BY <2>1, <2>2, <2>3, GoodTaken
  <2> QED BY <2>2, <2>3, <2>4
<1>9. \A s \in Sessions : s \notin quiet => g[s] = disk[s]
  OBVIOUS
<1>10. g = [s \in Sessions |-> g[s]]
  OBVIOUS
<1> HIDE DEF g, quiet
<1>11. g \in File /\ GoodFile(g, log, Dealt', rewound)
  BY <1>2, <1>7, <1>8, <1>9, <1>10, Edited
<1>12. FilesGood' /\ edit' \in File
  BY <1>1, <1>5, <1>11, Kept, EmptyFile DEF FilesGood
<1>13. TypeOK'
  BY <1>1, <1>6, <1>12 DEF IInv, TypeOK, NoReplies, Dealt, Writing
<1>14. QueueGood' /\ Control' /\ ClaimsHeld' /\ OneDelivery'
  BY <1>1, <1>5, <1>6 DEF IInv, QueueGood, Control, ClaimsHeld, OneDelivery, NoReplies, AtReply, AtSession
<1>15. Behind' /\ Closed'
  BY <1>1 DEF IInv, Behind, Closed, Posted
<1> QED BY <1>12, <1>13, <1>14, <1>15 DEF IInv

LEMMA WriteLandsKeeps == ASSUME IInv, WriteLands PROVE IInv'
<1>1. /\ disk' = edit /\ Rewinds(edit) /\ edit' = Empty /\ at \in Writing /\ at' = AfterWrite(at)
      /\ UNCHANGED <<copy, left, found, told, cur, chat, rest, reply, taken, tries, parked, events>>
      /\ UNCHANGED <<log, serving, mem, react, claims, foreign, elsewhere, history>>
  BY DEF WriteLands, Rests
<1>2. edit \in File /\ Dealt' = Dealt
  BY <1>1 DEF IInv, TypeOK, Dealt, history
<1>3. Behind' /\ rewound \subseteq rewound' /\ rewound' \subseteq Sessions
  BY <1>1, <1>2, BehindKept
<1>4. FilesGood'
  BY <1>1, <1>2, <1>3, Kept DEF FilesGood
<1>5. /\ at \in {"expiring", "stamping", "collecting", "clearing"}
              => at' \in {"announce", "collect", "dispatch", "idle"}
      /\ at = "identifying" => at' = "held"
      /\ at = "naming" => at' = "handing"
  BY <1>1 DEF AfterWrite
<1>6. Delivering = {} /\ Delivering' = {}
  BY <1>1, <1>5 DEF Delivering, Writing
<1>7. TypeOK'
  BY <1>1, <1>2, <1>3, <1>5, EmptyFile DEF IInv, TypeOK, history, Writing
<1>8. QueueGood' /\ ClaimsHeld' /\ OneDelivery'
  BY <1>1, <1>2, <1>6 DEF IInv, QueueGood, ClaimsHeld, OneDelivery, history
<1>9. Control' /\ Closed'
  BY <1>1, <1>5 DEF IInv, Control, Closed, Writing, AtReply, AtSession, Known
<1> QED BY <1>3, <1>4, <1>7, <1>8, <1>9 DEF IInv

(* Steps of drain() that leave the files and the replies as they are: what *)
(* is left to show is about their control.                                 *)
LEMMA Moves ==
    ASSUME IInv, UNCHANGED <<log, disk, serving, mem, react, claims, foreign, elsewhere, history, rewound>>,
           copy' \in {copy, disk, Empty}, edit' \in File, GoodFile(edit', log, Dealt, rewound),
           TypeOK', rest' \subseteq DOMAIN log, reply' \in DOMAIN log \union {0},
           \A s \in Sessions : taken'[s] \subseteq Dealt,
           at # "delivering", at' # "delivering", Control', Closed'
    PROVE  IInv'
<1>1. Dealt' = Dealt /\ Delivering = {} /\ Delivering' = {}
  BY DEF Dealt, Delivering, history
<1>2. FilesGood'
  BY <1>1, Kept DEF FilesGood
<1>3. QueueGood' /\ ClaimsHeld' /\ OneDelivery'
  BY <1>1 DEF IInv, QueueGood, ClaimsHeld, OneDelivery, history
<1>4. Behind'
  <2> SUFFICES ASSUME NEW s \in Sessions, s \notin rewound, copy'[s] # None
               PROVE  disk[s] # None /\ copy'[s].mark <= disk[s].mark
    BY DEF Behind
  <2>1. CASE copy' = copy
    BY <2>1 DEF IInv, Behind
  <2>2. CASE copy' = disk
    <3>1. disk[s] \in Record
      BY <2>2, FileIs DEF IInv, TypeOK
    <3> QED BY <2>2, <3>1, RelayAssumption DEF Record
  <2>3. CASE copy' = Empty
    BY <2>3 DEF Empty
  <2> QED BY <2>1, <2>2, <2>3
<1> QED BY <1>2, <1>3, <1>4 DEF IInv

LEMMA WriteFailsKeeps == ASSUME IInv, WriteFails PROVE IInv'
<1>1. /\ at \in Writing /\ at' = "idle" /\ reply' = 0 /\ events' \in 0 .. MaxEvents
      /\ UNCHANGED <<rewound, disk, copy, edit, left, found, told, cur, chat, rest, taken, tries, parked>>
      /\ UNCHANGED <<log, serving, mem, react, claims, foreign, elsewhere, history>>
  BY RelayAssumption DEF WriteFails, Rests, Fault, Event, IInv, TypeOK
<1>2. TypeOK'
  BY <1>1 DEF IInv, TypeOK, history
<1>3. Control' /\ Closed' /\ at # "delivering" /\ at' # "delivering"
  BY <1>1 DEF Control, Closed, AtReply, AtSession, Writing
<1> QED BY <1>1, <1>2, <1>3, Moves DEF IInv, TypeOK, FilesGood, QueueGood

LEMMA OwedReadsKeeps == ASSUME IInv, OwedReads PROVE IInv'
<1>1. /\ at = "announce" /\ at' \in {"collect", "announcing"}
      /\ left' \subseteq Sessions /\ told' = {}
      /\ UNCHANGED <<disk, copy, edit, found, cur, chat, rest, reply, taken, tries, parked>>
      /\ UNCHANGED <<log, serving, mem, react, claims, foreign, elsewhere, history, events, rewound>>
  BY DEF OwedReads, Unmoved, Rests, Known
<1>2. TypeOK'
  BY <1>1 DEF IInv, TypeOK, history
<1>3. Control' /\ Closed' /\ at # "delivering" /\ at' # "delivering"
  BY <1>1 DEF Control, Closed, AtReply, AtSession
<1> QED BY <1>1, <1>2, <1>3, Moves DEF IInv, TypeOK, FilesGood, QueueGood

LEMMA NoticeEndsKeeps == ASSUME IInv, NEW s \in Sessions, NoticeEnds(s) PROVE IInv'
<1>1. /\ at = "announcing" /\ at' \in {"announcing", "collect", "stamp"}
      /\ left' \subseteq Sessions /\ told' \subseteq Sessions /\ events' \in 0 .. MaxEvents
      /\ UNCHANGED <<rewound, disk, copy, edit, found, cur, chat, rest, reply, taken, tries, parked>>
      /\ UNCHANGED <<log, serving, mem, react, claims, foreign, elsewhere, history>>
  BY RelayAssumption DEF NoticeEnds, Rests, Fault, Event, IInv, TypeOK
<1>2. TypeOK'
  BY <1>1 DEF IInv, TypeOK, history
<1>3. Control' /\ Closed' /\ at # "delivering" /\ at' # "delivering"
  BY <1>1 DEF Control, Closed, AtReply, AtSession
<1> QED BY <1>1, <1>2, <1>3, Moves DEF IInv, TypeOK, FilesGood, QueueGood

LEMMA StampReadsKeeps == ASSUME IInv, StampReads PROVE IInv'
<1> DEFINE stamped == {s \in told : Stampable(s)}
           g == [s \in Sessions |-> IF s \in stamped THEN [disk[s] EXCEPT !.noticed = TRUE] ELSE disk[s]]
<1>1. /\ at = "stamp" /\ at' \in {"collect", "stamping"} /\ told' = {}
      /\ edit' = Empty \/ edit' = g
      /\ UNCHANGED <<disk, copy, left, found, cur, chat, rest, reply, taken, tries, parked>>
      /\ UNCHANGED <<log, serving, mem, react, claims, foreign, elsewhere, history, events, rewound>>
  BY DEF StampReads, Unmoved, Rests
<1>2. disk \in File /\ GoodFile(disk, log, Dealt, rewound) /\ GoodFile(Empty, log, Dealt, rewound)
  BY DEF IInv, TypeOK, FilesGood, Empty, GoodFile
<1>3. ASSUME NEW s \in Sessions, s \in stamped
      PROVE  g[s] \in Record /\ Good(g[s], s, log, Dealt, rewound)
  <2>1. disk[s] \in Record /\ Good(disk[s], s, log, Dealt, rewound)
    BY <1>2, <1>3, FileIs DEF Stampable, GoodFile
  <2>2. g[s] = [disk[s] EXCEPT !.noticed = TRUE]
    BY <1>3
  <2> HIDE DEF g
  <2> QED BY <2>1, <2>2, FlagsOnly, GoodAlike
<1>4. \A s \in Sessions : s \notin stamped => g[s] = disk[s]
  OBVIOUS
<1>5. g = [s \in Sessions |-> g[s]]
  OBVIOUS
<1> HIDE DEF g, stamped
<1>6. g \in File /\ GoodFile(g, log, Dealt, rewound)
  BY <1>2, <1>3, <1>4, <1>5, Edited
<1>7. edit' \in File /\ GoodFile(edit', log, Dealt, rewound)
  BY <1>1, <1>2, <1>6, EmptyFile
<1>8. TypeOK'
  BY <1>1, <1>7 DEF IInv, TypeOK, history, Writing
<1>9. Control' /\ Closed' /\ at # "delivering" /\ at' # "delivering"
  BY <1>1 DEF Control, Closed, AtReply, AtSession
<1> QED BY <1>1, <1>7, <1>8, <1>9, Moves DEF IInv, QueueGood

LEMMA CollectReadsKeeps == ASSUME IInv, CollectReads PROVE IInv'
<1>1. /\ at = "collect" /\ at' = "fetching" /\ copy' = disk /\ left' = Open(disk) /\ found' = NoReplies
      /\ UNCHANGED <<disk, edit, told, cur, chat, rest, reply, taken, tries, parked>>
      /\ UNCHANGED <<log, serving, mem, react, claims, foreign, elsewhere, history, events, rewound>>
  BY DEF CollectReads, Unmoved, Rests
<1>2. TypeOK'
  BY <1>1 DEF IInv, TypeOK, history, NoReplies, Open, Known
<1>3. Control' /\ Closed' /\ at # "delivering" /\ at' # "delivering"
  BY <1>1 DEF Control, Closed, AtReply, AtSession, Open, NoReplies, Known
<1> QED BY <1>1, <1>2, <1>3, Moves DEF IInv, TypeOK, FilesGood, QueueGood

LEMMA FetchEndsKeeps == ASSUME IInv, NEW s \in Sessions, FetchEnds(s) PROVE IInv'
<1> DEFINE new == {r \in Posted(s) : r > copy[s].mark}
<1>1. /\ at = "fetching" /\ s \in left /\ left' = left \ {s}
      /\ found' = [found EXCEPT ![s] = new] \/ found' = found
      /\ events' \in 0 .. MaxEvents
      /\ UNCHANGED <<rewound, disk, at, copy, edit, told, cur, chat, rest, reply, taken, tries, parked>>
      /\ UNCHANGED <<log, serving, mem, react, claims, foreign, elsewhere, history>>
  BY RelayAssumption DEF FetchEnds, Rests, Fault, Event, IInv, TypeOK
<1>2. new \subseteq Replies /\ new \subseteq Posted(s)
  BY Positions DEF Posted
<1>3. copy[s] # None
  BY <1>1 DEF IInv, Control, Known
<1>4. found' \in [Sessions -> SUBSET Replies] /\ \A t \in Sessions : found'[t] = found[t] \/ (t = s /\ found'[t] = new)
  BY <1>1, <1>2 DEF IInv, TypeOK
<1>5. TypeOK'
  BY <1>1, <1>4 DEF IInv, TypeOK, history
<1>6. Control' /\ at # "delivering" /\ at' # "delivering"
  BY <1>1 DEF IInv, Control, AtReply, AtSession, Known
<1>7. ASSUME NEW t \in Sessions, found'[t] # {}
      PROVE  /\ copy[t] # None /\ found'[t] \subseteq Posted(t)
             /\ \A q \in found'[t] : \A r \in Posted(t) : copy[t].mark < r /\ r <= q => r \in found'[t]
  <2>1. CASE found'[t] = found[t]
    BY <1>1, <1>7, <2>1 DEF IInv, Closed
  <2>2. CASE t = s /\ found'[t] = new
    <3>1. copy[s] \in Record
      BY <1>3, FileIs DEF IInv, TypeOK
    <3>2. copy[s].mark \in Nat /\ \A r \in Replies : r \in Nat
      BY <3>1, RelayAssumption DEF Record, Replies
    <3>3. \A r \in Posted(s) : copy[s].mark < r => r \in new
      BY <1>2, <3>2, Positions DEF Posted
    <3> QED BY <1>2, <1>3, <2>2, <3>3
  <2> QED BY <1>4, <2>1, <2>2
<1>8. Closed'
  BY <1>1, <1>7 DEF Closed, Posted
<1> QED BY <1>1, <1>5, <1>6, <1>8, Moves DEF IInv, TypeOK, FilesGood, QueueGood

LEMMA CollectRereadsKeeps == ASSUME IInv, CollectRereads PROVE IInv'
<1> DEFINE New(s) == found[s] \ alreadyKnown(disk[s])
           with == {s \in Known(disk) : New(s) # {}}
           g == [s \in Sessions |-> IF s \in with THEN Collected(disk[s], New(s)) ELSE disk[s]]
<1>1. /\ at = "fetching" /\ at' \in {"dispatch", "collecting"}
      /\ edit' = Empty \/ edit' = g
      /\ copy' = Empty /\ found' = NoReplies
      /\ UNCHANGED <<disk, left, told, cur, chat, rest, reply, taken, tries, parked>>
      /\ UNCHANGED <<log, serving, mem, react, claims, foreign, elsewhere, history, events, rewound>>
  BY DEF CollectRereads, Unmoved, Rests
<1>2. /\ disk \in File /\ GoodFile(disk, log, Dealt, rewound) /\ GoodFile(Empty, log, Dealt, rewound)
      /\ log \in Seq(Sessions) /\ Len(log) <= MaxReplies
  BY DEF IInv, TypeOK, FilesGood, Empty, GoodFile
<1>3. ASSUME NEW s \in Sessions, s \in with
      PROVE  g[s] \in Record /\ Good(g[s], s, log, Dealt, rewound)
  <2>1. disk[s] \in Record /\ Good(disk[s], s, log, Dealt, rewound)
    BY <1>2, <1>3, FileIs DEF Known, GoodFile
  <2>2. /\ copy[s] # None /\ found[s] \subseteq Posted(s)
        /\ \A q \in found[s] : \A r \in Posted(s) : copy[s].mark < r /\ r <= q => r \in found[s]
    BY <1>1, <1>3 DEF IInv, Closed
  <2>3. copy[s] \in Record
    BY <2>2, FileIs DEF IInv, TypeOK
  <2>4. s \notin rewound => copy[s].mark <= disk[s].mark
    BY <2>2 DEF IInv, Behind
  <2>5. New(s) \subseteq DOMAIN log /\ New(s) \subseteq found[s]
    BY <2>2 DEF Posted
  <2>6. New(s) \subseteq Replies
    BY <2>5, Positions
  <2>7. copy[s].mark \in Nat /\ disk[s].mark \in Nat /\ \A r \in Replies : r \in Nat
    BY <2>1, <2>3, RelayAssumption DEF Record, Replies
  <2>8. ASSUME s \notin rewound, NEW q \in New(s), NEW r \in DOMAIN log,
               log[r] = s, r > disk[s].mark, r <= q
        PROVE  r \in New(s) \/ r \in disk[s].seen \/ r \in disk[s].delivered
    <3>1. r \in Posted(s) /\ r \in Nat
      BY <2>7, <2>8, Positions DEF Posted
    <3>2. copy[s].mark < r
      BY <2>4, <2>7, <2>8, <3>1
    <3>3. r \in found[s]
      BY <2>2, <2>5, <2>8, <3>1, <3>2
    <3> QED BY <3>3 DEF alreadyKnown
  <2>9. g[s] = Collected(disk[s], New(s))
    BY <1>3
  <2> HIDE DEF g, New
  <2>10. /\ g[s] \in Record
         /\ g[s].seen = disk[s].seen \union New(s) /\ g[s].pending = disk[s].pending \union New(s)
         /\ g[s].delivered = disk[s].delivered /\ g[s].mark = Newest(disk[s].mark, New(s))
    BY <2>1, <2>6, <2>9, CollectedIs
  <2> QED BY <1>2, <2>1, <2>5, <2>8, <2>10, GoodRead
<1>4. \A s \in Sessions : s \notin with => g[s] = disk[s]
  OBVIOUS
<1>5. g = [s \in Sessions |-> g[s]]
  OBVIOUS
<1> HIDE DEF g, with, New
<1>6. g \in File /\ GoodFile(g, log, Dealt, rewound)
  <2>1. disk \in File /\ GoodFile(disk, log, Dealt, rewound)
    BY <1>2
  <2> QED BY <2>1, <1>3, <1>4, <1>5, Edited
<1>7. edit' \in File /\ GoodFile(edit', log, Dealt, rewound)
  BY <1>1, <1>2, <1>6, EmptyFile
<1>8. TypeOK'
  BY <1>1, <1>7, EmptyFile DEF IInv, TypeOK, history, Writing, NoReplies
<1>9. Control' /\ Closed' /\ at # "delivering" /\ at' # "delivering"
  BY <1>1 DEF Control, Closed, AtReply, AtSession
<1> QED BY <1>1, <1>7, <1>8, <1>9, Moves DEF IInv, QueueGood

LEMMA DispatchReadsKeeps == ASSUME IInv, DispatchReads PROVE IInv'
<1>1. /\ at = "dispatch" /\ at' \in {"idle", "session"} /\ copy' = disk /\ left' \subseteq Known(disk)
      /\ UNCHANGED <<disk, edit, found, told, cur, chat, rest, reply, taken, tries, parked>>
      /\ UNCHANGED <<log, serving, mem, react, claims, foreign, elsewhere, history, events, rewound>>
  BY DEF DispatchReads, Unmoved, Rests, Open
<1>2. TypeOK'
  BY <1>1 DEF IInv, TypeOK, history, Known
<1>3. Control' /\ Closed' /\ at # "delivering" /\ at' # "delivering"
  BY <1>1 DEF Control, Closed, AtReply, AtSession, Known
<1> QED BY <1>1, <1>2, <1>3, Moves DEF IInv, TypeOK, FilesGood, QueueGood

LEMMA NextSessionKeeps == ASSUME IInv, NEW s \in Sessions, NextSession(s) PROVE IInv'
<1>1. /\ at = "session" /\ at' \in {"held", "identify"} /\ s \in left /\ left' = left \ {s} /\ cur' = s
      /\ rest' = copy[s].pending /\ chat' \in BOOLEAN /\ parked' \subseteq parked
      /\ UNCHANGED <<disk, copy, edit, found, told, reply, taken, tries>>
      /\ UNCHANGED <<log, serving, mem, react, claims, foreign, elsewhere, history, events, rewound>>
  BY DEF NextSession, Unmoved, Rests
<1>2. copy[s] # None /\ copy \in File
  BY <1>1 DEF IInv, Control, Known, TypeOK
<1>3. Good(copy[s], s, log, Dealt, rewound)
  BY <1>2 DEF IInv, FilesGood, GoodFile
<1>4. rest' \subseteq DOMAIN log
  BY <1>1, <1>3 DEF Good
<1>5. TypeOK'
  BY <1>1, <1>4, Positions DEF IInv, TypeOK, history
<1>6. Control' /\ Closed' /\ at # "delivering" /\ at' # "delivering"
  BY <1>1, <1>2 DEF IInv, Control, Closed, AtReply, AtSession, Known
<1> QED BY <1>1, <1>4, <1>5, <1>6, Moves DEF IInv, TypeOK, FilesGood, QueueGood

LEMMA IdentifiesKeeps == ASSUME IInv, Identifies PROVE IInv'
<1>1. PICK from, writing, after :
        /\ \/ from = "identify" /\ writing = "identifying" /\ after = "held"
           \/ from = "name" /\ writing = "naming" /\ after = "handing"
        /\ Identify(from, writing, after)
  BY DEF Identifies
<1> DEFINE rec == [disk[cur] EXCEPT !.chat = TRUE]
<1>2. /\ at = from /\ at' \in {writing, after}
      /\ edit' = edit \/ (disk[cur] # None /\ edit' = [disk EXCEPT ![cur] = rec])
      /\ UNCHANGED <<disk, copy, left, found, told, cur, chat, rest, reply, taken, tries, parked>>
      /\ UNCHANGED <<log, serving, mem, react, claims, foreign, elsewhere, history, events, rewound>>
  BY <1>1 DEF Identify, Unmoved, Rests
<1>3. cur \in Sessions /\ disk \in File /\ GoodFile(disk, log, Dealt, rewound)
  BY <1>1, <1>2 DEF IInv, Control, AtSession, AtReply, TypeOK, FilesGood
<1>4. disk[cur] # None => rec \in Record /\ Good(rec, cur, log, Dealt, rewound)
  <2> SUFFICES ASSUME disk[cur] # None PROVE rec \in Record /\ Good(rec, cur, log, Dealt, rewound)
    OBVIOUS
  <2>1. disk[cur] \in Record /\ Good(disk[cur], cur, log, Dealt, rewound)
    BY <1>3, FileIs DEF GoodFile
  <2> QED BY <2>1, FlagsOnly, GoodAlike
<1> HIDE DEF rec
<1>5. edit' \in File /\ GoodFile(edit', log, Dealt, rewound)
  BY <1>2, <1>3, <1>4, FileSet, GoodSet DEF IInv, TypeOK, FilesGood
<1>6. TypeOK'
  BY <1>1, <1>2, <1>5 DEF IInv, TypeOK, history, Writing
<1>7. Control' /\ Closed' /\ at # "delivering" /\ at' # "delivering"
  BY <1>1, <1>2 DEF IInv, Control, Closed, AtReply, AtSession, Known
<1> QED BY <1>2, <1>5, <1>6, <1>7, Moves DEF IInv, QueueGood

(* A held reply: what is cleared is dealt with. *)
LEMMA HeldIs ==
    ASSUME IInv, at = "held"
    PROVE  /\ cur \in Sessions /\ copy[cur] # None /\ Good(copy[cur], cur, log, Dealt, rewound)
           /\ claims \subseteq Dealt /\ left \subseteq Known(copy)
<1>1. cur \in Sessions /\ copy[cur] # None /\ left \subseteq Known(copy)
  BY DEF IInv, Control, AtSession, AtReply
<1>2. claims \subseteq Dealt
  BY DEF IInv, ClaimsHeld, Delivering
<1> QED BY <1>1, <1>2 DEF IInv, FilesGood, GoodFile

LEMMA ConsumeKeeps == ASSUME IInv, NEW r \in Replies, Consume(r) PROVE IInv'
<1>1. /\ at = "held" /\ rest' \subseteq rest /\ AlreadyDone(r)
      /\ taken' = [taken EXCEPT ![cur] = @ \union {r}]
      /\ parked' \subseteq parked /\ (tries' = tries \/ tries' = [tries EXCEPT ![r] = 0])
      /\ UNCHANGED <<disk, at, copy, edit, left, found, told, cur, chat, reply>>
      /\ UNCHANGED <<log, serving, mem, react, claims, foreign, elsewhere, history, events, rewound>>
  BY DEF Consume, Unmoved, Rests
<1>2. cur \in Sessions /\ copy[cur] # None /\ left \subseteq Known(copy) /\ r \in Dealt
  BY <1>1, HeldIs DEF AlreadyDone, Good
<1>3. /\ taken' \in [Sessions -> SUBSET Replies]
      /\ \A s \in Sessions : taken'[s] \subseteq taken[s] \union {r}
  BY <1>1, <1>2 DEF IInv, TypeOK
<1>4. tries' \in [Replies -> 0 .. ResolveAttempts]
  BY <1>1, RelayAssumption DEF IInv, TypeOK
<1>5. TypeOK'
  BY <1>1, <1>3, <1>4 DEF IInv, TypeOK, history
<1>6. Control' /\ Closed' /\ at # "delivering" /\ at' # "delivering"
  BY <1>1, <1>2 DEF Control, Closed, AtReply, AtSession, Known
<1>7. (\A s \in Sessions : taken'[s] \subseteq Dealt) /\ rest' \subseteq DOMAIN log
  BY <1>1, <1>2, <1>3 DEF IInv, QueueGood
<1> QED BY <1>1, <1>5, <1>6, <1>7, Moves DEF IInv, TypeOK, FilesGood, QueueGood

LEMMA SkipKeeps == ASSUME IInv, NEW r \in Replies, Skip(r) PROVE IInv'
<1>1. /\ at = "held" /\ rest' \subseteq rest
      /\ tries' = tries \/ (tries[r] < ResolveAttempts /\ tries' = [tries EXCEPT ![r] = @ + 1])
      /\ UNCHANGED <<disk, at, copy, edit, left, found, told, cur, chat, reply, taken, parked>>
      /\ UNCHANGED <<log, serving, mem, react, claims, foreign, elsewhere, history, events, rewound>>
  BY DEF Skip, Waits, Unmoved, Rests
<1>2. tries' \in [Replies -> 0 .. ResolveAttempts]
  <2>1. tries \in [Replies -> 0 .. ResolveAttempts] /\ tries[r] \in 0 .. ResolveAttempts
    BY DEF IInv, TypeOK
  <2>2. tries[r] < ResolveAttempts => tries[r] + 1 \in 0 .. ResolveAttempts
    BY <2>1, RelayAssumption
  <2> QED BY <1>1, <2>1, <2>2
<1>3. TypeOK'
  BY <1>1, <1>2 DEF IInv, TypeOK, history
<1>4. Control' /\ Closed' /\ at # "delivering" /\ at' # "delivering"
  BY <1>1, HeldIs DEF Control, Closed, AtReply, AtSession, Known
<1> QED BY <1>1, <1>3, <1>4, Moves DEF IInv, TypeOK, FilesGood, QueueGood

LEMMA DeliverKeeps == ASSUME IInv, NEW r \in Replies, Deliver(r) PROVE IInv'
<1>1. /\ at = "held" /\ rest' \subseteq rest /\ r \in rest /\ reply' = r /\ at' \in {"handing", "name"}
      /\ UNCHANGED <<disk, copy, edit, left, found, told, cur, chat, taken, tries, parked>>
      /\ UNCHANGED <<log, serving, mem, react, claims, foreign, elsewhere, history, events, rewound>>
  BY DEF Deliver, Unmoved, Rests
<1>2. r # 0
  BY RelayAssumption DEF Replies
<1>3. TypeOK'
  BY <1>1 DEF IInv, TypeOK, history
<1>4. Control' /\ Closed' /\ at # "delivering" /\ at' # "delivering"
  BY <1>1, <1>2, HeldIs DEF Control, Closed, AtReply, AtSession, Known
<1> QED BY <1>1, <1>3, <1>4, Moves DEF IInv, TypeOK, FilesGood, QueueGood

(* The reply of a delivery, and its session. *)
LEMMA ReplyIs ==
    ASSUME IInv, at \in {"handing", "delivering"}
    PROVE  /\ cur \in Sessions /\ copy[cur] # None /\ left \subseteq Known(copy)
           /\ reply \in DOMAIN log /\ reply \in Replies
BY Positions DEF IInv, Control, AtSession, AtReply, QueueGood

LEMMA ClaimsKeeps == ASSUME IInv, Claims PROVE IInv'
<1>1. /\ at = "handing" /\ at' = "delivering" /\ reply \notin claims /\ claims' = claims \union {reply}
      /\ UNCHANGED <<log, disk, serving, mem, copy, edit, left, found, told, cur, chat, rest, reply, taken,
                     tries, parked, react, foreign, elsewhere, history, rewound, events>>
  BY DEF Claims
<1>2. Dealt' = Dealt /\ Delivering = {} /\ Delivering' = {reply}
  BY <1>1 DEF Dealt, Delivering, history
<1>3. ClaimsHeld' /\ OneDelivery'
  BY <1>1, <1>2 DEF IInv, ClaimsHeld, OneDelivery, history
<1>4. FilesGood'
  BY <1>1, <1>2, Kept DEF FilesGood
<1>5. TypeOK'
  BY <1>1, ReplyIs DEF IInv, TypeOK, history
<1>6. QueueGood' /\ Control' /\ Behind' /\ Closed'
  BY <1>1, <1>2 DEF IInv, QueueGood, Control, Behind, Closed, AtReply, AtSession, Known
<1> QED BY <1>3, <1>4, <1>5, <1>6 DEF IInv

LEMMA DeliveryEndsKeeps == ASSUME IInv, NEW o \in Outcomes, DeliveryEnds(o) PROVE IInv'
<1>1. /\ at = "delivering" /\ at' = "held" /\ reply' = 0
      /\ claims' = (IF o = "delivered" THEN claims ELSE claims \ {reply})
      /\ inChat' = (IF o = "delivered" THEN inChat \union {reply} ELSE inChat)
      /\ settled' = (IF o = "delivered" \/ worthRetrying(o) THEN settled ELSE settled \union {reply})
      /\ UNCHANGED <<log, disk, serving, mem, copy, edit, left, found, told, cur, chat, rest, react,
                     foreign, elsewhere, rewound, events>>
  BY DEF DeliveryEnds
<1>2. cur \in Sessions /\ copy[cur] # None /\ left \subseteq Known(copy)
      /\ reply \in DOMAIN log /\ reply \in Replies
  BY <1>1, ReplyIs
<1>3. worthRetrying(o) => o # "delivered"
  BY DEF worthRetrying
<1>4. /\ Dealt' = (IF worthRetrying(o) THEN Dealt ELSE Dealt \union {reply})
      /\ Delivering = {reply} /\ Delivering' = {}
  BY <1>1, <1>3 DEF Dealt, Delivering
<1>5. ClaimsHeld'
  <2>1. /\ elsewhere \subseteq claims /\ inChat \subseteq claims /\ reply \in claims
        /\ claims \subseteq Dealt \union {reply}
        /\ reply \notin inChat /\ reply \notin elsewhere
    BY <1>4 DEF IInv, ClaimsHeld, OneDelivery
  <2>2. elsewhere' \subseteq claims' /\ inChat' \subseteq claims'
    BY <1>1, <2>1
  <2>3. claims' \subseteq Dealt'
    BY <1>1, <1>3, <1>4, <2>1
  <2> QED BY <1>4, <2>2, <2>3 DEF ClaimsHeld
<1>6. OneDelivery'
  BY <1>1, <1>4 DEF IInv, OneDelivery
<1>7. FilesGood'
  BY <1>1, <1>4, Kept DEF FilesGood
<1>8. /\ parked' \subseteq Replies
      /\ taken' \in [Sessions -> SUBSET Replies] /\ \A s \in Sessions : taken'[s] \subseteq Dealt'
      /\ tries' \in [Replies -> 0 .. ResolveAttempts]
  <2>1. CASE Retry(o)
    BY <1>2, <1>4, <2>1 DEF Retry, IInv, TypeOK, QueueGood
  <2>2. CASE Settled(o)
    <3>1. /\ ~worthRetrying(o) /\ parked' \subseteq parked
          /\ taken' = [taken EXCEPT ![cur] = @ \union {reply}] /\ tries' = [tries EXCEPT ![reply] = 0]
      BY <2>2 DEF Settled
    <3>2. taken' \in [Sessions -> SUBSET Replies] /\ \A s \in Sessions : taken'[s] \subseteq taken[s] \union {reply}
      BY <1>2, <3>1 DEF IInv, TypeOK
    <3>3. tries' \in [Replies -> 0 .. ResolveAttempts]
      <4>1. 0 \in 0 .. ResolveAttempts
        BY RelayAssumption
      <4> QED BY <3>1, <4>1 DEF IInv, TypeOK
    <3>4. \A s \in Sessions : taken[s] \subseteq Dealt
      BY DEF IInv, QueueGood
    <3> QED BY <1>4, <3>1, <3>2, <3>3, <3>4 DEF IInv, TypeOK
  <2> QED BY <2>1, <2>2 DEF DeliveryEnds
<1>9. TypeOK'
  BY <1>1, <1>2, <1>8 DEF IInv, TypeOK
<1>10. QueueGood' /\ Control' /\ Behind' /\ Closed'
  BY <1>1, <1>2, <1>4, <1>8 DEF IInv, QueueGood, Control, Behind, Closed, AtReply, AtSession, Known
<1> QED BY <1>5, <1>6, <1>7, <1>9, <1>10 DEF IInv

LEMMA ClaimedElsewhereKeeps == ASSUME IInv, ClaimedElsewhere PROVE IInv'
<1>1. /\ at = "handing" /\ at' = "held" /\ reply' = 0 /\ reply \in claims
      /\ taken' = [taken EXCEPT ![cur] = @ \union {reply}] /\ tries' = [tries EXCEPT ![reply] = 0]
      /\ parked' \subseteq parked
      /\ UNCHANGED <<disk, copy, edit, left, found, told, cur, chat, rest>>
      /\ UNCHANGED <<log, serving, mem, react, claims, foreign, elsewhere, history, events, rewound>>
  BY DEF ClaimedElsewhere, Settled, Unmoved, Rests
<1>2. cur \in Sessions /\ copy[cur] # None /\ left \subseteq Known(copy) /\ reply \in Replies
  BY <1>1, ReplyIs
<1>3. reply \in Dealt
  BY <1>1 DEF IInv, ClaimsHeld, Delivering
<1>4. taken' \in [Sessions -> SUBSET Replies] /\ \A s \in Sessions : taken'[s] \subseteq taken[s] \union {reply}
  BY <1>1, <1>2 DEF IInv, TypeOK
<1>5. tries' \in [Replies -> 0 .. ResolveAttempts]
  BY <1>1, RelayAssumption DEF IInv, TypeOK
<1>6. TypeOK'
  BY <1>1, <1>4, <1>5 DEF IInv, TypeOK, history
<1>7. Control' /\ Closed' /\ at # "delivering" /\ at' # "delivering"
  BY <1>1, <1>2 DEF Control, Closed, AtReply, AtSession, Known
<1>8. \A s \in Sessions : taken'[s] \subseteq Dealt
  BY <1>3, <1>4 DEF IInv, QueueGood
<1> QED BY <1>1, <1>6, <1>7, <1>8, Moves DEF IInv, TypeOK, FilesGood, QueueGood

LEMMA ThrowsKeeps == ASSUME IInv, Throws PROVE IInv'
<1>1. /\ at = "handing" /\ at' = "idle" /\ reply' = 0 /\ events' \in 0 .. MaxEvents
      /\ UNCHANGED <<rewound, disk, copy, edit, left, found, told, cur, chat, rest, taken, tries, parked>>
      /\ UNCHANGED <<log, serving, mem, react, claims, foreign, elsewhere, history>>
  BY RelayAssumption DEF Throws, Rests, Fault, Event, IInv, TypeOK
<1>2. TypeOK'
  BY <1>1 DEF IInv, TypeOK, history
<1>3. Control' /\ Closed' /\ at # "delivering" /\ at' # "delivering"
  BY <1>1 DEF Control, Closed, AtReply, AtSession
<1> QED BY <1>1, <1>2, <1>3, Moves DEF IInv, TypeOK, FilesGood, QueueGood

LEMMA SessionDoneKeeps == ASSUME IInv, SessionDone PROVE IInv'
<1>1. /\ at = "held" /\ cur' = None /\ chat' = FALSE
      /\ \/ left = {} /\ at' = "clear" /\ copy' = Empty
         \/ at' = "session" /\ copy' = copy
      /\ UNCHANGED <<disk, edit, left, found, told, rest, reply, taken, tries, parked>>
      /\ UNCHANGED <<log, serving, mem, react, claims, foreign, elsewhere, history, events, rewound>>
  BY DEF SessionDone, Unmoved, Rests
<1>2. TypeOK'
  BY <1>1, EmptyFile DEF IInv, TypeOK, history
<1>3. Control' /\ Closed' /\ at # "delivering" /\ at' # "delivering"
  BY <1>1, HeldIs DEF Control, Closed, AtReply, AtSession, Known
<1> QED BY <1>1, <1>2, <1>3, Moves DEF IInv, TypeOK, FilesGood, QueueGood

LEMMA ClearReadsKeeps == ASSUME IInv, ClearReads PROVE IInv'
<1> DEFINE with == {s \in Known(disk) : taken[s] # {}}
           g == [s \in Sessions |-> IF s \in with THEN Cleared(disk[s], taken[s]) ELSE disk[s]]
<1>1. /\ at = "clear" /\ at' \in {"idle", "clearing"} /\ taken' = NoReplies
      /\ edit' = Empty \/ edit' = g
      /\ UNCHANGED <<disk, copy, left, found, told, cur, chat, rest, reply, tries, parked>>
      /\ UNCHANGED <<log, serving, mem, react, claims, foreign, elsewhere, history, events, rewound>>
  BY DEF ClearReads, Unmoved, Rests
<1>2. disk \in File /\ GoodFile(disk, log, Dealt, rewound) /\ GoodFile(Empty, log, Dealt, rewound)
  BY DEF IInv, TypeOK, FilesGood, Empty, GoodFile
<1>3. ASSUME NEW s \in Sessions, s \in with
      PROVE  g[s] \in Record /\ Good(g[s], s, log, Dealt, rewound)
  <2>1. disk[s] \in Record /\ Good(disk[s], s, log, Dealt, rewound)
    BY <1>2, <1>3, FileIs DEF Known, GoodFile
  <2>2. taken[s] \subseteq Replies /\ taken[s] \subseteq Dealt /\ disk[s].delivered \subseteq Dealt
    BY <2>1 DEF IInv, TypeOK, QueueGood, Good
  <2>3. g[s] = Cleared(disk[s], taken[s])
    BY <1>3
  <2> HIDE DEF g
  <2>4. /\ g[s] \in Record /\ g[s].seen = disk[s].seen /\ g[s].pending = disk[s].pending \ taken[s]
        /\ g[s].delivered = disk[s].delivered \union taken[s] /\ g[s].mark = disk[s].mark
    BY <2>1, <2>2, <2>3, ClearedIs
  <2> QED BY <2>1, <2>2, <2>4, GoodTaken
<1>4. \A s \in Sessions : s \notin with => g[s] = disk[s]
  OBVIOUS
<1>5. g = [s \in Sessions |-> g[s]]
  OBVIOUS
<1> HIDE DEF g, with
<1>6. g \in File /\ GoodFile(g, log, Dealt, rewound)
  BY <1>2, <1>3, <1>4, <1>5, Edited
<1>7. edit' \in File /\ GoodFile(edit', log, Dealt, rewound)
  BY <1>1, <1>2, <1>6, EmptyFile
<1>8. TypeOK'
  BY <1>1, <1>7 DEF IInv, TypeOK, history, Writing, NoReplies
<1>9. Control' /\ Closed' /\ at # "delivering" /\ at' # "delivering"
  BY <1>1 DEF Control, Closed, AtReply, AtSession
<1>10. \A s \in Sessions : taken'[s] \subseteq Dealt
  BY <1>1 DEF NoReplies
<1> QED BY <1>1, <1>7, <1>8, <1>9, <1>10, Moves DEF IInv, QueueGood

-----------------------------------------------------------------------------
(* The theorems *)

(* The initial states. *)
LEMMA InitHolds == Init => IInv
<1> SUFFICES ASSUME Init PROVE IInv
  OBVIOUS
<1> USE RelayAssumption DEF Init
<1>1. NewRecord \in Record
  BY DEF NewRecord, Record
<1>2. disk \in File /\ mem \in File /\ copy \in File /\ edit \in File
  BY <1>1, EmptyFile DEF File
<1>3. TypeOK
  <2>1. tries \in [Replies -> 0 .. ResolveAttempts]
    OBVIOUS
  <2>2. found \in [Sessions -> SUBSET Replies] /\ taken \in [Sessions -> SUBSET Replies]
    BY DEF NoReplies
  <2>3. log \in Seq(Sessions) /\ Len(log) <= MaxReplies
    OBVIOUS
  <2>4. /\ react = None /\ at = "idle"
        /\ left \subseteq Sessions /\ told \subseteq Sessions /\ foreign \subseteq Sessions
        /\ rewound \subseteq Sessions /\ events \in 0 .. MaxEvents /\ cur \in Sessions \union {None}
    OBVIOUS
  <2>5. /\ rest \subseteq Replies /\ reply \in Replies \union {0} /\ parked \subseteq Replies
        /\ claims \subseteq Replies /\ elsewhere \subseteq Replies
        /\ inChat \subseteq Replies /\ settled \subseteq Replies
    OBVIOUS
  <2>6. serving \in BOOLEAN /\ chat \in BOOLEAN
    BY Zenon
  <2> HIDE DEF Init
  <2> QED BY <1>2, <2>1, <2>2, <2>3, <2>4, <2>5, <2>6 DEF TypeOK
<1>4. Dealt = {} /\ DOMAIN log = {} /\ Delivering = {}
  BY DEF Dealt, Delivering
<1>5. \A s \in Sessions : Good(NewRecord, s, log, Dealt, rewound)
  BY <1>4 DEF Good, NewRecord
<1>6. FilesGood
  <2>1. \A s \in Sessions : disk[s] \in {None, NewRecord} /\ mem[s] \in {None, NewRecord}
                            /\ copy[s] = None /\ edit[s] = None
    BY DEF Empty
  <2> QED BY <1>5, <2>1 DEF FilesGood, GoodFile
<1>7. QueueGood /\ Control /\ ClaimsHeld /\ OneDelivery /\ Behind /\ Closed
  BY <1>4 DEF QueueGood, Control, ClaimsHeld, OneDelivery, Behind, Closed, AtReply, AtSession, NoReplies,
              Empty, Known
<1> QED BY <1>3, <1>6, <1>7 DEF IInv

(* Every step. *)
LEMMA NextKeeps == IInv /\ [Next]_vars => IInv'
<1> SUFFICES ASSUME IInv, [Next]_vars PROVE IInv'
  OBVIOUS
<1>1. CASE Server
  BY <1>1, BootKeeps, ExitKeeps, ServerPollKeeps, NotifyKeeps, TakeKeeps DEF Server
<1>2. CASE Environment
  BY <1>2, PostKeeps, GoesQuietKeeps, OtherClaimsKeeps, OtherDeliversKeeps, OtherGivesBackKeeps,
     ReloadKeeps DEF Environment
<1>3. CASE Reactivates
  BY <1>3, ReactivateReadsKeeps, ReactivateWritesKeeps DEF Reactivates
<1>4. CASE ExpireReads \/ Writes \/ ClearReads
  BY <1>4, ExpireReadsKeeps, WriteLandsKeeps, WriteFailsKeeps, ClearReadsKeeps DEF Writes
<1>5. CASE Announces \/ Collects
  BY <1>5, OwedReadsKeeps, StampReadsKeeps, NoticeEndsKeeps, CollectReadsKeeps, CollectRereadsKeeps,
     FetchEndsKeeps DEF Announces, Collects
<1>6. CASE Dispatches
  BY <1>6, DispatchReadsKeeps, IdentifiesKeeps, SessionDoneKeeps, ClaimsKeeps, ClaimedElsewhereKeeps,
     ThrowsKeeps, DeliveryEndsKeeps, NextSessionKeeps, ConsumeKeeps, SkipKeeps, DeliverKeeps
     DEF Dispatches, HandsOver
<1>7. CASE UNCHANGED vars
  BY <1>7 DEF vars, relayVars, history, IInv, TypeOK, FilesGood, QueueGood, Control, ClaimsHeld, OneDelivery,
              Delivering, Dealt, Behind, Closed, Posted, Known
<1> QED BY <1>1, <1>2, <1>3, <1>4, <1>5, <1>6, <1>7 DEF Next, Drain

(* Every copy of the session file, in the file itself, in the server, in   *)
(* the loop of drain(), in a pending write and in reactivate(), keeps its   *)
(* promise, whatever the relay, the server, the user and other windows     *)
(* interleave.                                                             *)
THEOREM RelayInvariant == Spec => []IInv
BY InitHolds, NextKeeps, PTL DEF Spec

(* Every variable keeps its type: above all, RESOLVE_ATTEMPTS bounds what   *)
(* a reply may be tried (attempts in the relay), and a record names only   *)
(* replies that exist.                                                     *)
THEOREM RelayTypeOK == Spec => []TypeOK
<1>1. IInv => TypeOK
  BY DEF IInv
<1> QED BY <1>1, RelayInvariant, PTL

(* A reply is not handed to a chat again once it is in one, nor while       *)
(* another path hands it over: the claim of handOver().                    *)
THEOREM RelayOneDelivery == Spec => []OneDelivery
<1>1. IInv => OneDelivery
  BY DEF IInv
<1> QED BY <1>1, RelayInvariant, PTL

(* Unless the session's watermark was moved back, every copy of its record  *)
(* still owes each posted reply, or somebody has dealt with it: collect(),  *)
(* clear(), expireIdleSessions(), poll() and takeUndelivered().            *)
THEOREM RelayReadIsKept == Spec => []ReadIsKept
<1>1. IInv => ReadIsKept
  <2> SUFFICES ASSUME IInv, NEW s \in Sessions, s \notin rewound, NEW rec \in Versions(s),
                      NEW r \in Posted(s)
               PROVE  r \in Owed(rec, s) \/ r \in Accounted
    BY DEF ReadIsKept
  <2>1. rec # None /\ \/ rec = disk[s] \/ rec = mem[s] \/ rec = edit[s]
                      \/ react # None /\ rec = react[s]
    BY DEF Versions
  <2>2. Good(rec, s, log, Dealt, rewound)
    BY <2>1 DEF IInv, FilesGood, GoodFile
  <2>3. r \in DOMAIN log /\ log[r] = s
    BY DEF Posted
  <2>4. Owes(rec, r) \/ r \in Dealt
    BY <2>2, <2>3 DEF Good
  <2> QED BY <2>4 DEF Owes, Owed, Dealt, Accounted
<1> QED BY <1>1, RelayInvariant, PTL

(* What a step of the server does to the file. *)
LEMMA ServerWrites == ASSUME Server PROVE disk' = disk \/ disk' = mergeForWrite(mem', disk)
BY DEF Server, Boot, Exit, ServerPoll, Notify, Take, Persist

(* A step of the relay that writes the file moves the relay. *)
LEMMA RelayWrites == ASSUME Reactivates \/ Drain, disk' # disk PROVE relayVars' # relayVars
<1>1. CASE Reactivates
  BY <1>1 DEF Reactivates, ReactivateReads, ReactivateWrites, relayVars
<1>2. CASE Drain
  <2>1. WriteLands
    BY <1>2 DEF Drain, ExpireReads, Writes, WriteFails, Announces, OwedReads, StampReads, NoticeEnds,
       Collects, CollectReads, CollectRereads, FetchEnds, Dispatches, DispatchReads, Identifies, Identify,
       SessionDone, HandsOver, Claims, ClaimedElsewhere, Throws, DeliveryEnds, NextSession, Consume, Skip,
       Deliver, ClearReads, Unmoved, Rests
  <2>2. at' # at
    BY <2>1 DEF WriteLands, AfterWrite, Writing
  <2> QED BY <2>2 DEF relayVars
<1> QED BY <1>1, <1>2

(* Of the other steps, only the passing of time shows in the file. *)
LEMMA EnvironmentWrites ==
    ASSUME Environment
    PROVE  disk' = disk \/ \E s \in Sessions : disk' = Quieten(disk, s)
BY DEF Environment, Post, GoesQuiet, OtherClaims, OtherDelivers, OtherGivesBack, Reload

(* The server neither drops the record of a delivery from the file nor      *)
(* queues the reply again: mergeForWrite().                                *)
THEOREM RelayDeliveredStays == Spec => DeliveredStays
<1>1. ASSUME IInv, IInv', [Next]_vars, UNCHANGED relayVars, NEW s \in Known(disk)
      PROVE  /\ disk[s].delivered \subseteq disk'[s].delivered
             /\ disk[s].delivered \intersect disk'[s].pending \subseteq disk[s].pending
  <2>1. s \in Sessions /\ disk[s] # None /\ disk \in File /\ mem' \in File
    BY <1>1 DEF Known, IInv, TypeOK
  <2>2. CASE disk' = disk
    BY <2>2
  <2>3. CASE disk' = mergeForWrite(mem', disk)
    <3>1. CASE mem'[s] = None
      BY <2>1, <2>3, <3>1 DEF mergeForWrite
    <3>2. CASE mem'[s] # None
      <4>1. disk'[s] = Reconciled(mem'[s], disk[s])
        BY <2>1, <2>3, <3>2 DEF mergeForWrite
      <4>2. mem'[s] \in Record /\ disk[s] \in Record
        BY <2>1, <3>2, FileIs
      <4>3. /\ disk'[s].delivered = disk[s].delivered \union mem'[s].delivered
            /\ disk'[s].pending = mem'[s].pending \ (disk[s].delivered \union mem'[s].delivered)
        BY <4>1, <4>2, ReconciledIs
      <4> QED BY <4>3
    <3> QED BY <3>1, <3>2
  <2>4. CASE \E t \in Sessions : disk' = Quieten(disk, t)
    <3>1. Alike(disk'[s], disk[s])
      BY <1>1, <2>1, <2>4, GoodQuiet DEF IInv, FilesGood
    <3> QED BY <3>1 DEF Alike
  <2> QED BY <1>1, <2>2, <2>3, <2>4, ServerWrites, RelayWrites, EnvironmentWrites DEF Next, vars
<1>2. IInv /\ IInv' /\ [Next]_vars
        => [UNCHANGED relayVars =>
               \A s \in Known(disk) :
                   /\ disk[s].delivered \subseteq disk'[s].delivered
                   /\ disk[s].delivered \intersect disk'[s].pending \subseteq disk[s].pending]_vars
  BY <1>1
<1> QED BY <1>2, RelayInvariant, PTL DEF Spec, DeliveredStays

=============================================================================
