---------------------------- MODULE BridgeProofs ----------------------------
(***************************************************************************)
(* Theorems about Bridge for every value of its constants.                 *)
(***************************************************************************)
EXTENDS Bridge, TLAPS, WellFoundedInduction

-----------------------------------------------------------------------------
(* The operators of the model *)

Less == {ss \in Nat \X Nat : ss[1] < ss[2]}

LEMMA LeastExists ==
    ASSUME NEW S \in SUBSET Nat, S # {}
    PROVE  \E i \in S : \A j \in S : i <= j
<1>1. IsWellFoundedOn(Less, Nat)
  BY NatLessThanWellFounded DEF OpToRel, Less
<1>2. \E i \in S : \A j \in S : <<j, i>> \notin Less
  BY <1>1, WFMin
<1>3. \A i, j \in Nat : <<j, i>> \notin Less => i <= j
  BY SMT DEF Less
<1> QED BY <1>2, <1>3

(* First picks the least element of a set of positions. *)
LEMMA FirstIn ==
    ASSUME NEW S \in SUBSET Nat, S # {}
    PROVE  First(S) \in S /\ \A j \in S : First(S) <= j
BY LeastExists DEF First

(* Latest picks the greatest element of a set of positions that is bounded. *)
LEMMA LatestIn ==
    ASSUME NEW n \in Nat, NEW S \in SUBSET (0..n), S # {}
    PROVE  Latest(S) \in S /\ \A j \in S : j <= Latest(S)
<1> DEFINE T == {n - j : j \in S}
<1>1. \A j \in S : j \in Nat /\ n - j \in Nat
  OBVIOUS
<1>2. PICK k \in T : \A m \in T : k <= m
  BY <1>1, LeastExists, T \in SUBSET Nat, T # {}
<1>3. PICK i \in S : k = n - i
  BY <1>2
<1>4. ASSUME NEW j \in S PROVE j <= i
  <2>1. n - i <= n - j
    BY <1>2, <1>3
  <2> QED BY <1>1, <2>1
<1> QED BY <1>4 DEF Latest

LEMMA SessionsNat == Sessions \in SUBSET Nat /\ AnySession \notin Sessions
BY BridgeAssumption DEF Sessions, AnySession

LEMMA Positions ==
    ASSUME TeamsType
    PROVE  Now \in 0..MaxLog /\ 1..Now \subseteq Replies
BY BridgeAssumption DEF TeamsType, Now, Replies

(* A watermark that a fetch or a revival advances stays a watermark. *)
LEMMA AdvanceType ==
    ASSUME NEW mark \in Replies \cup {Never, 0}, NEW at \in Replies \cup {Never, 0}
    PROVE  Advance(mark, at) \in Replies \cup {Never, 0}
BY DEF Advance

(* A session whose list of held replies changes is still a session. *)
LEMMA PendingType ==
    ASSUME NEW m \in [Sessions -> SessionRec], NEW s \in Sessions,
           NEW P \in SUBSET Replies
    PROVE  [m EXCEPT ![s].pending = P] \in [Sessions -> SessionRec]
BY SMTT(20) DEF SessionRec

LEMMA HoldType ==
    ASSUME ListsType, dropped \subseteq Replies,
           NEW s \in Sessions, NEW r \in Replies, Hold(s, r)
    PROVE  ListsType' /\ (dropped \subseteq Replies)'
<1> USE DEF ListsType
<1>1. mem[s].pending \in SUBSET Replies
  BY DEF SessionRec
<1>2. CASE r \in mem[s].pending
  BY <1>2 DEF Hold, lists
<1>3. CASE /\ mem' = [mem EXCEPT ![s].pending = @ \cup {r}]
           /\ UNCHANGED dropped /\ disk' = mem'
  <2>1. mem[s].pending \cup {r} \in SUBSET Replies
    BY <1>1
  <2> QED BY <1>3, <2>1, PendingType
<1>4. CASE /\ disk' = mem'
           /\ \E e \in mem[s].pending :
                /\ mem' = [mem EXCEPT ![s].pending = (@ \ {e}) \cup {r}]
                /\ dropped' = dropped \cup {e}
  <2>1. PICK e \in mem[s].pending :
                /\ mem' = [mem EXCEPT ![s].pending = (@ \ {e}) \cup {r}]
                /\ dropped' = dropped \cup {e}
    BY <1>4
  <2>2. (mem[s].pending \ {e}) \cup {r} \in SUBSET Replies /\ e \in Replies
    BY <1>1
  <2> QED BY <1>4, <2>1, <2>2, PendingType
<1> QED BY <1>2, <1>3, <1>4 DEF Hold, Persist

LEMMA WithoutType ==
    ASSUME ListsType, NEW s \in Sessions, NEW r
    PROVE  Without(s, r) \in [Sessions -> SessionRec]
<1>1. mem[s].pending \ {r} \in SUBSET Replies
  BY DEF ListsType, SessionRec
<1> QED BY <1>1, PendingType DEF Without, ListsType

LEMMA ReleaseType ==
    ASSUME ListsType, NEW s \in Sessions, NEW r, Release(s, r)
    PROVE  ListsType'
BY WithoutType DEF Release, Persist, lists, ListsType

LEMMA HandOverType ==
    ASSUME ListsType, DeliveryType, dropped \subseteq Replies,
           NEW by \in Passes \cup {NoOwner}, NEW s \in Sessions, NEW r \in Replies,
           HandOver(by, s, r)
    PROVE  ListsType' /\ DeliveryType' /\ (dropped \subseteq Replies)'
<1>1. CASE dropped' = dropped \cup {r} /\ UNCHANGED <<lists, delivery>>
  BY <1>1 DEF lists, delivery, ListsType, DeliveryType
<1>2. CASE Release(s, r) /\ UNCHANGED <<delivery, dropped>>
  BY <1>2, ReleaseType DEF delivery, DeliveryType
<1>3. CASE /\ claims' = claims \cup {r} /\ handing' = handing \cup {<<by, s, r>>}
           /\ UNCHANGED <<lists, dropped>>
  BY <1>3 DEF lists, ListsType, DeliveryType
<1> QED BY <1>1, <1>2, <1>3 DEF HandOver

LEMMA DispatchType ==
    ASSUME TypeOK, NEW by \in Passes \cup {NoOwner},
           NEW s \in Sessions, NEW r \in Replies,
           NEW back \in SUBSET (Sessions \X Replies),
           Dispatch(by, s, r, back)
    PROVE  /\ ListsType' /\ CallersType' /\ DeliveryType'
           /\ (dropped \subseteq Replies)' /\ (returned \in [Replies -> Nat])'
<1> DEFINE takers == IF waiters[s] # {} THEN waiters[s] ELSE waiters[AnySession]
<1> USE DEF TypeOK
<1>1. ASSUME NEW w \in takers, Resolve(w, s, r, back), UNCHANGED <<lists, delivery, dropped>>
      PROVE  /\ ListsType' /\ CallersType' /\ DeliveryType'
             /\ (dropped \subseteq Replies)' /\ (returned \in [Replies -> Nat])'
  <2>1. w \in Waits
    BY DEF CallersType, WaitKeys
  <2>2. CallersType'
    BY <1>1, <2>1 DEF CallersType, Resolve
  <2>3. returned' \in [Replies -> Nat]
    BY <1>1 DEF Resolve, HistoryType
  <2> QED BY <1>1, <2>2, <2>3 DEF lists, delivery, ListsType, DeliveryType, HistoryType
<1>2. CASE /\ HandOver(by, s, r) /\ returning' = back
           /\ UNCHANGED <<waiters, call, returned>>
  BY <1>2, HandOverType DEF CallersType, HistoryType
<1>3. CASE /\ Hold(s, r) /\ returning' = back
           /\ UNCHANGED <<waiters, call, delivery, returned>>
  BY <1>3, HoldType DEF CallersType, HistoryType, delivery, DeliveryType
<1> QED BY <1>1, <1>2, <1>3 DEF Dispatch

(* A pass whose record changes is still a pass. *)
LEMMA PassStep ==
    ASSUME PassType, NEW p \in Passes, NEW rec \in PassRec,
           rec.pc = "reading" => rec.at # AnySession,
           pass' = [pass EXCEPT ![p] = rec]
    PROVE  PassType'
BY DEF PassType

LEMMA NextFetchType ==
    ASSUME TeamsType, ListsType, PassType, FlagsType, NEW p \in Passes, NEW rec \in PassRec,
           mem' \in [Sessions -> SessionRec], NextFetch(p, rec)
    PROVE  PassType' /\ ListsType' /\ polling' \in BOOLEAN
<1> DEFINE to(pc, todo, at, since, from, asked) ==
             [pc |-> pc, todo |-> todo, at |-> at, since |-> since, from |-> from,
              asked |-> asked, batch |-> rec.batch, revived |-> rec.revived]
<1>1. CASE /\ polling' = FALSE /\ disk' = mem'
           /\ pass' = [pass EXCEPT ![p] = to("deliver", Sessions, AnySession, Never, NoThread, 0)]
  <2>1. to("deliver", Sessions, AnySession, Never, NoThread, 0) \in PassRec
    BY DEF PassRec, WaitKeys
  <2> QED BY <1>1, <2>1, PassStep DEF ListsType
<1>2. CASE /\ polling' = FALSE /\ disk' = mem'
           /\ pass' = [pass EXCEPT ![p] = to("confirm", rec.revived, AnySession, Never, NoThread, 0)]
  <2>1. to("confirm", rec.revived, AnySession, Never, NoThread, 0) \in PassRec
    BY DEF PassRec, WaitKeys
  <2> QED BY <1>2, <2>1, PassStep DEF ListsType
<1>3. ASSUME NEW s \in rec.todo, polling' = TRUE, UNCHANGED disk,
             pass' = [pass EXCEPT ![p] =
               to("reading", rec.todo \ {s}, s, mem'[s].mark, mem'[s].thread, Now)]
      PROVE  PassType' /\ ListsType' /\ polling' \in BOOLEAN
  <2>1. s \in Sessions /\ s # AnySession
    BY SessionsNat DEF PassRec
  <2>2. mem'[s].mark \in Replies \cup {Never, 0} /\ mem'[s].thread \in Threads \cup {NoThread}
    BY <2>1 DEF SessionRec
  <2>3. to("reading", rec.todo \ {s}, s, mem'[s].mark, mem'[s].thread, Now) \in PassRec
    BY <2>1, <2>2, Positions DEF PassRec, WaitKeys, Replies
  <2> QED BY <1>3, <2>1, <2>3, PassStep DEF ListsType
<1> QED BY <1>1, <1>2, <1>3 DEF NextFetch

LEMMA IdlePassType == IdlePass \in PassRec /\ IdlePass.pc = "idle"
BY DEF IdlePass, PassRec, WaitKeys

LEMMA BeginPassType ==
    ASSUME TypeOK, NEW p \in Passes, BeginPass(p)
    PROVE  PassType' /\ ListsType' /\ polling' \in BOOLEAN
<1>1. PICK watched \in Watched : NextFetch(p, [IdlePass EXCEPT !.todo = watched])
  BY DEF BeginPass
<1>2. watched \in SUBSET Sessions
  BY DEF Watched
<1>3. [IdlePass EXCEPT !.todo = watched] \in PassRec /\ [IdlePass EXCEPT !.todo = watched].pc = "idle"
  BY <1>2, IdlePassType DEF PassRec, IdlePass
<1>4. mem' \in [Sessions -> SessionRec]
  BY DEF BeginPass, TypeOK, ListsType
<1> QED BY <1>1, <1>3, <1>4, NextFetchType DEF TypeOK

LEMMA NoticeType ==
    ASSUME TypeOK, NEW by \in Passes \cup {NoOwner}, NEW kind \in {"paused", "active"},
           NEW s \in Sessions, BeginNotice(by, kind, s)
    PROVE  notes' \subseteq (Passes \cup {NoOwner}) \X {"paused", "active"} \X Threads
<1>1. mem[s].thread \in Threads \cup {NoThread}
  BY DEF TypeOK, ListsType, SessionRec
<1> QED BY <1>1 DEF BeginNotice, TypeOK, NoticesType

(* One field of one session changes. *)
LEMMA FieldType ==
    ASSUME NEW m \in [Sessions -> SessionRec], NEW s \in Sessions
    PROVE  /\ \A b \in BOOLEAN :
                /\ [m EXCEPT ![s].quiet = b] \in [Sessions -> SessionRec]
                /\ [m EXCEPT ![s].expired = b] \in [Sessions -> SessionRec]
                /\ [m EXCEPT ![s].closed = b] \in [Sessions -> SessionRec]
           /\ \A i \in Replies \cup {Never, 0} :
                [m EXCEPT ![s].mark = i] \in [Sessions -> SessionRec]
           /\ \A S \in SUBSET Replies :
                [m EXCEPT ![s].seen = S] \in [Sessions -> SessionRec]
           /\ \A t \in Threads \cup {NoThread} :
                [m EXCEPT ![s].thread = t] \in [Sessions -> SessionRec]
<1>1. ASSUME NEW b \in BOOLEAN PROVE [m EXCEPT ![s].quiet = b] \in [Sessions -> SessionRec]
  BY SMTT(20) DEF SessionRec
<1>2. ASSUME NEW b \in BOOLEAN PROVE [m EXCEPT ![s].expired = b] \in [Sessions -> SessionRec]
  BY SMTT(20) DEF SessionRec
<1>3. ASSUME NEW b \in BOOLEAN PROVE [m EXCEPT ![s].closed = b] \in [Sessions -> SessionRec]
  BY SMTT(20) DEF SessionRec
<1>4. ASSUME NEW i \in Replies \cup {Never, 0}
      PROVE  [m EXCEPT ![s].mark = i] \in [Sessions -> SessionRec]
  BY SMTT(20) DEF SessionRec
<1>5. ASSUME NEW S \in SUBSET Replies PROVE [m EXCEPT ![s].seen = S] \in [Sessions -> SessionRec]
  BY SMTT(20) DEF SessionRec
<1>6. ASSUME NEW t \in Threads \cup {NoThread}
      PROVE  [m EXCEPT ![s].thread = t] \in [Sessions -> SessionRec]
  BY SMTT(20) DEF SessionRec
<1> QED BY <1>1, <1>2, <1>3, <1>4, <1>5, <1>6

(* The user and the clock *)
LEMMA UserPostsType ==
    ASSUME TypeOK, NEW t \in Threads, NEW kind \in Kinds, UserPosts(t, kind)
    PROVE  TypeOK'
<1> USE DEF TypeOK, UserPosts
<1>1. Len(log) + 1 \in Replies
  BY BridgeAssumption DEF TeamsType, Replies
<1>2. TeamsType'
  BY BridgeAssumption DEF TeamsType
<1>3. HistoryType'
  BY <1>1 DEF HistoryType
<1> QED BY <1>2, <1>3 DEF lists, flags, callers, delivery, notices, ListsType, FlagsType,
               PassType, CallersType, PostType, DeliveryType, NoticesType

LEMMA IdleElapsesType ==
    ASSUME TypeOK, NEW s \in Sessions, IdleElapses(s)
    PROVE  TypeOK'
<1> USE DEF TypeOK, IdleElapses
<1>1. disk[s].live \in BOOLEAN
  BY DEF ListsType, SessionRec
<1>2. ListsType'
  BY <1>1, FieldType DEF ListsType
<1> QED BY <1>2 DEF teams, flags, callers, delivery, notices, history, TeamsType, FlagsType,
               PassType, CallersType, PostType, DeliveryType, NoticesType, HistoryType

LEMMA TakeType ==
    ASSUME TypeOK, NEW key \in WaitKeys, Take(key)
    PROVE  TypeOK'
<1> USE DEF TypeOK, Take
<1> DEFINE taken == PendingOf(key)
           left(s) == {r \in mem[s].pending : <<s, r>> \notin taken}
<1>1. \A s \in Sessions : left(s) \in SUBSET Replies /\ mem[s] \in SessionRec
  BY DEF ListsType, SessionRec
<1>2. \A s \in Sessions : [mem[s] EXCEPT !.pending = left(s)] \in SessionRec
  <2> HIDE DEF left
  <2> QED BY <1>1 DEF SessionRec
<1>3. ListsType'
  BY <1>2 DEF ListsType, Persist
<1>4. returned' \in [Replies -> Nat]
  BY DEF HistoryType
<1> QED BY <1>3, <1>4 DEF teams, flags, callers, delivery, notices, TeamsType, FlagsType,
               PassType, CallersType, PostType, DeliveryType, NoticesType, HistoryType

(* A pass *)
LEMMA TickFiresType ==
    ASSUME TypeOK, TickFires
    PROVE  TypeOK'
<1> USE DEF TypeOK, TickFires
<1>1. PassType' /\ ListsType' /\ polling' \in BOOLEAN
  BY BeginPassType DEF Passes
<1> QED BY <1>1 DEF teams, flags, callers, delivery, notices, history, TeamsType, FlagsType,
               CallersType, PostType, DeliveryType, NoticesType, HistoryType

LEMMA FetchFailsType ==
    ASSUME TypeOK, NEW p \in Passes, FetchFails(p)
    PROVE  TypeOK'
<1> USE DEF TypeOK, FetchFails
<1>1. pass[p] \in PassRec /\ mem' \in [Sessions -> SessionRec]
  BY DEF PassType, ListsType
<1>2. PassType' /\ ListsType' /\ polling' \in BOOLEAN
  BY <1>1, NextFetchType
<1> QED BY <1>2 DEF teams, flags, callers, delivery, notices, history, TeamsType, FlagsType,
               CallersType, PostType, DeliveryType, NoticesType, HistoryType

LEMMA FetchReadsType ==
    ASSUME TypeOK, NEW p \in Passes, NEW upto \in pass[p].asked..Now, FetchReads(p, upto)
    PROVE  TypeOK'
<1> DEFINE s == pass[p].at
           fresh == Fresh(p, upto)
           said == {r \in fresh : log[r].kind # "empty"}
           mark == IF fresh = {} THEN mem[s].mark ELSE Advance(mem[s].mark, Latest(fresh))
           quiet == mem[s].quiet /\ said = {}
           expired == mem[s].expired /\ said = {}
           closed == mem[s].closed \/ \E r \in said : log[r].kind = "close"
           seen == mem[s].seen \cup fresh
           batch == pass[p].batch \cup {<<s, r>> : r \in said}
           revived == IF mem[s].expired /\ said # {} THEN pass[p].revived \cup {s}
                      ELSE pass[p].revived
<1>1. s \in Sessions /\ pass[p] \in PassRec /\ mem[s] \in SessionRec
  BY DEF TypeOK, PassType, PassRec, FetchReads, WaitKeys, ListsType
<1>2. fresh \in SUBSET Replies /\ fresh \in SUBSET (0..Now)
  <2>1. pass[p].asked \in Nat
    BY <1>1 DEF PassRec, Replies
  <2>2. 1..upto \subseteq 1..Now /\ 1..Now \subseteq 0..Now
    BY <2>1, Positions DEF TypeOK
  <2> QED BY <2>2, Positions DEF Fresh, TypeOK
<1>3. mark \in Replies \cup {Never, 0}
  <2>1. mem[s].mark \in Replies \cup {Never, 0}
    BY <1>1 DEF SessionRec
  <2>2. fresh # {} => Latest(fresh) \in fresh
    BY <1>2, LatestIn, Positions DEF TypeOK
  <2> HIDE DEF fresh, s
  <2> QED BY <1>2, <2>1, <2>2, AdvanceType
<1>4. mem' = [mem EXCEPT ![s].seen = seen, ![s].mark = mark, ![s].quiet = quiet,
                         ![s].expired = expired, ![s].closed = closed]
  BY <1>1 DEF FetchReads, TypeOK, ListsType, SessionRec
<1> DEFINE a == [mem EXCEPT ![s].seen = seen]
           b == [a EXCEPT ![s].mark = mark]
           c == [b EXCEPT ![s].quiet = quiet]
           d == [c EXCEPT ![s].expired = expired]
           e == [d EXCEPT ![s].closed = closed]
<1>5. e \in [Sessions -> SessionRec]
  <2>1. seen \in SUBSET Replies /\ quiet \in BOOLEAN /\ expired \in BOOLEAN /\ closed \in BOOLEAN
    BY <1>1, <1>2 DEF SessionRec
  <2> HIDE DEF s, seen, mark, quiet, expired, closed
  <2>2. a \in [Sessions -> SessionRec]
    BY <1>1, <2>1, FieldType DEF TypeOK, ListsType
  <2> HIDE DEF a
  <2>3. b \in [Sessions -> SessionRec]
    BY <1>1, <1>3, <2>2, FieldType
  <2> HIDE DEF b
  <2>4. c \in [Sessions -> SessionRec]
    BY <1>1, <2>1, <2>3, FieldType
  <2> HIDE DEF c
  <2>5. d \in [Sessions -> SessionRec]
    BY <1>1, <2>1, <2>4, FieldType
  <2> HIDE DEF d
  <2> QED BY <1>1, <2>1, <2>5, FieldType
<1>6. mem' = e
  BY <1>4
<1>7. NextFetch(p, [pass[p] EXCEPT !.batch = batch, !.revived = revived])
  BY DEF FetchReads
<1>8. [pass[p] EXCEPT !.batch = batch, !.revived = revived] \in PassRec
  <2>1. batch \in SUBSET (Sessions \X Replies) /\ revived \in SUBSET Sessions
    BY <1>1, <1>2 DEF PassRec
  <2> HIDE DEF batch, revived
  <2> QED BY <1>1, <2>1 DEF PassRec
<1>9. PassType' /\ ListsType' /\ polling' \in BOOLEAN
  <2> HIDE DEF e, batch, revived
  <2> QED BY <1>5, <1>6, <1>7, <1>8, NextFetchType DEF TypeOK
<1> QED BY <1>9 DEF teams, flags, callers, delivery, notices, history, TeamsType, FlagsType,
               CallersType, PostType, DeliveryType, NoticesType, HistoryType, FetchReads, TypeOK

LEMMA FetchDoneType ==
    ASSUME TypeOK, NEW p \in Passes, FetchDone(p)
    PROVE  TypeOK'
BY FetchReadsType DEF FetchDone

LEMMA ConfirmType ==
    ASSUME TypeOK, NEW p \in Passes, Confirm(p)
    PROVE  TypeOK'
<1>1. PICK s \in pass[p].todo :
         /\ pass' = [pass EXCEPT ![p].todo = IF @ = {s} THEN Sessions ELSE @ \ {s},
                                 ![p].pc = IF pass[p].todo = {s} THEN "deliver" ELSE @]
         /\ BeginNotice(p, "active", s)
  BY DEF Confirm
<1> DEFINE todo == IF pass[p].todo = {s} THEN Sessions ELSE pass[p].todo \ {s}
           pc == IF pass[p].todo = {s} THEN "deliver" ELSE pass[p].pc
           next == [pass[p] EXCEPT !.todo = todo, !.pc = pc]
<1>2. pass[p] \in PassRec /\ s \in Sessions
  BY DEF TypeOK, PassType, PassRec
<1>3. todo \in SUBSET Sessions /\ pc \in {"confirm", "deliver"}
  BY <1>2 DEF PassRec, Confirm
<1>4. next \in PassRec /\ next.pc # "reading"
  <2> HIDE DEF todo, pc
  <2> QED BY <1>2, <1>3 DEF PassRec
<1>5. pass' = [pass EXCEPT ![p] = next]
  BY <1>1, <1>2 DEF TypeOK, PassType, PassRec
<1>6. PassType'
  <2> HIDE DEF next
  <2> QED BY <1>4, <1>5, PassStep DEF TypeOK
<1>7. NoticesType'
  BY <1>1, <1>2, NoticeType DEF TypeOK, NoticesType, Confirm
<1> QED BY <1>6, <1>7 DEF teams, lists, flags, callers, delivery, history, TeamsType, ListsType,
               FlagsType, CallersType, PostType, DeliveryType, NoticesType, HistoryType, Confirm, TypeOK

LEMMA DeliverType ==
    ASSUME TypeOK, NEW p \in Passes, Deliver(p)
    PROVE  TypeOK'
<1>1. PICK x \in pass[p].batch : /\ pass' = [pass EXCEPT ![p].batch = @ \ {x}]
                                 /\ Dispatch(p, x[1], x[2], returning)
  BY DEF Deliver
<1>2. pass[p] \in PassRec /\ x[1] \in Sessions /\ x[2] \in Replies
  BY DEF TypeOK, PassType, PassRec
<1> DEFINE batch == pass[p].batch \ {x}
           next == [pass[p] EXCEPT !.batch = batch]
<1>3. next \in PassRec /\ next.pc # "reading"
  <2>1. batch \in SUBSET (Sessions \X Replies)
    BY <1>2 DEF PassRec
  <2> HIDE DEF batch
  <2> QED BY <1>2, <2>1 DEF PassRec, Deliver
<1>4. PassType'
  BY <1>1, <1>3, PassStep DEF TypeOK
<1>5. /\ ListsType' /\ CallersType' /\ DeliveryType'
      /\ (dropped \subseteq Replies)' /\ (returned \in [Replies -> Nat])'
  BY <1>1, <1>2, DispatchType DEF TypeOK, CallersType
<1> QED BY <1>4, <1>5 DEF teams, flags, notices, TeamsType, FlagsType, PostType, NoticesType,
               HistoryType, Deliver, TypeOK

LEMMA RedeliverType ==
    ASSUME TypeOK, NEW p \in Passes, Redeliver(p)
    PROVE  TypeOK'
<1> DEFINE s == First(Retained(p))
<1>1. PICK r \in mem[s].pending :
         /\ pass' = [pass EXCEPT ![p].pc = "redeliver",
                                 ![p].todo = {u \in @ : u > s},
                                 ![p].batch = {s} \X (mem[s].pending \ {r})]
         /\ Dispatch(p, s, r, returning)
  BY DEF Redeliver
<1>2. pass[p] \in PassRec
  BY DEF TypeOK, PassType
<1>3. s \in Sessions
  <2>1. Retained(p) \in SUBSET Sessions
    BY <1>2 DEF Retained, PassRec
  <2> QED BY <2>1, FirstIn, SessionsNat DEF Redeliver
<1>4. mem[s].pending \in SUBSET Replies /\ r \in Replies
  BY <1>3 DEF TypeOK, ListsType, SessionRec
<1> DEFINE todo == {u \in pass[p].todo : u > s}
           batch == {s} \X (mem[s].pending \ {r})
           next == [pass[p] EXCEPT !.pc = "redeliver", !.todo = todo, !.batch = batch]
<1>5. next \in PassRec /\ next.pc # "reading"
  <2>1. todo \in SUBSET Sessions /\ batch \in SUBSET (Sessions \X Replies)
    BY <1>2, <1>3, <1>4 DEF PassRec
  <2> HIDE DEF todo, batch
  <2> QED BY <1>2, <2>1 DEF PassRec
<1>6. pass' = [pass EXCEPT ![p] = next]
  <2> HIDE DEF s
  <2> QED BY <1>1, <1>2 DEF TypeOK, PassType, PassRec
<1>7. PassType'
  <2> HIDE DEF next
  <2> QED BY <1>5, <1>6, PassStep DEF TypeOK
<1>8. /\ ListsType' /\ CallersType' /\ DeliveryType'
      /\ (dropped \subseteq Replies)' /\ (returned \in [Replies -> Nat])'
  <2> HIDE DEF s
  <2> QED BY <1>1, <1>3, <1>4, DispatchType DEF TypeOK, CallersType
<1> QED BY <1>7, <1>8 DEF teams, flags, notices, TeamsType, FlagsType, PostType, NoticesType,
               HistoryType, Redeliver, TypeOK

LEMMA ExpireType ==
    ASSUME TypeOK, NEW p \in Passes, Expire(p)
    PROVE  TypeOK'
<1>1. \A s \in Sessions : mem[s] \in SessionRec
  BY DEF TypeOK, ListsType
<1>2. \A s \in Sessions : [mem[s] EXCEPT !.expired = @ \/ s \in Expiring] \in SessionRec
  <2> TAKE s \in Sessions
  <2> DEFINE b == mem[s].expired \/ s \in Expiring
  <2>1. b \in BOOLEAN
    BY <1>1 DEF SessionRec
  <2>2. [mem[s] EXCEPT !.expired = b] \in SessionRec
    <3> HIDE DEF b
    <3> QED BY <1>1, <2>1 DEF SessionRec
  <2> QED BY <2>2
<1>3. mem' \in [Sessions -> SessionRec]
  BY <1>2 DEF Expire
<1>4. ListsType'
  BY <1>3 DEF Expire, TypeOK, ListsType
<1>5. IdlePass \in PassRec /\ [IdlePass EXCEPT !.pc = "warn", !.todo = Expiring] \in PassRec
  BY IdlePassType DEF PassRec, Expiring
<1>6. IdlePass.pc # "reading" /\ [IdlePass EXCEPT !.pc = "warn", !.todo = Expiring].pc # "reading"
  BY DEF IdlePass
<1>7. PassType'
  BY <1>5, <1>6, PassStep DEF Expire, TypeOK
<1> QED BY <1>4, <1>7 DEF teams, flags, callers, delivery, notices, history, TeamsType, FlagsType,
               CallersType, PostType, DeliveryType, NoticesType, HistoryType, Expire, TypeOK

LEMMA WarnType ==
    ASSUME TypeOK, NEW p \in Passes, Warn(p)
    PROVE  TypeOK'
<1>1. pass[p] \in PassRec
  BY DEF TypeOK, PassType
<1>2. PassType' /\ NoticesType'
  <2>1. CASE pass' = [pass EXCEPT ![p] = IdlePass] /\ UNCHANGED notes
    BY <2>1, IdlePassType, PassStep DEF TypeOK, NoticesType, Warn
  <2>2. CASE /\ pass[p].todo # {}
             /\ pass' = [pass EXCEPT ![p].todo = @ \ {First(pass[p].todo)}]
             /\ BeginNotice(p, "paused", First(pass[p].todo))
    <3> DEFINE s == First(pass[p].todo)
               todo == pass[p].todo \ {s}
               next == [pass[p] EXCEPT !.todo = todo]
    <3>1. s \in Sessions
      BY <1>1, <2>2, FirstIn, SessionsNat DEF PassRec
    <3>2. next \in PassRec /\ next.pc # "reading"
      <4>1. todo \in SUBSET Sessions
        BY <1>1 DEF PassRec
      <4> HIDE DEF todo
      <4> QED BY <1>1, <4>1 DEF PassRec, Warn
    <3>3. PassType'
      BY <2>2, <3>2, PassStep DEF TypeOK
    <3>4. NoticesType'
      <4> HIDE DEF s
      <4> QED BY <2>2, <3>1, NoticeType DEF s, TypeOK, NoticesType, Warn
    <3> QED BY <3>3, <3>4
  <2> QED BY <2>1, <2>2 DEF Warn
<1> QED BY <1>2 DEF teams, lists, flags, callers, delivery, history, TeamsType, ListsType,
               FlagsType, CallersType, PostType, DeliveryType, HistoryType, Warn, TypeOK

(* Notices and hand-overs *)
LEMMA NoticePostedType ==
    ASSUME TypeOK, NEW x \in notes, NoticePosted(x)
    PROVE  TypeOK'
<1>1. x[2] \in {"paused", "active"} /\ x[3] \in Threads
  BY DEF TypeOK, NoticesType
<1> QED BY <1>1 DEF teams, flags, callers, delivery, TeamsType, FlagsType, PassType, CallersType,
               PostType, DeliveryType, NoticesType, HistoryType, ListsType, NoticePosted, TypeOK

LEMMA NoticeFailsType ==
    ASSUME TypeOK, NEW x \in notes, NoticeFails(x)
    PROVE  TypeOK'
BY DEF teams, lists, flags, callers, delivery, history, TeamsType, FlagsType, PassType, CallersType,
       PostType, DeliveryType, NoticesType, HistoryType, ListsType, NoticeFails, TypeOK

LEMMA HandOverEndsType ==
    ASSUME TypeOK, NEW h \in handing, HandOverEnds(h)
    PROVE  TypeOK'
<1> DEFINE s == h[2]
           r == h[3]
<1>1. s \in Sessions /\ r \in Replies
  BY DEF TypeOK, DeliveryType
<1>2. DeliveryType'
  BY DEF TypeOK, DeliveryType, HandOverEnds, Unclaim
<1>3. /\ ListsType' /\ (chat \in [Replies -> Nat])' /\ (dropped \subseteq Replies)'
  <2> USE DEF TypeOK, HistoryType
  <2>1. CASE /\ chat' = [chat EXCEPT ![r] = @ + 1] /\ mem' = Without(s, r)
             /\ Persist \/ (mem' = mem /\ UNCHANGED disk)
             /\ UNCHANGED dropped
    <3>1. ListsType'
      BY <1>1, <2>1, WithoutType DEF Persist, ListsType
    <3> QED BY <1>1, <2>1, <3>1
  <2>2. CASE Release(s, r) /\ dropped' = dropped \cup {r} /\ UNCHANGED chat
    BY <1>1, <2>2, ReleaseType
  <2>3. CASE (Hold(s, r) \/ (r \in mem[s].pending /\ Noticed)) /\ UNCHANGED chat
    BY <1>1, <2>3, HoldType DEF Noticed, Persist, ListsType
  <2>4. CASE /\ dropped' = dropped \cup {r} /\ UNCHANGED <<mem, chat>>
             /\ Persist \/ UNCHANGED disk
    BY <1>1, <2>4 DEF Persist, ListsType
  <2>5. CASE UNCHANGED <<lists, chat, dropped>>
    BY <2>5 DEF lists, ListsType
  <2> HIDE DEF s, r, TypeOK, HistoryType
  <2> QED BY <2>1, <2>2, <2>3, <2>4, <2>5 DEF HandOverEnds, s, r
<1> QED BY <1>2, <1>3 DEF teams, flags, callers, notices, TeamsType, FlagsType, PassType,
               CallersType, PostType, NoticesType, HistoryType, HandOverEnds, TypeOK

LEMMA ReturnUndeliveredType ==
    ASSUME TypeOK, ReturnUndelivered
    PROVE  TypeOK'
<1>1. PICK x \in returning : Dispatch(NoOwner, x[1], x[2], returning \ {x})
  BY DEF ReturnUndelivered
<1>2. /\ x[1] \in Sessions /\ x[2] \in Replies
      /\ returning \ {x} \in SUBSET (Sessions \X Replies)
  BY DEF TypeOK, CallersType
<1>3. /\ ListsType' /\ CallersType' /\ DeliveryType'
      /\ (dropped \subseteq Replies)' /\ (returned \in [Replies -> Nat])'
  BY <1>1, <1>2, DispatchType
<1> QED BY <1>3 DEF teams, flags, notices, TeamsType, FlagsType, PassType, PostType, NoticesType,
               HistoryType, ReturnUndelivered, TypeOK

(* Callers *)
LEMMA WaitType ==
    ASSUME TypeOK, NEW w \in Waits, NEW key \in WaitKeys, Wait(w, key)
    PROVE  TypeOK'
<1> DEFINE held == PendingOf(key)
<1> USE DEF TypeOK
<1>1. ASSUME NEW x \in held,
             mem' = Without(x[1], x[2]) /\ Persist,
             call' = [call EXCEPT ![w] = "done"],
             returned' = [returned EXCEPT ![x[2]] = @ + 1],
             UNCHANGED <<listening, waiters, polling, pass>>
      PROVE  /\ ListsType' /\ CallersType' /\ PassType' /\ FlagsType'
             /\ (returned \in [Replies -> Nat])'
  <2>1. x[1] \in Sessions /\ x[2] \in Replies
    BY DEF PendingOf
  <2>2. ListsType'
    BY <1>1, <2>1, WithoutType DEF Persist, ListsType
  <2> QED BY <1>1, <2>1, <2>2 DEF CallersType, PassType, FlagsType, HistoryType, Wait
<1>2. ASSUME listening' = TRUE, waiters' = [waiters EXCEPT ![key] = @ \cup {w}],
             call' = [call EXCEPT ![w] = "waiting"],
             BeginPass(w) \/ (polling /\ UNCHANGED <<lists, polling, pass>>),
             UNCHANGED returned
      PROVE  /\ ListsType' /\ CallersType' /\ PassType' /\ FlagsType'
             /\ (returned \in [Replies -> Nat])'
  <2>1. ListsType' /\ PassType' /\ polling' \in BOOLEAN
    BY <1>2, BeginPassType DEF Passes, lists, ListsType, PassType, FlagsType
  <2>2. CallersType'
    BY <1>2 DEF CallersType, Wait
  <2> QED BY <1>2, <2>1, <2>2 DEF FlagsType, HistoryType, Wait
<1>3. /\ ListsType' /\ CallersType' /\ PassType' /\ FlagsType'
      /\ (returned \in [Replies -> Nat])'
  <2> HIDE DEF TypeOK
  <2> QED BY <1>1, <1>2 DEF Wait
<1> QED BY <1>3 DEF teams, delivery, notices, TeamsType, PostType, DeliveryType, NoticesType,
               HistoryType, Wait

LEMMA TimesOutType ==
    ASSUME TypeOK, NEW w \in Waits, TimesOut(w)
    PROVE  TypeOK'
BY DEF teams, lists, flags, delivery, notices, history, TeamsType, FlagsType, PassType, CallersType,
       PostType, DeliveryType, NoticesType, HistoryType, ListsType, TimesOut, TypeOK

LEMMA AbandonType ==
    ASSUME TypeOK, NEW w \in Waits, Abandon(w)
    PROVE  TypeOK'
BY DEF teams, lists, flags, delivery, notices, history, TeamsType, FlagsType, PassType, CallersType,
       PostType, DeliveryType, NoticesType, HistoryType, ListsType, Abandon, TypeOK

LEMMA NewSessionType ==
    ASSUME NEW k \in Keys
    PROVE  NewSession(k) \in SessionRec
BY DEF NewSession, SessionRec

LEMMA NoSessionType == NoSession \in SessionRec
<1> DEFINE k == CHOOSE k \in Keys : TRUE
<1>1. k \in Keys
  BY BridgeAssumption
<1> HIDE DEF k
<1>2. NewSession(k) \in SessionRec
  BY <1>1, NewSessionType
<1>3. NoSession = [NewSession(k) EXCEPT !.live = FALSE]
  BY DEF NoSession, k
<1> DEFINE new == NewSession(k)
<1> HIDE DEF new
<1> QED BY <1>2, <1>3 DEF new, SessionRec

LEMMA NotifyBeginsType ==
    ASSUME TypeOK, NEW n \in Posts, NEW k \in Keys, NotifyBegins(n, k)
    PROVE  TypeOK'
<1>1. PICK s \in Sessions :
        LET known == IF Created(k, s) THEN NewSession(k) ELSE mem[s]
            thread == IF known.thread = NoThread THEN registry[k] ELSE known.thread IN
        /\ mem' = [mem EXCEPT ![s] = [known EXCEPT !.thread = thread]]
        /\ post' = [post EXCEPT ![n] = [op |-> "notify", s |-> s, t |-> thread]]
  BY DEF NotifyBegins
<1> DEFINE known == IF Created(k, s) THEN NewSession(k) ELSE mem[s]
           thread == IF known.thread = NoThread THEN registry[k] ELSE known.thread
           next == [known EXCEPT !.thread = thread]
<1>2. known \in SessionRec
  BY NewSessionType DEF TypeOK, ListsType
<1>3. thread \in Threads \cup {NoThread}
  <2> HIDE DEF known
  <2> QED BY <1>2 DEF SessionRec, TypeOK, TeamsType
<1>4. next \in SessionRec
  <2> HIDE DEF known, thread
  <2> QED BY <1>2, <1>3 DEF SessionRec
<1>5. ListsType'
  <2> HIDE DEF next
  <2> QED BY <1>1, <1>4 DEF next, ListsType, TypeOK, NotifyBegins
<1>6. PostType'
  <2> HIDE DEF thread
  <2> QED BY <1>1, <1>3 DEF thread, PostType, PostRec, WaitKeys, TypeOK
<1> QED BY <1>5, <1>6 DEF teams, flags, callers, delivery, notices, history, TeamsType, FlagsType,
               PassType, CallersType, DeliveryType, NoticesType, HistoryType, NotifyBegins, TypeOK

LEMMA NoPostType == NoPost \in PostRec
BY DEF NoPost, PostRec, WaitKeys

LEMMA NotifyEndsType ==
    ASSUME TypeOK, NEW n \in Posts, NotifyEnds(n)
    PROVE  TypeOK'
<1> DEFINE s == post[n].s
<1>1. PICK t \in Threads :
         /\ made' = made \cup {t}
         /\ registry' = [registry EXCEPT ![mem[s].key] = t]
         /\ shown' = [shown EXCEPT ![t] = "active"]
         /\ mem' = [mem EXCEPT
              ![s].thread = t, ![s].closed = FALSE, ![s].expired = FALSE,
              ![s].quiet = FALSE, ![s].mark = IF @ = Never THEN Now ELSE @]
  BY DEF NotifyEnds
<1> HIDE DEF s
<1>2. mem' \in [Sessions -> SessionRec]
  <2>1. CASE s \in Sessions
    <3> DEFINE mark == IF mem[s].mark = Never THEN Now ELSE mem[s].mark
               a == [mem EXCEPT ![s].thread = t]
               b == [a EXCEPT ![s].closed = FALSE]
               c == [b EXCEPT ![s].expired = FALSE]
               d == [c EXCEPT ![s].quiet = FALSE]
               e == [d EXCEPT ![s].mark = mark]
    <3>1. mark \in Replies \cup {Never, 0}
      BY <2>1, Positions DEF TypeOK, ListsType, SessionRec, Replies
    <3>2. mem' = e
      BY <1>1, <2>1 DEF TypeOK, ListsType, SessionRec
    <3> HIDE DEF mark
    <3>3. a \in [Sessions -> SessionRec]
      BY <2>1, FieldType DEF TypeOK, ListsType
    <3> HIDE DEF a
    <3>4. b \in [Sessions -> SessionRec]
      BY <2>1, <3>3, FieldType
    <3> HIDE DEF b
    <3>5. c \in [Sessions -> SessionRec]
      BY <2>1, <3>4, FieldType
    <3> HIDE DEF c
    <3>6. d \in [Sessions -> SessionRec]
      BY <2>1, <3>5, FieldType
    <3> HIDE DEF d
    <3> QED BY <2>1, <3>1, <3>2, <3>6, FieldType
  <2>2. CASE s \notin Sessions
    BY <1>1, <2>2 DEF TypeOK, ListsType
  <2> QED BY <2>1, <2>2
<1>3. ListsType'
  BY <1>2 DEF ListsType, NotifyEnds, Persist
<1>4. TeamsType'
  BY <1>1 DEF TypeOK, TeamsType, NotifyEnds
<1>5. PostType'
  BY NoPostType DEF TypeOK, PostType, NotifyEnds
<1>6. HistoryType'
  BY <1>1 DEF TypeOK, HistoryType, NotifyEnds
<1> QED BY <1>3, <1>4, <1>5, <1>6 DEF flags, callers, delivery, notices, FlagsType,
               PassType, CallersType, DeliveryType, NoticesType, NotifyEnds, TypeOK

LEMMA TurnBeginsType ==
    ASSUME TypeOK, NEW n \in Posts, NEW k \in Keys, TurnBegins(n, k)
    PROVE  TypeOK'
<1>1. PICK s \in Sessions :
         post' = [post EXCEPT ![n] = [op |-> "turn", s |-> s, t |-> mem[s].thread]]
  BY DEF TurnBegins
<1>2. [op |-> "turn", s |-> s, t |-> mem[s].thread] \in PostRec
  BY DEF TypeOK, ListsType, SessionRec, PostRec, WaitKeys
<1>3. PostType'
  BY <1>1, <1>2 DEF TypeOK, PostType
<1> QED BY <1>3 DEF teams, flags, callers, delivery, notices, history, TeamsType, FlagsType,
               ListsType, PassType, CallersType, DeliveryType, NoticesType, HistoryType,
               TurnBegins, TypeOK

LEMMA ActiveType ==
    ASSUME ListsType, NEW s
    PROVE  [mem EXCEPT ![s].quiet = FALSE, ![s].expired = FALSE] \in [Sessions -> SessionRec]
<1> DEFINE a == [mem EXCEPT ![s].quiet = FALSE]
           b == [a EXCEPT ![s].expired = FALSE]
<1>1. CASE s \in Sessions
  <2>1. a \in [Sessions -> SessionRec]
    BY <1>1, FieldType DEF ListsType
  <2>2. b \in [Sessions -> SessionRec]
    <3> HIDE DEF a
    <3> QED BY <1>1, <2>1, FieldType
  <2> QED BY <1>1, <2>2 DEF ListsType, SessionRec
<1>2. CASE s \notin Sessions
  BY <1>2 DEF ListsType
<1> QED BY <1>1, <1>2

LEMMA TurnEndsType ==
    ASSUME TypeOK, NEW n \in Posts, TurnEnds(n)
    PROVE  TypeOK'
<1>1. ListsType'
  BY ActiveType DEF TypeOK, TurnEnds, Persist, ListsType
<1>2. PostType'
  BY NoPostType DEF TypeOK, PostType, TurnEnds
<1>3. HistoryType'
  BY DEF TypeOK, HistoryType, TurnEnds
<1> QED BY <1>1, <1>2, <1>3 DEF teams, flags, callers, delivery, notices, TeamsType, FlagsType,
               PassType, CallersType, DeliveryType, NoticesType, TurnEnds, TypeOK

LEMMA PostFailsType ==
    ASSUME TypeOK, NEW n \in Posts, PostFails(n)
    PROVE  TypeOK'
<1>1. PostType'
  BY NoPostType DEF TypeOK, PostType, PostFails
<1> QED BY <1>1 DEF teams, lists, flags, callers, delivery, notices, history, TeamsType, FlagsType,
               ListsType, PassType, CallersType, DeliveryType, NoticesType, HistoryType, PostFails, TypeOK

LEMMA RevivedType ==
    ASSUME TypeOK, NEW s \in Sessions
    PROVE  Revived(s) \in [Sessions -> SessionRec]
<1> DEFINE mark == IF mem[s].expired THEN Advance(mem[s].mark, Now) ELSE mem[s].mark
           a == [mem EXCEPT ![s].quiet = FALSE]
           b == [a EXCEPT ![s].expired = FALSE]
           c == [b EXCEPT ![s].mark = mark]
<1>1. mark \in Replies \cup {Never, 0}
  <2>1. mem[s].mark \in Replies \cup {Never, 0}
    BY DEF TypeOK, ListsType, SessionRec
  <2>2. Now \in Replies \cup {Never, 0}
    BY Positions DEF TypeOK, Replies
  <2> QED BY <2>1, <2>2, AdvanceType
<1>2. Revived(s) = c
  BY DEF Revived, TypeOK, ListsType, SessionRec
<1> HIDE DEF mark
<1>3. a \in [Sessions -> SessionRec]
  BY FieldType DEF TypeOK, ListsType
<1> HIDE DEF a
<1>4. b \in [Sessions -> SessionRec]
  BY <1>3, FieldType
<1> HIDE DEF b
<1>5. c \in [Sessions -> SessionRec]
  BY <1>1, <1>4, FieldType
<1> HIDE DEF c
<1> QED BY <1>2, <1>5

LEMMA ExtendType ==
    ASSUME TypeOK, NEW s \in Sessions, Extend(s)
    PROVE  TypeOK'
<1>1. ListsType'
  BY RevivedType DEF ListsType, Extend, Persist
<1>2. NoticesType'
  BY NoticeType DEF TypeOK, NoticesType, Extend
<1> QED BY <1>1, <1>2 DEF teams, flags, callers, delivery, history, TeamsType, FlagsType,
               PassType, CallersType, PostType, DeliveryType, HistoryType, Extend, TypeOK

LEMMA RecordActivityType ==
    ASSUME TypeOK, NEW k \in Keys, RecordActivity(k)
    PROVE  TypeOK'
<1>1. PICK s \in Sessions :
        /\ mem' = Revived(s)
        /\ listening' = (listening \/ mem[s].expired)
        /\ IF mem[s].expired THEN BeginNotice(NoOwner, "active", s) ELSE UNCHANGED notes
  BY DEF RecordActivity
<1>2. ListsType'
  BY <1>1, RevivedType DEF ListsType, RecordActivity, Persist
<1>3. NoticesType'
  BY <1>1, NoticeType DEF TypeOK, NoticesType, RecordActivity
<1>4. FlagsType'
  BY <1>1 DEF TypeOK, FlagsType, ListsType, SessionRec, RecordActivity
<1> QED BY <1>2, <1>3, <1>4 DEF teams, callers, delivery, history, TeamsType,
               PassType, CallersType, PostType, DeliveryType, HistoryType, RecordActivity, TypeOK

LEMMA CloseSessionType ==
    ASSUME TypeOK, NEW s \in Sessions, CloseSession(s)
    PROVE  TypeOK'
<1>1. ListsType'
  BY FieldType DEF TypeOK, ListsType, CloseSession, Persist
<1> QED BY <1>1 DEF teams, flags, callers, delivery, notices, history, TeamsType, FlagsType, PassType,
               CallersType, PostType, DeliveryType, NoticesType, HistoryType, CloseSession, TypeOK

LEMMA RenameSessionType ==
    ASSUME TypeOK, NEW s \in Sessions, RenameSession(s)
    PROVE  TypeOK'
<1>1. ListsType'
  BY FieldType DEF TypeOK, ListsType, RenameSession, Persist
<1> QED BY <1>1 DEF teams, flags, callers, delivery, notices, history, TeamsType, FlagsType, PassType,
               CallersType, PostType, DeliveryType, NoticesType, HistoryType, RenameSession, TypeOK

LEMMA StopType ==
    ASSUME TypeOK, Stop
    PROVE  TypeOK'
BY DEF teams, lists, callers, delivery, notices, history, TeamsType, ListsType, FlagsType, PassType,
       CallersType, PostType, DeliveryType, NoticesType, HistoryType, Stop, TypeOK

LEMMA ResetType ==
    ASSUME TypeOK, Reset
    PROVE  TypeOK'
<1>1. PICK skipped \in SUBSET UNION {waiters[k] : k \in WaitKeys} :
         call' = [w \in Waits |-> IF \E k \in WaitKeys : w \in waiters[k] \ skipped
                                  THEN "done" ELSE call[w]]
  BY DEF Reset
<1>2. CallersType'
  BY <1>1 DEF TypeOK, CallersType, Reset
<1>3. ListsType'
  BY NoSessionType DEF TypeOK, ListsType, Reset
<1> QED BY <1>2, <1>3 DEF teams, notices, history, TeamsType, FlagsType, PassType,
               PostType, DeliveryType, NoticesType, HistoryType, Reset, TypeOK

LEMMA PublishedType ==
    ASSUME TeamsType, ListsType
    PROVE  Published \in [Keys -> Threads \cup {NoThread}]
<1> DEFINE own(k) == {s \in Sessions : /\ disk[s].live /\ ~disk[s].closed
                                       /\ disk[s].key = k /\ disk[s].thread # NoThread}
<1>1. ASSUME NEW k \in Keys, own(k) # {}
      PROVE  disk[Latest(own(k))].thread \in Threads \cup {NoThread}
  <2>1. own(k) \in SUBSET (0..MaxSessions)
    BY BridgeAssumption DEF Sessions
  <2>2. Latest(own(k)) \in own(k)
    <3> HIDE DEF own
    <3> QED BY <1>1, <2>1, LatestIn, BridgeAssumption
  <2>3. Latest(own(k)) \in Sessions
    BY <2>2
  <2> HIDE DEF own
  <2> QED BY <2>3 DEF ListsType, SessionRec
<1>2. \A k \in Keys : registry[k] \in Threads \cup {NoThread}
  BY DEF TeamsType
<1>3. Published = [k \in Keys |-> IF own(k) = {} THEN registry[k] ELSE disk[Latest(own(k))].thread]
  BY DEF Published
<1> HIDE DEF own
<1> QED BY <1>1, <1>2, <1>3

LEMMA ReloadType ==
    ASSUME TypeOK, Reload
    PROVE  TypeOK'
<1> DEFINE backlog == {x \in Sessions \X Replies : x[2] \in disk[x[1]].pending}
           due == {r \in {x[2] : x \in backlog} : log[r].kind # "close" /\ r \notin claims}
           of(r) == {s \in Sessions : <<s, r>> \in backlog}
<1>1. ListsType'
  <2>1. \A s \in Sessions : [disk[s] EXCEPT !.pending = {}] \in SessionRec
    BY DEF TypeOK, ListsType, SessionRec
  <2> QED BY <2>1 DEF Reload, TypeOK, ListsType, Persist
<1>2. due \in SUBSET Replies
  OBVIOUS
<1>3. ASSUME NEW r \in due PROVE First(of(r)) \in Sessions
  <2>1. PICK x \in backlog : r = x[2]
    OBVIOUS
  <2>2. x[1] \in of(r)
    BY <2>1
  <2>3. of(r) \in SUBSET Nat
    BY SessionsNat
  <2>4. First(of(r)) \in of(r)
    <3> HIDE DEF of
    <3> QED BY <2>2, <2>3, FirstIn
  <2> QED BY <2>4
<1>4. DeliveryType'
  <2>1. CASE /\ handing' = {<<NoOwner, First(of(r)), r>> : r \in due}
             /\ claims' = claims \cup due
    <3> HIDE DEF due, of
    <3> QED BY <1>2, <1>3, <2>1 DEF TypeOK, DeliveryType
  <2>2. CASE handing' = {} /\ UNCHANGED claims
    BY <2>2 DEF TypeOK, DeliveryType
  <2> QED BY <2>1, <2>2 DEF Reload
<1>5. dropped' \subseteq Replies
  BY DEF Reload, TypeOK, HistoryType
<1>6. InFlight \subseteq Replies
  <2>1. \A p \in Passes : pass[p].batch \subseteq Sessions \X Replies
    BY DEF TypeOK, PassType, PassRec
  <2>2. \A h \in handing : h[3] \in Replies
    BY DEF TypeOK, DeliveryType
  <2>3. returning \subseteq Sessions \X Replies
    BY DEF TypeOK, CallersType
  <2> DEFINE routed == (UNION {pass[p].batch : p \in Passes}) \cup returning
  <2>4. ASSUME NEW x \in routed PROVE x \in Sessions \X Replies
    <3>1. CASE x \in returning
      BY <2>3, <3>1
    <3>2. CASE x \in UNION {pass[p].batch : p \in Passes}
      <4>1. PICK p \in Passes : x \in pass[p].batch
        BY <3>2
      <4> QED BY <2>1, <4>1
    <3> QED BY <3>1, <3>2
  <2>5. {x[2] : x \in routed} \subseteq Replies
    <3> HIDE DEF routed
    <3> QED BY <2>4
  <2>6. {h[3] : h \in handing} \subseteq Replies
    BY <2>2
  <2> HIDE DEF routed
  <2> QED BY <2>5, <2>6 DEF InFlight, routed
<1>7. HistoryType'
  BY <1>5, <1>6 DEF Reload, TypeOK, HistoryType
<1>8. TeamsType'
  BY PublishedType DEF Reload, TypeOK, TeamsType
<1>9. CallersType'
  BY DEF Reload, TypeOK, CallersType
<1>10. PassType'
  BY IdlePassType DEF Reload, PassType
<1>11. PostType'
  BY NoPostType DEF Reload, PostType
<1>12. NoticesType' /\ FlagsType'
  BY BridgeAssumption DEF Reload, NoticesType, FlagsType, TypeOK
<1> QED BY <1>1, <1>4, <1>7, <1>8, <1>9, <1>10, <1>11, <1>12 DEF TypeOK

LEMMA InitType == Init => TypeOK
<1> SUFFICES ASSUME Init PROVE TypeOK
  OBVIOUS
<1>1. TeamsType
  BY BridgeAssumption DEF Init, TeamsType
<1>2. ListsType
  BY NoSessionType DEF Init, ListsType
<1>3. FlagsType
  BY BridgeAssumption DEF Init, FlagsType
<1>4. PassType
  BY IdlePassType DEF Init, PassType
<1>5. CallersType /\ DeliveryType /\ NoticesType
  BY DEF Init, CallersType, DeliveryType, NoticesType
<1>6. PostType
  BY NoPostType DEF Init, PostType
<1>7. HistoryType
  BY DEF Init, HistoryType
<1> QED BY <1>1, <1>2, <1>3, <1>4, <1>5, <1>6, <1>7 DEF TypeOK

(* Every step of the bridge keeps the types. *)
LEMMA NextType ==
    ASSUME TypeOK, [Next]_vars
    PROVE  TypeOK'
<1>1. ASSUME NEW p \in Passes, Continues(p) PROVE TypeOK'
  BY <1>1, ConfirmType, DeliverType, RedeliverType, ExpireType, WarnType DEF Continues
<1>2. CASE Answered
  BY <1>2, FetchFailsType, FetchDoneType, HandOverEndsType, NoticePostedType, NoticeFailsType,
     NotifyEndsType, TurnEndsType, PostFailsType DEF Answered
<1>3. CASE Called
  BY <1>3, TimesOutType, AbandonType, WaitType, TakeType, NotifyBeginsType, TurnBeginsType,
     ExtendType, CloseSessionType, RenameSessionType, RecordActivityType, StopType, ResetType,
     ReloadType DEF Called
<1>4. CASE UNCHANGED vars
  BY <1>4 DEF vars, teams, lists, flags, callers, delivery, notices, history, TeamsType, ListsType,
       FlagsType, PassType, CallersType, PostType, DeliveryType, NoticesType, HistoryType, TypeOK
<1> QED BY <1>1, <1>2, <1>3, <1>4, UserPostsType, IdleElapsesType, ReturnUndeliveredType,
           TickFiresType DEF Next

(* The variables of the bridge keep their types: no step makes a session   *)
(* record, a pass, a claim or a hand-over that is not one.                 *)
THEOREM TypeCorrect == Spec => []TypeOK
BY InitType, NextType, PTL DEF Spec

-----------------------------------------------------------------------------
(* One delivery *)

(* A reply that is in a chat, or on its way there, is claimed, and what is  *)
(* on its way is not in a chat yet.  After a reset the claims are gone, but *)
(* nothing is handed over any more.                                         *)
ClaimedWhenHanded ==
    disposed \/ \A r \in Replies :
        (chat[r] > 0 \/ \E h \in handing : h[3] = r) => r \in claims

HandedNotInChat == \A h \in handing : chat[h[3]] = 0

OnceInv ==
    InjectedOnce /\ HandedByOne /\ ClaimsCovered /\ ClaimedWhenHanded /\ HandedNotInChat

LEMMA OnceInit == Init => OnceInv
BY DEF Init, OnceInv, InjectedOnce, HandedByOne, ClaimsCovered, ClaimedWhenHanded, HandedNotInChat

LEMMA OnceUnchanged ==
    ASSUME OnceInv, UNCHANGED <<chat, handing, claims, cut, stranded, disposed>>
    PROVE  OnceInv'
BY DEF OnceInv, InjectedOnce, HandedByOne, ClaimsCovered, ClaimedWhenHanded, HandedNotInChat

LEMMA OnceHandOver ==
    ASSUME TypeOK, OnceInv, NEW by \in Passes \cup {NoOwner}, NEW s \in Sessions,
           NEW r \in Replies, ~disposed, HandOver(by, s, r),
           UNCHANGED <<chat, cut, stranded, disposed>>
    PROVE  OnceInv'
<1>1. CASE UNCHANGED delivery
  BY <1>1, OnceUnchanged DEF delivery
<1>2. CASE /\ r \notin claims /\ claims' = claims \cup {r}
           /\ handing' = handing \cup {<<by, s, r>>}
  <2>1. chat[r] = 0 /\ \A h \in handing : h[3] # r
    BY <1>2 DEF OnceInv, ClaimedWhenHanded, TypeOK, HistoryType
  <2>2. InjectedOnce'
    BY DEF OnceInv, InjectedOnce
  <2>3. HandedByOne'
    BY <1>2, <2>1 DEF OnceInv, HandedByOne
  <2>4. ClaimsCovered'
    <3>1. <<by, s, r>> \in handing' /\ <<by, s, r>>[3] = r
      BY <1>2
    <3>2. \A h \in handing : h \in handing'
      BY <1>2
    <3> QED BY <1>2, <3>1, <3>2 DEF OnceInv, ClaimsCovered
  <2>5. ClaimedWhenHanded'
    BY <1>2 DEF OnceInv, ClaimedWhenHanded
  <2>6. HandedNotInChat'
    BY <1>2, <2>1 DEF OnceInv, HandedNotInChat
  <2> QED BY <2>2, <2>3, <2>4, <2>5, <2>6 DEF OnceInv
<1> QED BY <1>1, <1>2 DEF HandOver

LEMMA OnceDispatch ==
    ASSUME TypeOK, OnceInv, NEW by \in Passes \cup {NoOwner}, NEW s \in Sessions,
           NEW r \in Replies, NEW back, Dispatch(by, s, r, back),
           UNCHANGED <<chat, cut, stranded, disposed>>
    PROVE  OnceInv'
<1>1. CASE UNCHANGED delivery
  BY <1>1, OnceUnchanged DEF delivery
<1>2. CASE Handlers /\ HandOver(by, s, r)
  BY <1>2, OnceHandOver DEF Handlers
<1> QED BY <1>1, <1>2 DEF Dispatch

LEMMA OnceHandOverEnds ==
    ASSUME TypeOK, OnceInv, NEW h \in handing, HandOverEnds(h)
    PROVE  OnceInv'
<1> DEFINE r == h[3]
<1>1. r \in Replies /\ chat[r] = 0 /\ \A g \in handing' : g[3] # r
  BY DEF TypeOK, DeliveryType, OnceInv, HandedNotInChat, HandedByOne, HandOverEnds
<1>2. handing' = handing \ {h} /\ UNCHANGED <<cut, stranded, disposed>>
  BY DEF HandOverEnds, flags
<1>3. CASE chat' = [chat EXCEPT ![r] = @ + 1] /\ UNCHANGED claims
  <2>1. chat'[r] = 1 /\ \A q \in Replies \ {r} : chat'[q] = chat[q]
    BY <1>1, <1>3 DEF TypeOK, HistoryType
  <2>2. \A g \in handing' : g[3] \in Replies
    BY <1>2 DEF TypeOK, DeliveryType
  <2>3. InjectedOnce'
    BY <2>1 DEF OnceInv, InjectedOnce
  <2>4. HandedByOne'
    BY <1>2 DEF OnceInv, HandedByOne
  <2>5. ClaimsCovered'
    <3> SUFFICES ASSUME NEW q \in claims
                 PROVE  chat'[q] > 0 \/ q \in cut \cup stranded \/ \E g \in handing' : g[3] = q
      BY <1>2, <1>3 DEF ClaimsCovered
    <3>1. CASE q = r
      BY <2>1, <3>1
    <3>2. CASE q # r
      <4>1. q \in Replies
        BY DEF TypeOK, DeliveryType
      <4> QED BY <1>2, <2>1, <3>2, <4>1 DEF OnceInv, ClaimsCovered
    <3> QED BY <3>1, <3>2
  <2>6. ClaimedWhenHanded'
    BY <1>1, <1>2, <1>3, <2>1 DEF OnceInv, ClaimedWhenHanded
  <2>7. HandedNotInChat'
    BY <1>1, <1>2, <2>1, <2>2 DEF OnceInv, HandedNotInChat
  <2> QED BY <2>3, <2>4, <2>5, <2>6, <2>7 DEF OnceInv
<1>4. CASE UNCHANGED chat /\ claims' = claims \ {r}
  <2>1. InjectedOnce' /\ HandedByOne' /\ HandedNotInChat'
    BY <1>2, <1>4 DEF OnceInv, InjectedOnce, HandedByOne, HandedNotInChat
  <2>2. ClaimsCovered'
    BY <1>2, <1>4 DEF OnceInv, ClaimsCovered
  <2>3. ClaimedWhenHanded'
    BY <1>1, <1>2, <1>4 DEF OnceInv, ClaimedWhenHanded
  <2> QED BY <2>1, <2>2, <2>3 DEF OnceInv
<1> QED BY <1>3, <1>4 DEF HandOverEnds, Unclaim

LEMMA OnceReload ==
    ASSUME TypeOK, OnceInv, Reload
    PROVE  OnceInv'
<1> DEFINE backlog == {x \in Sessions \X Replies : x[2] \in disk[x[1]].pending}
           held == {x[2] : x \in backlog}
           due == {r \in held : log[r].kind # "close" /\ r \notin claims}
           of(r) == {s \in Sessions : <<s, r>> \in backlog}
<1>1. /\ cut \cup stranded \subseteq cut' \cup stranded'
      /\ UNCHANGED <<chat, disposed>> /\ ~disposed
      /\ \A h \in handing : h[3] \in cut' \cup stranded'
  BY DEF Reload, InFlight
<1>2. CASE handing' = {} /\ UNCHANGED claims
  BY <1>1, <1>2 DEF OnceInv, InjectedOnce, HandedByOne, ClaimsCovered, ClaimedWhenHanded, HandedNotInChat
<1>3. CASE /\ handing' = {<<NoOwner, First(of(r)), r>> : r \in due}
           /\ claims' = claims \cup due
  <2>1. \A h \in handing' : h[3] \in due /\ h = <<NoOwner, First(of(h[3])), h[3]>>
    <3> HIDE DEF due, of
    <3> QED BY <1>3
  <2>2. \A r \in due : r \in Replies /\ chat[r] = 0
    BY <1>1 DEF OnceInv, ClaimedWhenHanded, TypeOK, HistoryType
  <2>3. ASSUME NEW r \in due PROVE \E h \in handing' : h[3] = r
    <3> HIDE DEF due, of
    <3>1. <<NoOwner, First(of(r)), r>> \in handing'
      BY <1>3
    <3> QED BY <3>1
  <2> HIDE DEF due, of
  <2>4. InjectedOnce' /\ HandedByOne'
    BY <1>1, <2>1 DEF OnceInv, InjectedOnce, HandedByOne
  <2>5. ClaimsCovered'
    BY <1>1, <1>3, <2>3 DEF OnceInv, ClaimsCovered
  <2>6. ClaimedWhenHanded'
    BY <1>1, <1>3, <2>1 DEF OnceInv, ClaimedWhenHanded
  <2>7. HandedNotInChat'
    BY <1>1, <2>1, <2>2 DEF HandedNotInChat
  <2> QED BY <2>4, <2>5, <2>6, <2>7 DEF OnceInv
<1> QED BY <1>2, <1>3 DEF Reload

LEMMA OnceReset ==
    ASSUME OnceInv, Reset
    PROVE  OnceInv'
BY DEF Reset, history, OnceInv, InjectedOnce, HandedByOne, ClaimsCovered, ClaimedWhenHanded, HandedNotInChat

LEMMA OncePass ==
    ASSUME TypeOK, OnceInv, NEW p \in Passes, Continues(p)
    PROVE  OnceInv'
<1>1. CASE Deliver(p)
  <2>1. PICK x \in pass[p].batch : Dispatch(p, x[1], x[2], returning)
    BY <1>1 DEF Deliver
  <2>2. x[1] \in Sessions /\ x[2] \in Replies
    BY DEF TypeOK, PassType, PassRec
  <2> QED BY <1>1, <2>1, <2>2, OnceDispatch DEF Deliver, flags
<1>2. CASE Redeliver(p)
  <2>1. PICK r \in mem[First(Retained(p))].pending :
          Dispatch(p, First(Retained(p)), r, returning)
    BY <1>2 DEF Redeliver
  <2>2. Retained(p) \in SUBSET Sessions /\ Retained(p) # {}
    BY <1>2 DEF Redeliver, Retained, TypeOK, PassType, PassRec
  <2>3. First(Retained(p)) \in Sessions
    BY <2>2, FirstIn, SessionsNat
  <2>4. r \in Replies
    BY <2>3 DEF TypeOK, ListsType, SessionRec
  <2> QED BY <1>2, <2>1, <2>3, <2>4, OnceDispatch DEF Redeliver, flags
<1>3. CASE Confirm(p) \/ Expire(p) \/ Warn(p)
  <2>1. UNCHANGED <<chat, handing, claims, cut, stranded, disposed>>
    BY <1>3 DEF Confirm, Expire, Warn, delivery, history, flags
  <2> QED BY <2>1, OnceUnchanged
<1> QED BY <1>1, <1>2, <1>3 DEF Continues

LEMMA OnceNext ==
    ASSUME TypeOK, OnceInv, [Next]_vars
    PROVE  OnceInv'
<1>1. ASSUME NEW p \in Passes, FetchFails(p) \/ FetchDone(p) PROVE OnceInv'
  <2>1. UNCHANGED <<chat, handing, claims, cut, stranded, disposed>>
    BY <1>1 DEF FetchFails, FetchDone, FetchReads, delivery, history, flags
  <2> QED BY <2>1, OnceUnchanged
<1>2. ASSUME NEW x \in notes, NoticePosted(x) \/ NoticeFails(x) PROVE OnceInv'
  <2>1. UNCHANGED <<chat, handing, claims, cut, stranded, disposed>>
    BY <1>2 DEF NoticePosted, NoticeFails, delivery, history, flags
  <2> QED BY <2>1, OnceUnchanged
<1>3. ASSUME NEW n \in Posts, NotifyEnds(n) \/ TurnEnds(n) \/ PostFails(n) PROVE OnceInv'
  <2>1. UNCHANGED <<chat, handing, claims, cut, stranded, disposed>>
    BY <1>3 DEF NotifyEnds, TurnEnds, PostFails, delivery, history, flags
  <2> QED BY <2>1, OnceUnchanged
<1>4. CASE Answered
  BY <1>1, <1>2, <1>3, <1>4, OnceHandOverEnds DEF Answered
<1>5. ASSUME NEW w \in Waits, NEW key \in WaitKeys, TimesOut(w) \/ Abandon(w) \/ Wait(w, key)
      PROVE  OnceInv'
  <2>1. UNCHANGED <<chat, handing, claims, cut, stranded, disposed>>
    BY <1>5 DEF TimesOut, Abandon, Wait, delivery, history, flags
  <2> QED BY <2>1, OnceUnchanged
<1>6. ASSUME NEW n \in Posts, NEW k \in Keys, NotifyBegins(n, k) \/ TurnBegins(n, k)
      PROVE  OnceInv'
  <2>1. UNCHANGED <<chat, handing, claims, cut, stranded, disposed>>
    BY <1>6 DEF NotifyBegins, TurnBegins, delivery, history, flags
  <2> QED BY <2>1, OnceUnchanged
<1>7. ASSUME NEW s \in Sessions, Extend(s) \/ CloseSession(s) \/ RenameSession(s)
      PROVE  OnceInv'
  <2>1. UNCHANGED <<chat, handing, claims, cut, stranded, disposed>>
    BY <1>7 DEF Extend, CloseSession, RenameSession, delivery, history, flags
  <2> QED BY <2>1, OnceUnchanged
<1>8. ASSUME (\E k \in Keys : RecordActivity(k)) \/ (\E key \in WaitKeys : Take(key)) \/ Stop
      PROVE  OnceInv'
  <2>1. UNCHANGED <<chat, handing, claims, cut, stranded, disposed>>
    BY <1>8 DEF RecordActivity, Take, Stop, delivery, history, flags
  <2> QED BY <2>1, OnceUnchanged
<1>9. CASE Called
  <2>1. AnySession \in WaitKeys
    BY DEF WaitKeys
  <2> QED BY <1>5, <1>6, <1>7, <1>8, <1>9, <2>1, OnceReset, OnceReload DEF Called
<1>10. CASE ReturnUndelivered
  <2>1. PICK x \in returning : Dispatch(NoOwner, x[1], x[2], returning \ {x})
    BY <1>10 DEF ReturnUndelivered
  <2>2. x[1] \in Sessions /\ x[2] \in Replies
    BY DEF TypeOK, CallersType
  <2> QED BY <1>10, <2>1, <2>2, OnceDispatch DEF ReturnUndelivered, flags
<1>11. ASSUME \/ \E t \in Threads, kind \in Kinds : UserPosts(t, kind)
              \/ \E s \in Sessions : IdleElapses(s)
              \/ TickFires \/ UNCHANGED vars
       PROVE  OnceInv'
  <2>1. UNCHANGED <<chat, handing, claims, cut, stranded, disposed>>
    BY <1>11 DEF UserPosts, IdleElapses, TickFires, vars, delivery, history, flags
  <2> QED BY <2>1, OnceUnchanged
<1> QED BY <1>4, <1>9, <1>10, <1>11, OncePass DEF Next

LEMMA OnceAlways == Spec => []OnceInv
<1>1. OnceInv /\ TypeOK /\ TypeOK' /\ [Next]_vars => OnceInv'
  BY OnceNext
<1> QED BY <1>1, OnceInit, TypeCorrect, PTL DEF Spec

(* However passes, retries, waits and reloads interleave, handOver puts a  *)
(* reply into a chat at most once.                                         *)
THEOREM InjectedAtMostOnce == Spec => []InjectedOnce
<1>1. OnceInv => InjectedOnce
  BY DEF OnceInv
<1> QED BY <1>1, OnceAlways, PTL

(* No two hand-overs of one reply ever run side by side.                   *)
THEOREM HandedByOneAtATime == Spec => []HandedByOne
<1>1. OnceInv => HandedByOne
  BY DEF OnceInv
<1> QED BY <1>1, OnceAlways, PTL

(* A claim in delivered.json always stands for a delivery that was made or *)
(* is being made, or whose outcome a reload cut off; a failed attempt      *)
(* leaves none.                                                            *)
THEOREM ClaimsAreCovered == Spec => []ClaimsCovered
<1>1. OnceInv => ClaimsCovered
  BY DEF OnceInv
<1> QED BY <1>1, OnceAlways, PTL

-----------------------------------------------------------------------------
(* One reader *)

(* The flag stays true to the passes while none of them begins or ends     *)
(* reading.                                                                *)
LEMMA ReaderUnchanged ==
    ASSUME OneReader, UNCHANGED polling,
           \A q \in Passes : pass'[q].pc = "reading" <=> pass[q].pc = "reading"
    PROVE  OneReader'
BY DEF OneReader

LEMMA ReaderNextFetch ==
    ASSUME PassType, NEW p \in Passes, NEW rec, NextFetch(p, rec),
           \A q \in Passes \ {p} : pass[q].pc # "reading"
    PROVE  OneReader'
<1>1. \A q \in Passes \ {p} : pass'[q].pc # "reading"
  BY DEF NextFetch, PassType
<1>2. polling' <=> pass'[p].pc = "reading"
  BY DEF NextFetch, PassType
<1> QED BY <1>1, <1>2 DEF OneReader

LEMMA ReaderBegins ==
    ASSUME TypeOK, OneReader, NEW p \in Passes, BeginPass(p)
    PROVE  OneReader'
<1>1. \A q \in Passes : pass[q].pc # "reading"
  BY DEF OneReader, BeginPass
<1> QED BY <1>1, ReaderNextFetch DEF BeginPass, TypeOK

LEMMA ReaderContinues ==
    ASSUME TypeOK, OneReader, NEW p \in Passes, Continues(p)
    PROVE  OneReader'
<1>1. pass[p].pc # "reading" /\ UNCHANGED polling
  BY DEF Continues, Confirm, Deliver, Redeliver, Expire, Warn
<1>2. \A q \in Passes \ {p} : pass'[q] = pass[q]
  BY DEF Continues, Confirm, Deliver, Redeliver, Expire, Warn, TypeOK, PassType
<1>3. pass'[p].pc # "reading"
  <2>1. pass[p] \in PassRec /\ p \in DOMAIN pass
    BY DEF TypeOK, PassType
  <2>2. CASE Confirm(p)
    <3>1. PICK s \in pass[p].todo :
            pass' = [pass EXCEPT ![p].todo = IF @ = {s} THEN Sessions ELSE @ \ {s},
                                 ![p].pc = IF pass[p].todo = {s} THEN "deliver" ELSE @]
      BY <2>2 DEF Confirm
    <3> DEFINE todo == IF pass[p].todo = {s} THEN Sessions ELSE pass[p].todo \ {s}
               pc == IF pass[p].todo = {s} THEN "deliver" ELSE pass[p].pc
               next == [pass[p] EXCEPT !.todo = todo, !.pc = pc]
    <3>2. pass' = [pass EXCEPT ![p] = next]
      BY <2>1, <3>1 DEF TypeOK, PassType, PassRec
    <3>3. pc # "reading"
      BY <1>1
    <3>4. next.pc = pc
      <4> HIDE DEF todo, pc
      <4> QED BY <2>1 DEF PassRec
    <3> HIDE DEF next, pc
    <3> QED BY <2>1, <3>2, <3>3, <3>4
  <2>3. CASE Deliver(p)
    BY <1>1, <2>1, <2>3 DEF Deliver, PassRec
  <2>4. CASE Redeliver(p)
    <3>1. PICK todo, batch :
            pass' = [pass EXCEPT ![p].pc = "redeliver", ![p].todo = todo, ![p].batch = batch]
      BY <2>1, <2>4, ZenonT(40) DEF Redeliver, PassRec
    <3> DEFINE next == [pass[p] EXCEPT !.pc = "redeliver", !.todo = todo, !.batch = batch]
    <3>2. pass' = [pass EXCEPT ![p] = next]
      BY <2>1, <3>1 DEF TypeOK, PassType, PassRec
    <3>3. next.pc = "redeliver"
      BY <2>1 DEF PassRec
    <3> HIDE DEF next
    <3> QED BY <2>1, <3>2, <3>3
  <2>5. CASE Expire(p)
    BY <2>1, <2>5 DEF Expire, IdlePass
  <2>6. CASE Warn(p)
    BY <1>1, <2>1, <2>6 DEF Warn, IdlePass, PassRec
  <2> QED BY <2>2, <2>3, <2>4, <2>5, <2>6 DEF Continues
<1> QED BY <1>1, <1>2, <1>3, ReaderUnchanged

LEMMA ReaderFetched ==
    ASSUME TypeOK, OneReader, NEW p \in Passes, FetchFails(p) \/ FetchDone(p)
    PROVE  OneReader'
<1>1. pass[p].pc = "reading"
  BY DEF FetchFails, FetchDone, FetchReads
<1>2. \A q \in Passes \ {p} : pass[q].pc # "reading"
  BY <1>1 DEF OneReader
<1>3. CASE FetchFails(p)
  BY <1>2, <1>3, ReaderNextFetch DEF FetchFails, TypeOK
<1>4. CASE FetchDone(p)
  <2>1. PICK rec : NextFetch(p, rec)
    BY <1>4 DEF FetchDone, FetchReads
  <2> QED BY <1>2, <2>1, ReaderNextFetch DEF TypeOK
<1> QED BY <1>3, <1>4

LEMMA ReaderNext ==
    ASSUME TypeOK, OneReader, [Next]_vars
    PROVE  OneReader'
<1>1. ASSUME UNCHANGED <<pass, polling>> PROVE OneReader'
  BY <1>1, ReaderUnchanged
<1>2. CASE Answered
  <2>1. ASSUME NEW h \in handing, HandOverEnds(h) PROVE UNCHANGED <<pass, polling>>
    BY <2>1 DEF HandOverEnds
  <2>2. ASSUME NEW x \in notes, NoticePosted(x) \/ NoticeFails(x)
        PROVE  UNCHANGED <<pass, polling>>
    BY <2>2 DEF NoticePosted, NoticeFails
  <2>3. ASSUME NEW n \in Posts, NotifyEnds(n) \/ TurnEnds(n) \/ PostFails(n)
        PROVE  UNCHANGED <<pass, polling>>
    BY <2>3 DEF NotifyEnds, TurnEnds, PostFails
  <2> QED BY <1>1, <1>2, <2>1, <2>2, <2>3, ReaderFetched DEF Answered
<1>3. CASE Called
  <2>1. ASSUME NEW w \in Waits, NEW key \in WaitKeys, Wait(w, key) PROVE OneReader'
    <3>1. CASE BeginPass(w)
      BY <3>1, ReaderBegins DEF Passes
    <3>2. CASE UNCHANGED <<pass, polling>>
      BY <1>1, <3>2
    <3> QED BY <2>1, <3>1, <3>2 DEF Wait
  <2>2. ASSUME NEW w \in Waits, TimesOut(w) \/ Abandon(w) PROVE UNCHANGED <<pass, polling>>
    BY <2>2 DEF TimesOut, Abandon
  <2>3. ASSUME NEW n \in Posts, NEW k \in Keys, NotifyBegins(n, k) \/ TurnBegins(n, k)
        PROVE  UNCHANGED <<pass, polling>>
    BY <2>3 DEF NotifyBegins, TurnBegins
  <2>4. ASSUME NEW s \in Sessions, Extend(s) \/ CloseSession(s) \/ RenameSession(s)
        PROVE  UNCHANGED <<pass, polling>>
    BY <2>4 DEF Extend, CloseSession, RenameSession
  <2>5. ASSUME NEW k \in Keys, RecordActivity(k) PROVE UNCHANGED <<pass, polling>>
    BY <2>5 DEF RecordActivity
  <2>6. ASSUME NEW key \in WaitKeys, Take(key) PROVE UNCHANGED <<pass, polling>>
    BY <2>6 DEF Take
  <2>7. CASE Stop \/ Reset
    BY <1>1, <2>7 DEF Stop, Reset
  <2>8. CASE Reload
    BY <2>8 DEF Reload, OneReader, IdlePass
  <2> QED BY <1>1, <1>3, <2>1, <2>2, <2>3, <2>4, <2>5, <2>6, <2>7, <2>8 DEF Called
<1>4. ASSUME NEW t \in Threads, NEW kind \in Kinds, UserPosts(t, kind)
      PROVE  UNCHANGED <<pass, polling>>
  BY <1>4 DEF UserPosts
<1>5. ASSUME NEW s \in Sessions, IdleElapses(s) PROVE UNCHANGED <<pass, polling>>
  BY <1>5 DEF IdleElapses
<1>6. CASE TickFires
  BY <1>6, ReaderBegins DEF TickFires, Passes
<1>7. CASE ReturnUndelivered \/ UNCHANGED vars
  BY <1>1, <1>7 DEF ReturnUndelivered, vars
<1> QED BY <1>1, <1>2, <1>3, <1>4, <1>5, <1>6, <1>7, ReaderContinues DEF Next

(* Whatever starts a pass, the timer, a wait call or another wait call, at *)
(* most one pass of poll() reads the threads, and the polling flag is up   *)
(* exactly while one does.                                                 *)
THEOREM OneReaderAtATime == Spec => []OneReader
<1>1. Init => OneReader
  BY DEF Init, OneReader, IdlePass
<1>2. OneReader /\ TypeOK /\ [Next]_vars => OneReader'
  BY ReaderNext
<1> QED BY <1>1, <1>2, TypeCorrect, PTL DEF Spec

-----------------------------------------------------------------------------
(* Waiters *)

LEMMA WaitersUnchanged ==
    ASSUME WaitersRunning, UNCHANGED <<waiters, call, disposed>>
    PROVE  WaitersRunning'
BY DEF WaitersRunning

(* A call ends and is registered nowhere: what resolving, and a timer, do. *)
LEMMA WaiterEnds ==
    ASSUME TypeOK, WaitersRunning, NEW w \in Waits, UNCHANGED disposed,
           waiters' = [k \in WaitKeys |-> waiters[k] \ {w}],
           call' = [call EXCEPT ![w] = "done"]
    PROVE  WaitersRunning'
<1>1. \A k \in WaitKeys : waiters[k] \subseteq Waits
  BY DEF TypeOK, CallersType
<1>2. \A v \in Waits \ {w} : call'[v] = call[v]
  BY DEF TypeOK, CallersType
<1>3. call'[w] = "done"
  BY DEF TypeOK, CallersType
<1>4. \A k \in WaitKeys : \A v \in waiters'[k] : call'[v] \in {"waiting", "abandoned"}
  BY <1>1, <1>2 DEF WaitersRunning
<1>5. \A k, l \in WaitKeys : waiters'[k] \cap waiters'[l] # {} => k = l
  BY DEF WaitersRunning
<1>6. disposed' \/ \A v \in Waits :
                     call'[v] = "waiting" => \E k \in WaitKeys : v \in waiters'[k]
  BY <1>2, <1>3 DEF WaitersRunning
<1> QED BY <1>4, <1>5, <1>6 DEF WaitersRunning

LEMMA WaitersDispatch ==
    ASSUME TypeOK, WaitersRunning, UNCHANGED disposed, NEW by, NEW s \in Sessions, NEW r,
           NEW back, Dispatch(by, s, r, back)
    PROVE  WaitersRunning'
<1>1. CASE UNCHANGED <<waiters, call>>
  BY <1>1, WaitersUnchanged
<1>2. ASSUME NEW w \in IF waiters[s] # {} THEN waiters[s] ELSE waiters[AnySession],
             Resolve(w, s, r, back)
      PROVE  WaitersRunning'
  <2>1. w \in Waits
    BY DEF TypeOK, CallersType, WaitKeys
  <2> QED BY <1>2, <2>1, WaiterEnds DEF Resolve
<1> QED BY <1>1, <1>2 DEF Dispatch

LEMMA WaitersContinues ==
    ASSUME TypeOK, WaitersRunning, NEW p \in Passes, Continues(p)
    PROVE  WaitersRunning'
<1>1. CASE Deliver(p)
  <2>1. PICK x \in pass[p].batch : Dispatch(p, x[1], x[2], returning)
    BY <1>1 DEF Deliver
  <2>2. x[1] \in Sessions
    BY DEF TypeOK, PassType, PassRec
  <2> QED BY <1>1, <2>1, <2>2, WaitersDispatch DEF Deliver, flags
<1>2. CASE Redeliver(p)
  <2>1. PICK r : Dispatch(p, First(Retained(p)), r, returning)
    BY <1>2 DEF Redeliver
  <2>2. Retained(p) \in SUBSET Sessions /\ Retained(p) # {}
    BY <1>2 DEF Redeliver, Retained, TypeOK, PassType, PassRec
  <2>3. First(Retained(p)) \in Sessions
    BY <2>2, FirstIn, SessionsNat
  <2> QED BY <1>2, <2>1, <2>3, WaitersDispatch DEF Redeliver, flags
<1>3. CASE Confirm(p) \/ Expire(p) \/ Warn(p)
  BY <1>3, WaitersUnchanged DEF Confirm, Expire, Warn, callers, flags
<1> QED BY <1>1, <1>2, <1>3 DEF Continues

LEMMA WaitersWait ==
    ASSUME TypeOK, WaitersRunning, NEW w \in Waits, NEW key \in WaitKeys, Wait(w, key)
    PROVE  WaitersRunning'
<1>1. /\ call[w] = "ready" /\ UNCHANGED disposed
      /\ \A k \in WaitKeys : w \notin waiters[k] /\ waiters[k] \subseteq Waits
  BY DEF Wait, WaitersRunning, TypeOK, CallersType
<1>2. \A v \in Waits \ {w} : call'[v] = call[v]
  BY DEF Wait, TypeOK, CallersType
<1>3. CASE call' = [call EXCEPT ![w] = "done"] /\ UNCHANGED waiters
  BY <1>1, <1>2, <1>3 DEF WaitersRunning, TypeOK, CallersType
<1>4. CASE call' = [call EXCEPT ![w] = "waiting"] /\ waiters' = [waiters EXCEPT ![key] = @ \cup {w}]
  <2>1. call'[w] = "waiting" /\ w \in waiters'[key]
    BY <1>4 DEF TypeOK, CallersType
  <2>2. ASSUME NEW k \in WaitKeys
        PROVE  /\ \A v \in waiters'[k] : v \in Waits /\ (v # w => v \in waiters[k])
               /\ \A v \in waiters[k] : v \in waiters'[k]
               /\ w \in waiters'[k] => k = key
    <3>1. CASE k = key
      BY <1>1, <1>4, <3>1 DEF TypeOK, CallersType
    <3>2. CASE k # key
      <4>1. waiters'[k] = waiters[k]
        BY <1>4, <3>2 DEF TypeOK, CallersType
      <4> QED BY <1>1, <3>2, <4>1
    <3> QED BY <3>1, <3>2
  <2>3. \A k \in WaitKeys : \A v \in waiters'[k] : call'[v] \in {"waiting", "abandoned"}
    <3> SUFFICES ASSUME NEW k \in WaitKeys, NEW v \in waiters'[k]
                 PROVE  call'[v] \in {"waiting", "abandoned"}
      OBVIOUS
    <3>1. CASE v = w
      BY <2>1, <3>1
    <3>2. CASE v # w
      <4>1. v \in waiters[k] /\ v \in Waits
        BY <2>2, <3>2
      <4> QED BY <1>2, <3>2, <4>1 DEF WaitersRunning
    <3> QED BY <3>1, <3>2
  <2>4. \A k, l \in WaitKeys : waiters'[k] \cap waiters'[l] # {} => k = l
    <3> SUFFICES ASSUME NEW k \in WaitKeys, NEW l \in WaitKeys,
                        NEW v, v \in waiters'[k], v \in waiters'[l]
                 PROVE  k = l
      OBVIOUS
    <3>1. CASE v = w
      BY <1>1, <2>2, <3>1
    <3>2. CASE v # w
      <4>1. v \in waiters[k] \cap waiters[l]
        BY <2>2, <3>2
      <4> QED BY <4>1 DEF WaitersRunning
    <3> QED BY <3>1, <3>2
  <2>5. disposed' \/ \A v \in Waits :
                       call'[v] = "waiting" => \E k \in WaitKeys : v \in waiters'[k]
    <3> SUFFICES ASSUME ~disposed, NEW v \in Waits, call'[v] = "waiting"
                 PROVE  \E k \in WaitKeys : v \in waiters'[k]
      BY <1>1
    <3>1. CASE v = w
      BY <2>1, <3>1
    <3>2. CASE v # w
      <4>1. PICK k \in WaitKeys : v \in waiters[k]
        BY <1>2, <3>2 DEF WaitersRunning
      <4> QED BY <2>2, <4>1
    <3> QED BY <3>1, <3>2
  <2> QED BY <2>3, <2>4, <2>5 DEF WaitersRunning
<1> QED BY <1>3, <1>4 DEF Wait

LEMMA WaitersCalled ==
    ASSUME TypeOK, WaitersRunning, Called
    PROVE  WaitersRunning'
<1>1. ASSUME NEW w \in Waits, TimesOut(w) PROVE WaitersRunning'
  BY <1>1, WaiterEnds DEF TimesOut, flags
<1>2. ASSUME NEW w \in Waits, Abandon(w) PROVE WaitersRunning'
  BY <1>2 DEF Abandon, flags, WaitersRunning, TypeOK, CallersType
<1>3. ASSUME NEW key \in WaitKeys, Take(key) PROVE WaitersRunning'
  BY <1>3, WaitersUnchanged DEF Take, callers, flags
<1>4. ASSUME NEW n \in Posts, NEW k \in Keys, NotifyBegins(n, k) \/ TurnBegins(n, k)
      PROVE  WaitersRunning'
  BY <1>4, WaitersUnchanged DEF NotifyBegins, TurnBegins, callers, flags
<1>5. ASSUME NEW s \in Sessions, Extend(s) \/ CloseSession(s) \/ RenameSession(s)
      PROVE  WaitersRunning'
  BY <1>5, WaitersUnchanged DEF Extend, CloseSession, RenameSession, callers, flags
<1>6. ASSUME NEW k \in Keys, RecordActivity(k) PROVE WaitersRunning'
  BY <1>6, WaitersUnchanged DEF RecordActivity, callers
<1>7. CASE Stop
  BY <1>7, WaitersUnchanged DEF Stop, callers
<1>8. CASE Reset
  BY <1>8 DEF Reset, WaitersRunning
<1>9. CASE Reload
  BY <1>9 DEF Reload, WaitersRunning
<1> QED BY <1>1, <1>2, <1>3, <1>4, <1>5, <1>6, <1>7, <1>8, <1>9, WaitersWait DEF Called

LEMMA WaitersNext ==
    ASSUME TypeOK, WaitersRunning, [Next]_vars
    PROVE  WaitersRunning'
<1>1. CASE Answered
  <2>1. ASSUME NEW p \in Passes, FetchFails(p) \/ FetchDone(p)
        PROVE  UNCHANGED <<waiters, call, disposed>>
    BY <2>1 DEF FetchFails, FetchDone, FetchReads, callers, flags
  <2>2. ASSUME NEW h \in handing, HandOverEnds(h)
        PROVE  UNCHANGED <<waiters, call, disposed>>
    BY <2>2 DEF HandOverEnds, callers, flags
  <2>3. ASSUME NEW x \in notes, NoticePosted(x) \/ NoticeFails(x)
        PROVE  UNCHANGED <<waiters, call, disposed>>
    BY <2>3 DEF NoticePosted, NoticeFails, callers, flags
  <2>4. ASSUME NEW n \in Posts, NotifyEnds(n) \/ TurnEnds(n) \/ PostFails(n)
        PROVE  UNCHANGED <<waiters, call, disposed>>
    BY <2>4 DEF NotifyEnds, TurnEnds, PostFails, callers, flags
  <2> QED BY <1>1, <2>1, <2>2, <2>3, <2>4, WaitersUnchanged DEF Answered
<1>2. CASE ReturnUndelivered
  <2>1. PICK x \in returning : Dispatch(NoOwner, x[1], x[2], returning \ {x})
    BY <1>2 DEF ReturnUndelivered
  <2>2. x[1] \in Sessions
    BY DEF TypeOK, CallersType
  <2> QED BY <1>2, <2>1, <2>2, WaitersDispatch DEF ReturnUndelivered, flags
<1>3. ASSUME \/ \E t \in Threads, kind \in Kinds : UserPosts(t, kind)
             \/ \E s \in Sessions : IdleElapses(s)
             \/ TickFires \/ UNCHANGED vars
      PROVE  WaitersRunning'
  BY <1>3, WaitersUnchanged DEF UserPosts, IdleElapses, TickFires, vars, callers, flags
<1> QED BY <1>1, <1>2, <1>3, WaitersContinues, WaitersCalled DEF Next

(* A registered waiter always belongs to a call that has not ended, under  *)
(* one key, and until the bridge is disposed a waiting call is registered: *)
(* no reply is swallowed by a waiter left behind.                          *)
THEOREM WaitersAlwaysRunning == Spec => []WaitersRunning
<1>1. Init => WaitersRunning
  BY DEF Init, WaitersRunning
<1>2. WaitersRunning /\ TypeOK /\ [Next]_vars => WaitersRunning'
  BY WaitersNext
<1> QED BY <1>1, <1>2, TypeCorrect, PTL DEF Spec

-----------------------------------------------------------------------------
(* Watermarks *)

MarkKept == \A s \in Sessions : mem[s].live /\ mem'[s].live => mem'[s].mark >= mem[s].mark

LEMMA MarkInt ==
    ASSUME TypeOK, NEW s \in Sessions
    PROVE  mem[s].mark \in Int /\ mem[s].mark >= Never
BY DEF TypeOK, ListsType, SessionRec, Replies, Never

LEMMA AdvanceGrows ==
    ASSUME NEW mark \in Int, NEW at \in Int
    PROVE  Advance(mark, at) >= mark
BY DEF Advance

(* No watermark changes. *)
LEMMA MarkSame ==
    ASSUME TypeOK, \A s \in Sessions : mem'[s].mark = mem[s].mark
    PROVE  MarkKept
BY MarkInt DEF MarkKept

(* The watermark of one session changes. *)
LEMMA MarkOne ==
    ASSUME TypeOK, NEW u \in Sessions, \A s \in Sessions \ {u} : mem'[s] = mem[s],
           mem[u].live => mem'[u].mark >= mem[u].mark
    PROVE  MarkKept
BY MarkInt DEF MarkKept

LEMMA MarkWithout ==
    ASSUME TypeOK, NEW u \in Sessions, NEW P, mem' = [mem EXCEPT ![u].pending = P]
    PROVE  MarkKept
<1>1. mem'[u].mark = mem[u].mark
  BY DEF TypeOK, ListsType, SessionRec
<1>2. \A s \in Sessions \ {u} : mem'[s] = mem[s]
  BY DEF TypeOK, ListsType
<1> QED BY <1>1, <1>2, MarkSame

LEMMA MarkHold ==
    ASSUME TypeOK, NEW s \in Sessions, NEW r, Hold(s, r)
    PROVE  MarkKept
<1>1. CASE UNCHANGED mem
  BY <1>1, MarkSame
<1>2. CASE \E P : mem' = [mem EXCEPT ![s].pending = P]
  BY <1>2, MarkWithout
<1> QED BY <1>1, <1>2 DEF Hold, lists

LEMMA MarkRelease ==
    ASSUME TypeOK, NEW s \in Sessions, NEW r, Release(s, r)
    PROVE  MarkKept
<1>1. CASE UNCHANGED mem
  BY <1>1, MarkSame
<1>2. CASE mem' = Without(s, r)
  BY <1>2, MarkWithout DEF Without
<1> QED BY <1>1, <1>2 DEF Release, lists

LEMMA MarkDispatch ==
    ASSUME TypeOK, NEW by, NEW s \in Sessions, NEW r, NEW back, Dispatch(by, s, r, back)
    PROVE  MarkKept
BY MarkHold, MarkRelease, MarkSame DEF Dispatch, HandOver, lists

(* What an update of one field leaves of the watermark. *)
LEMMA OtherFields ==
    ASSUME NEW m \in [Sessions -> SessionRec], NEW s \in Sessions
    PROVE  /\ \A S \in SUBSET Replies : [m EXCEPT ![s].seen = S][s].mark = m[s].mark
           /\ \A t \in Threads : [m EXCEPT ![s].thread = t][s].mark = m[s].mark
           /\ \A b \in BOOLEAN : /\ [m EXCEPT ![s].quiet = b][s].mark = m[s].mark
                                 /\ [m EXCEPT ![s].expired = b][s].mark = m[s].mark
                                 /\ [m EXCEPT ![s].closed = b][s].mark = m[s].mark
           /\ \A i \in Int : [m EXCEPT ![s].mark = i][s].mark = i
<1>1. \A S \in SUBSET Replies : [m EXCEPT ![s].seen = S][s].mark = m[s].mark
  BY DEF SessionRec
<1>2. \A t \in Threads : [m EXCEPT ![s].thread = t][s].mark = m[s].mark
  BY DEF SessionRec
<1>3. \A b \in BOOLEAN : [m EXCEPT ![s].quiet = b][s].mark = m[s].mark
  BY DEF SessionRec
<1>4. \A b \in BOOLEAN : [m EXCEPT ![s].expired = b][s].mark = m[s].mark
  BY DEF SessionRec
<1>5. \A b \in BOOLEAN : [m EXCEPT ![s].closed = b][s].mark = m[s].mark
  BY DEF SessionRec
<1>6. \A i \in Int : [m EXCEPT ![s].mark = i][s].mark = i
  BY DEF SessionRec
<1> QED BY <1>1, <1>2, <1>3, <1>4, <1>5, <1>6

LEMMA MarkFetch ==
    ASSUME TypeOK, NEW p \in Passes, FetchDone(p)
    PROVE  MarkKept
<1>1. PICK upto \in pass[p].asked..Now : FetchReads(p, upto)
  BY DEF FetchDone
<1> DEFINE s == pass[p].at
           fresh == Fresh(p, upto)
           mark == IF fresh = {} THEN mem[s].mark ELSE Advance(mem[s].mark, Latest(fresh))
<1>2. s \in Sessions /\ pass[p].asked \in Nat
  <2>1. pass[p] \in PassRec /\ pass[p].pc = "reading" /\ pass[p].at # AnySession
    BY <1>1 DEF TypeOK, PassType, FetchReads
  <2> QED BY <2>1 DEF PassRec, WaitKeys, Replies
<1>3. fresh \in SUBSET (0..Now) /\ Now \in Nat
  <2>1. 1..upto \subseteq 0..Now /\ Now \in Nat
    BY <1>2, Positions, BridgeAssumption DEF TypeOK
  <2> QED BY <2>1 DEF Fresh
<1>4. mark >= mem[s].mark
  <2>1. CASE fresh = {}
    BY <1>2, <2>1, MarkInt
  <2>2. CASE fresh # {}
    <3>1. Latest(fresh) \in Int
      <4> HIDE DEF fresh, Now
      <4>1. Latest(fresh) \in 0..Now
        BY <1>3, <2>2, LatestIn
      <4> QED BY <1>3, <4>1
    <3> HIDE DEF fresh, s
    <3> QED BY <1>2, <2>2, <3>1, MarkInt, AdvanceGrows
  <2> QED BY <2>1, <2>2
<1>5. mem'[s].mark = mark
  <2> DEFINE said == {r \in fresh : log[r].kind # "empty"}
             quiet == mem[s].quiet /\ said = {}
             expired == mem[s].expired /\ said = {}
             closed == mem[s].closed \/ \E r \in said : log[r].kind = "close"
             a == [mem EXCEPT ![s].seen = @ \cup fresh]
             b == [a EXCEPT ![s].mark = mark]
             c == [b EXCEPT ![s].quiet = quiet]
             d == [c EXCEPT ![s].expired = expired]
             e == [d EXCEPT ![s].closed = closed]
  <2>1. mem' = e
    BY <1>1, <1>2 DEF FetchReads, TypeOK, ListsType, SessionRec
  <2>2. b[s].mark = mark /\ b \in [Sessions -> SessionRec]
    <3>1. a \in [Sessions -> SessionRec]
      <4>1. mem[s].seen \cup fresh \in SUBSET Replies
        BY <1>2, <1>3, Positions DEF TypeOK, ListsType, SessionRec, Fresh, Replies
      <4> HIDE DEF fresh, s
      <4> QED BY <1>2, <4>1, FieldType DEF TypeOK, ListsType
    <3>2. mark \in Replies \cup {Never, 0}
      <4>1. mem[s].mark \in Replies \cup {Never, 0}
        BY <1>2 DEF TypeOK, ListsType, SessionRec
      <4>2. fresh # {} => Latest(fresh) \in Replies \cup {Never, 0}
        <5> HIDE DEF fresh
        <5>1. fresh # {} => Latest(fresh) \in 0..Now
          BY <1>3, LatestIn
        <5> QED BY <1>3, <5>1, Positions DEF TypeOK, Replies
      <4> HIDE DEF fresh, s
      <4> QED BY <4>1, <4>2, AdvanceType
    <3> HIDE DEF a, mark, s
    <3> QED BY <1>2, <3>1, <3>2, OtherFields, FieldType
  <2>3. quiet \in BOOLEAN /\ expired \in BOOLEAN /\ closed \in BOOLEAN
    BY <1>2 DEF TypeOK, ListsType, SessionRec
  <2> HIDE DEF b, s, mark, said, quiet, expired, closed
  <2>4. c[s].mark = mark /\ c \in [Sessions -> SessionRec]
    <3>1. c[s].mark = mark
      BY <1>2, <2>2, <2>3, OtherFields
    <3>2. c \in [Sessions -> SessionRec]
      BY <1>2, <2>2, <2>3, FieldType
    <3> QED BY <3>1, <3>2
  <2> HIDE DEF c
  <2>5. d[s].mark = mark /\ d \in [Sessions -> SessionRec]
    <3>1. d[s].mark = mark
      BY <1>2, <2>4, <2>3, OtherFields
    <3>2. d \in [Sessions -> SessionRec]
      BY <1>2, <2>4, <2>3, FieldType
    <3> QED BY <3>1, <3>2
  <2> HIDE DEF d
  <2>6. e[s].mark = mark
    BY <1>2, <2>5, OtherFields
  <2> QED BY <2>1, <2>6
<1>6. \A u \in Sessions \ {s} : mem'[u] = mem[u]
  BY <1>1, <1>2 DEF FetchReads, TypeOK, ListsType
<1> HIDE DEF mark, s
<1> QED BY <1>2, <1>4, <1>5, <1>6, MarkOne

LEMMA MarkRevived ==
    ASSUME TypeOK, NEW s \in Sessions, mem' = Revived(s)
    PROVE  MarkKept
<1> DEFINE mark == IF mem[s].expired THEN Advance(mem[s].mark, Now) ELSE mem[s].mark
           a == [mem EXCEPT ![s].quiet = FALSE]
           b == [a EXCEPT ![s].expired = FALSE]
           c == [b EXCEPT ![s].mark = mark]
<1>1. mark >= mem[s].mark
  <2>1. Now \in Int
    BY Positions, BridgeAssumption DEF TypeOK
  <2> HIDE DEF Now
  <2> QED BY <2>1, MarkInt, AdvanceGrows
<1>2. mem' = c
  BY DEF Revived, TypeOK, ListsType, SessionRec
<1> HIDE DEF mark
<1>3. a \in [Sessions -> SessionRec]
  BY FieldType DEF TypeOK, ListsType
<1> HIDE DEF a
<1>4. b \in [Sessions -> SessionRec]
  BY <1>3, FieldType
<1> HIDE DEF b
<1>5. c[s].mark = mark
  BY <1>4, OtherFields
<1>6. \A u \in Sessions \ {s} : mem'[u] = mem[u]
  BY DEF Revived, TypeOK, ListsType
<1> QED BY <1>1, <1>2, <1>5, <1>6, MarkOne

LEMMA MarkNotifyBegins ==
    ASSUME TypeOK, NEW n \in Posts, NEW k \in Keys, NotifyBegins(n, k)
    PROVE  MarkKept
<1>1. PICK s \in Sessions :
        LET known == IF Created(k, s) THEN NewSession(k) ELSE mem[s]
            thread == IF known.thread = NoThread THEN registry[k] ELSE known.thread IN
        mem' = [mem EXCEPT ![s] = [known EXCEPT !.thread = thread]]
  BY DEF NotifyBegins
<1>2. \A u \in Sessions \ {s} : mem'[u] = mem[u]
  BY <1>1 DEF TypeOK, ListsType
<1>3. CASE Created(k, s)
  BY <1>2, <1>3, MarkOne DEF Created
<1>4. CASE ~Created(k, s)
  <2>1. mem'[s].mark = mem[s].mark
    BY <1>1, <1>4 DEF TypeOK, ListsType, SessionRec
  <2> QED BY <1>2, <2>1, MarkSame
<1> QED BY <1>3, <1>4

LEMMA MarkNotifyEnds ==
    ASSUME TypeOK, NEW n \in Posts, NotifyEnds(n)
    PROVE  MarkKept
<1> DEFINE s == post[n].s
           mark == IF mem[s].mark = Never THEN Now ELSE mem[s].mark
<1>1. PICK t \in Threads :
        mem' = [mem EXCEPT
          ![s].thread = t, ![s].closed = FALSE, ![s].expired = FALSE,
          ![s].quiet = FALSE, ![s].mark = IF @ = Never THEN Now ELSE @]
  BY DEF NotifyEnds
<1>2. CASE s \notin Sessions
  BY <1>1, <1>2, MarkSame DEF TypeOK, ListsType
<1>3. CASE s \in Sessions
  <2> DEFINE a == [mem EXCEPT ![s].thread = t]
             b == [a EXCEPT ![s].closed = FALSE]
             c == [b EXCEPT ![s].expired = FALSE]
             d == [c EXCEPT ![s].quiet = FALSE]
             e == [d EXCEPT ![s].mark = mark]
  <2>1. mark >= mem[s].mark
    <3>1. Now \in Int /\ Now >= Never
      BY Positions, BridgeAssumption DEF TypeOK, Never
    <3> QED BY <1>3, <3>1, MarkInt
  <2>2. mem' = e
    BY <1>1, <1>3 DEF TypeOK, ListsType, SessionRec
  <2> HIDE DEF mark, s
  <2>3. a \in [Sessions -> SessionRec]
    BY <1>3, FieldType DEF TypeOK, ListsType
  <2> HIDE DEF a
  <2>4. b \in [Sessions -> SessionRec]
    BY <1>3, <2>3, FieldType
  <2> HIDE DEF b
  <2>5. c \in [Sessions -> SessionRec]
    BY <1>3, <2>4, FieldType
  <2> HIDE DEF c
  <2>6. d \in [Sessions -> SessionRec]
    BY <1>3, <2>5, FieldType
  <2> HIDE DEF d
  <2>7. e[s].mark = mark
    BY <1>3, <2>6, OtherFields
  <2>8. \A u \in Sessions \ {s} : mem'[u] = mem[u]
    BY <1>1, <1>3 DEF TypeOK, ListsType
  <2> QED BY <1>3, <2>1, <2>2, <2>7, <2>8, MarkOne
<1> QED BY <1>2, <1>3

(* One field other than the watermark changes, in one record or in all. *)
LEMMA MarkTurnEnds ==
    ASSUME TypeOK, NEW n \in Posts, TurnEnds(n)
    PROVE  MarkKept
<1> DEFINE s == post[n].s
           a == [mem EXCEPT ![s].quiet = FALSE]
<1>1. mem' = [mem EXCEPT ![s].quiet = FALSE, ![s].expired = FALSE]
  BY DEF TurnEnds
<1>2. \A u \in Sessions \ {s} : mem'[u] = mem[u]
  BY <1>1 DEF TypeOK, ListsType
<1>3. ASSUME s \in Sessions PROVE mem'[s].mark = mem[s].mark
  <2>1. mem' = [a EXCEPT ![s].expired = FALSE]
    BY <1>1, <1>3 DEF TypeOK, ListsType, SessionRec
  <2>2. a \in [Sessions -> SessionRec] /\ a[s].mark = mem[s].mark
    <3>1. mem \in [Sessions -> SessionRec]
      BY DEF TypeOK, ListsType
    <3> HIDE DEF s
    <3> QED BY <1>3, <3>1, FieldType, OtherFields
  <2> HIDE DEF a, s
  <2> QED BY <1>3, <2>1, <2>2, OtherFields
<1> HIDE DEF s
<1> QED BY <1>2, <1>3, MarkSame

LEMMA MarkContinues ==
    ASSUME TypeOK, NEW p \in Passes, Continues(p)
    PROVE  MarkKept
<1>1. CASE Confirm(p) \/ Warn(p)
  BY <1>1, MarkSame DEF Confirm, Warn, lists
<1>2. CASE Deliver(p)
  <2>1. PICK x \in pass[p].batch : Dispatch(p, x[1], x[2], returning)
    BY <1>2 DEF Deliver
  <2>2. x[1] \in Sessions
    BY DEF TypeOK, PassType, PassRec
  <2> QED BY <2>1, <2>2, MarkDispatch
<1>3. CASE Redeliver(p)
  <2> DEFINE s == First(Retained(p))
  <2>1. s \in Sessions
    <3>1. Retained(p) \in SUBSET Sessions
      BY DEF Retained, TypeOK, PassType, PassRec
    <3> QED BY <1>3, <3>1, FirstIn, SessionsNat DEF Redeliver
  <2>2. \E r : Dispatch(p, s, r, returning)
    BY <1>3 DEF Redeliver
  <2> QED BY <2>1, <2>2, MarkDispatch
<1>4. CASE Expire(p)
  BY <1>4, MarkSame DEF Expire, TypeOK, ListsType, SessionRec
<1> QED BY <1>1, <1>2, <1>3, <1>4 DEF Continues

LEMMA MarkAnswered ==
    ASSUME TypeOK, Answered
    PROVE  MarkKept
<1>1. ASSUME NEW p \in Passes, FetchFails(p) PROVE MarkKept
  BY <1>1, MarkSame DEF FetchFails
<1>2. ASSUME NEW h \in handing, HandOverEnds(h) PROVE MarkKept
  <2>1. h[2] \in Sessions
    BY DEF TypeOK, DeliveryType
  <2>2. \/ mem' = Without(h[2], h[3]) \/ mem' = mem
        \/ Release(h[2], h[3]) \/ Hold(h[2], h[3])
    BY <1>2 DEF HandOverEnds, Noticed, lists
  <2> QED BY <2>1, <2>2, MarkWithout, MarkRelease, MarkHold, MarkSame DEF Without
<1>3. ASSUME NEW x \in notes, NoticePosted(x) \/ NoticeFails(x) PROVE MarkKept
  BY <1>3, MarkSame DEF NoticePosted, NoticeFails, lists
<1>4. ASSUME NEW n \in Posts, PostFails(n) PROVE MarkKept
  BY <1>4, MarkSame DEF PostFails, lists
<1> QED BY <1>1, <1>2, <1>3, <1>4, MarkFetch, MarkNotifyEnds, MarkTurnEnds DEF Answered

LEMMA MarkCalled ==
    ASSUME TypeOK, "reload" \notin Faults, Called
    PROVE  MarkKept
<1>1. ASSUME NEW w \in Waits, TimesOut(w) \/ Abandon(w) PROVE MarkKept
  BY <1>1, MarkSame DEF TimesOut, Abandon, lists
<1>2. ASSUME NEW w \in Waits, NEW key \in WaitKeys, Wait(w, key) PROVE MarkKept
  <2>1. CASE UNCHANGED mem
    BY <2>1, MarkSame
  <2>2. CASE \E x \in PendingOf(key) : mem' = Without(x[1], x[2])
    BY <2>2, MarkWithout DEF Without, PendingOf
  <2> QED BY <1>2, <2>1, <2>2 DEF Wait, BeginPass, lists
<1>3. ASSUME NEW key \in WaitKeys, Take(key) PROVE MarkKept
  BY <1>3, MarkSame DEF Take, TypeOK, ListsType, SessionRec
<1>4. ASSUME NEW n \in Posts, NEW k \in Keys, TurnBegins(n, k) PROVE MarkKept
  BY <1>4, MarkSame DEF TurnBegins
<1>5. ASSUME NEW s \in Sessions, Extend(s) \/ CloseSession(s) \/ RenameSession(s)
      PROVE  MarkKept
  <2>1. CASE Extend(s)
    BY <2>1, MarkRevived DEF Extend
  <2>2. CASE CloseSession(s)
    BY <2>2, MarkSame DEF CloseSession, TypeOK, ListsType, SessionRec
  <2>3. CASE RenameSession(s)
    BY <2>3, MarkSame DEF RenameSession, TypeOK, ListsType, SessionRec
  <2> QED BY <1>5, <2>1, <2>2, <2>3
<1>6. ASSUME NEW k \in Keys, RecordActivity(k) PROVE MarkKept
  BY <1>6, MarkRevived DEF RecordActivity
<1>7. CASE Stop \/ Reset
  BY <1>7, MarkSame DEF Stop, Reset, lists
<1> QED BY <1>1, <1>2, <1>3, <1>4, <1>5, <1>6, <1>7, MarkNotifyBegins DEF Called, Reload

LEMMA MarkNext ==
    ASSUME TypeOK, "reload" \notin Faults, [Next]_vars
    PROVE  MarkKept
<1>1. ASSUME \/ \E t \in Threads, kind \in Kinds : UserPosts(t, kind)
             \/ TickFires \/ UNCHANGED vars
      PROVE  MarkKept
  BY <1>1, MarkSame DEF UserPosts, TickFires, BeginPass, lists, vars
<1>2. ASSUME NEW s \in Sessions, IdleElapses(s) PROVE MarkKept
  BY <1>2, MarkSame DEF IdleElapses, TypeOK, ListsType, SessionRec
<1>3. CASE ReturnUndelivered
  <2>1. PICK x \in returning : Dispatch(NoOwner, x[1], x[2], returning \ {x})
    BY <1>3 DEF ReturnUndelivered
  <2>2. x[1] \in Sessions
    BY DEF TypeOK, CallersType
  <2> QED BY <2>1, <2>2, MarkDispatch
<1> QED BY <1>1, <1>2, <1>3, MarkContinues, MarkAnswered, MarkCalled DEF Next

(* As long as the process is not reloaded, no step takes the watermark of  *)
(* a living session back.  A reload does when the process stopped between  *)
(* a fetch and the save at the end of its pass.                            *)
THEOREM MarksMoveForward ==
    ASSUME "reload" \notin Faults
    PROVE  Spec => MarkForward
<1>1. TypeOK /\ [Next]_vars =>
        [\A s \in Sessions : mem[s].live /\ mem'[s].live => mem'[s].mark >= mem[s].mark]_mem
  BY MarkNext DEF MarkKept
<1> QED BY <1>1, TypeCorrect, PTL DEF Spec, MarkForward


-----------------------------------------------------------------------------
(* The lists of the process and of its store *)

(* A record that was never made, or is gone, has seen and holds nothing. *)
Blank(m) == \A s \in Sessions : ~m[s].live => m[s].seen = {} /\ m[s].pending = {}

(* The store may know less of what was seen than the process, never more:  *)
(* a pass writes at its end.                                               *)
StoreBehind == disposed \/ \A s \in Sessions : disk[s].seen \subseteq mem[s].seen

(* What is on its way belongs to a session that exists.                    *)
PassLive(p) ==
    /\ pass[p].pc = "reading" => \A s \in pass[p].todo \cup {pass[p].at} : mem[s].live
    /\ \A x \in pass[p].batch : mem[x[1]].live

LiveRefs ==
    /\ \A p \in Passes : PassLive(p)
    /\ \A x \in returning : mem[x[1]].live
    /\ \A h \in handing : mem[h[2]].live

ListsGood == Blank(mem) /\ Blank(disk) /\ HeldOnDisk /\ StoreBehind

LiveKept == \A s \in Sessions : mem[s].live => mem'[s].live

(* What an update leaves alone that does not touch the lists. *)
Same(m, n) ==
    \A s \in Sessions : /\ m[s].live => n[s].live
                        /\ n[s].seen = m[s].seen /\ n[s].pending = m[s].pending

LEMMA SameItself == \A m : Same(m, m)
BY DEF Same

LEMMA SameThen ==
    ASSUME NEW l, NEW m, NEW n, Same(l, m), Same(m, n)
    PROVE  Same(l, n)
BY DEF Same

LEMMA FieldSame ==
    ASSUME NEW m \in [Sessions -> SessionRec], NEW s \in Sessions
    PROVE  /\ \A b \in BOOLEAN : /\ Same(m, [m EXCEPT ![s].quiet = b])
                                 /\ Same(m, [m EXCEPT ![s].expired = b])
                                 /\ Same(m, [m EXCEPT ![s].closed = b])
           /\ \A i \in Replies \cup {Never, 0} : Same(m, [m EXCEPT ![s].mark = i])
           /\ \A t \in Threads \cup {NoThread} : Same(m, [m EXCEPT ![s].thread = t])
<1> USE DEF Same, SessionRec
<1>1. ASSUME NEW b \in BOOLEAN PROVE Same(m, [m EXCEPT ![s].quiet = b])
  OBVIOUS
<1>2. ASSUME NEW b \in BOOLEAN PROVE Same(m, [m EXCEPT ![s].expired = b])
  OBVIOUS
<1>3. ASSUME NEW b \in BOOLEAN PROVE Same(m, [m EXCEPT ![s].closed = b])
  OBVIOUS
<1>4. ASSUME NEW i \in Replies \cup {Never, 0} PROVE Same(m, [m EXCEPT ![s].mark = i])
  OBVIOUS
<1>5. ASSUME NEW t \in Threads \cup {NoThread} PROVE Same(m, [m EXCEPT ![s].thread = t])
  OBVIOUS
<1> QED BY <1>1, <1>2, <1>3, <1>4, <1>5

(* A step that leaves the lists alone, and writes them or not.             *)
LEMMA GoodSame ==
    ASSUME ListsGood, UNCHANGED disposed, Same(mem, mem'), Same(disk, disk') \/ disk' = mem'
    PROVE  ListsGood' /\ LiveKept
<1>1. Blank(mem')
  BY DEF ListsGood, Blank, Same
<1>2. Blank(disk')
  BY <1>1 DEF ListsGood, Blank, Same
<1>3. HeldOnDisk'
  BY DEF ListsGood, HeldOnDisk, Same
<1>4. StoreBehind'
  BY DEF ListsGood, StoreBehind, Same
<1> QED BY <1>1, <1>2, <1>3, <1>4 DEF ListsGood, LiveKept, Same, Blank

(* A step that writes what it made of them.                                *)
LEMMA GoodPersist ==
    ASSUME Blank(mem'), disk' = mem'
    PROVE  ListsGood'
BY DEF ListsGood, Blank, HeldOnDisk, StoreBehind

(* The lists of replies held by one session change.                        *)
HeldBy(s, P) ==
    /\ \A u \in Sessions : mem'[u].live = mem[u].live /\ mem'[u].seen = mem[u].seen
    /\ \A u \in Sessions \ {s} : mem'[u].pending = mem[u].pending
    /\ mem'[s].pending = P

LEMMA PendingIs ==
    ASSUME ListsType, NEW s \in Sessions, NEW P, mem' = [mem EXCEPT ![s].pending = P]
    PROVE  HeldBy(s, P)
BY DEF HeldBy, ListsType, SessionRec

LEMMA GoodHeld ==
    ASSUME ListsGood, NEW s \in Sessions, NEW P, HeldBy(s, P), mem[s].live \/ P = {},
           disk' = mem'
    PROVE  ListsGood' /\ LiveKept
<1>1. Blank(mem')
  BY DEF ListsGood, Blank, HeldBy
<1> QED BY <1>1, GoodPersist DEF LiveKept, HeldBy

LEMMA WithoutIs ==
    ASSUME ListsType, NEW s \in Sessions, NEW r, mem' = Without(s, r)
    PROVE  HeldBy(s, mem[s].pending \ {r})
BY PendingIs DEF Without

LEMMA GoodWithout ==
    ASSUME ListsType, ListsGood, NEW s \in Sessions, NEW r, mem' = Without(s, r),
           UNCHANGED disposed, disk' = mem' \/ (mem' = mem /\ UNCHANGED disk)
    PROVE  ListsGood' /\ LiveKept
<1>1. CASE disk' = mem'
  <2>1. mem[s].live \/ mem[s].pending \ {r} = {}
    BY DEF ListsGood, Blank
  <2> QED BY <1>1, <2>1, WithoutIs, GoodHeld
<1>2. CASE mem' = mem /\ UNCHANGED disk
  BY <1>2, GoodSame, SameItself
<1> QED BY <1>1, <1>2

LEMMA GoodRelease ==
    ASSUME ListsType, ListsGood, NEW s \in Sessions, NEW r, Release(s, r), UNCHANGED disposed
    PROVE  ListsGood' /\ LiveKept
BY GoodWithout, GoodSame, SameItself DEF Release, Persist, lists

(* hold: what is held afterwards. *)
LEMMA HoldIs ==
    ASSUME ListsType, NEW s \in Sessions, NEW r, Hold(s, r)
    PROVE  \/ r \in mem[s].pending /\ UNCHANGED <<lists, dropped>>
           \/ HeldBy(s, mem[s].pending \cup {r}) /\ disk' = mem' /\ UNCHANGED dropped
           \/ /\ disk' = mem'
              /\ \E e \in mem[s].pending :
                   HeldBy(s, (mem[s].pending \ {e}) \cup {r}) /\ dropped' = dropped \cup {e}
<1>1. CASE r \in mem[s].pending
  BY <1>1 DEF Hold
<1>2. CASE /\ mem' = [mem EXCEPT ![s].pending = @ \cup {r}]
           /\ UNCHANGED dropped /\ disk' = mem'
  BY <1>2, PendingIs
<1>3. CASE /\ disk' = mem'
           /\ \E e \in mem[s].pending :
                /\ mem' = [mem EXCEPT ![s].pending = (@ \ {e}) \cup {r}]
                /\ dropped' = dropped \cup {e}
  BY <1>3, PendingIs
<1> QED BY <1>1, <1>2, <1>3 DEF Hold, Persist

LEMMA GoodHold ==
    ASSUME ListsType, ListsGood, NEW s \in Sessions, NEW r, mem[s].live, Hold(s, r),
           UNCHANGED disposed
    PROVE  ListsGood' /\ LiveKept
<1>1. CASE UNCHANGED lists
  BY <1>1, GoodSame, SameItself DEF lists
<1>2. ASSUME NEW P, HeldBy(s, P), disk' = mem' PROVE ListsGood' /\ LiveKept
  BY <1>2, GoodHeld
<1> QED BY <1>1, <1>2, HoldIs

-----------------------------------------------------------------------------
(* Passes *)

(* A pass that is idle, or warns, has nothing left to dispatch; the pass   *)
(* of a wait call does not begin before the call.                          *)
Rest == \A p \in Passes : pass[p].pc \in {"idle", "warn"} => pass[p].batch = {}
ReadyIdle == \A w \in Waits : call[w] = "ready" => pass[w].pc = "idle"

(* Pass p is at a place in pc, with this batch; the others are untouched.  *)
PassMoves(p, places, batch) ==
    /\ \A q \in Passes \ {p} : pass'[q] = pass[q]
    /\ pass'[p].pc \in places /\ pass'[p].batch = batch

LEMMA PassMoved ==
    ASSUME PassType, NEW p \in Passes, NEW rec, pass' = [pass EXCEPT ![p] = rec]
    PROVE  PassMoves(p, {rec.pc}, rec.batch)
BY DEF PassType, PassMoves

LEMMA ConfirmMoves ==
    ASSUME TypeOK, NEW p \in Passes, Confirm(p)
    PROVE  PassMoves(p, {"confirm", "deliver"}, pass[p].batch)
<1>1. PICK s \in pass[p].todo :
         pass' = [pass EXCEPT ![p].todo = IF @ = {s} THEN Sessions ELSE @ \ {s},
                              ![p].pc = IF pass[p].todo = {s} THEN "deliver" ELSE @]
  BY DEF Confirm
<1> DEFINE todo == IF pass[p].todo = {s} THEN Sessions ELSE pass[p].todo \ {s}
           pc == IF pass[p].todo = {s} THEN "deliver" ELSE pass[p].pc
           next == [pass[p] EXCEPT !.todo = todo, !.pc = pc]
<1>2. pass[p] \in PassRec
  BY DEF TypeOK, PassType
<1>3. pc \in {"confirm", "deliver"}
  BY DEF Confirm
<1>4. next.pc = pc /\ next.batch = pass[p].batch
  <2> HIDE DEF todo, pc
  <2> QED BY <1>2 DEF PassRec
<1>5. pass' = [pass EXCEPT ![p] = next]
  BY <1>1, <1>2 DEF TypeOK, PassType, PassRec
<1> HIDE DEF next, pc
<1> QED BY <1>3, <1>4, <1>5, PassMoved DEF TypeOK, PassMoves

LEMMA DeliverMoves ==
    ASSUME TypeOK, NEW p \in Passes, Deliver(p)
    PROVE  \E x \in pass[p].batch : /\ Dispatch(p, x[1], x[2], returning)
                                    /\ PassMoves(p, {"deliver", "redeliver"}, pass[p].batch \ {x})
<1>1. PICK x \in pass[p].batch : /\ pass' = [pass EXCEPT ![p].batch = @ \ {x}]
                                 /\ Dispatch(p, x[1], x[2], returning)
  BY DEF Deliver
<1> DEFINE batch == pass[p].batch \ {x}
           next == [pass[p] EXCEPT !.batch = batch]
<1>2. pass[p] \in PassRec /\ pass[p].pc \in {"deliver", "redeliver"}
  BY DEF TypeOK, PassType, Deliver
<1>3. next.pc = pass[p].pc /\ next.batch = batch
  <2> HIDE DEF batch
  <2> QED BY <1>2 DEF PassRec
<1>4. pass' = [pass EXCEPT ![p] = next]
  BY <1>1, <1>2 DEF TypeOK, PassType, PassRec
<1> HIDE DEF next, batch
<1>5. PassMoves(p, {next.pc}, next.batch)
  BY <1>4, PassMoved DEF TypeOK
<1>6. PassMoves(p, {"deliver", "redeliver"}, batch)
  BY <1>2, <1>3, <1>5 DEF PassMoves
<1> QED BY <1>1, <1>6 DEF batch

LEMMA RedeliverMoves ==
    ASSUME TypeOK, NEW p \in Passes, Redeliver(p)
    PROVE  \E s \in Sessions : \E r \in mem[s].pending :
             /\ mem[s].live /\ Dispatch(p, s, r, returning) /\ pass[p].batch = {}
             /\ PassMoves(p, {"deliver", "redeliver"}, {s} \X (mem[s].pending \ {r}))
<1> DEFINE s == First(Retained(p))
<1>1. PICK r \in mem[s].pending :
        /\ pass' = [pass EXCEPT ![p].pc = "redeliver", ![p].todo = {u \in @ : u > s},
                                ![p].batch = {s} \X (mem[s].pending \ {r})]
        /\ Dispatch(p, s, r, returning)
  BY DEF Redeliver
<1>2. s \in Sessions /\ s \in Retained(p)
  <2>1. Retained(p) \in SUBSET Sessions
    BY DEF Retained, TypeOK, PassType, PassRec
  <2> QED BY <2>1, FirstIn, SessionsNat DEF Redeliver
<1>3. mem[s].live
  BY <1>2 DEF Retained, Open
<1> DEFINE batch == {s} \X (mem[s].pending \ {r})
           todo == {u \in pass[p].todo : u > s}
           next == [pass[p] EXCEPT !.pc = "redeliver", !.todo = todo, !.batch = batch]
<1>4. pass[p] \in PassRec
  BY DEF TypeOK, PassType
<1>5. next.pc = "redeliver" /\ next.batch = batch
  <2> HIDE DEF batch, todo
  <2> QED BY <1>4 DEF PassRec
<1>6. pass' = [pass EXCEPT ![p] = next]
  <2> HIDE DEF s
  <2> QED BY <1>1, <1>4 DEF TypeOK, PassType, PassRec
<1> HIDE DEF next, batch, s
<1>7. PassMoves(p, {next.pc}, next.batch)
  BY <1>6, PassMoved DEF TypeOK
<1>8. PassMoves(p, {"deliver", "redeliver"}, batch)
  BY <1>5, <1>7 DEF PassMoves
<1>9. PassMoves(p, {"deliver", "redeliver"}, {s} \X (mem[s].pending \ {r}))
  BY <1>8 DEF batch
<1>10. pass[p].batch = {}
  BY DEF Redeliver
<1> QED BY <1>1, <1>2, <1>3, <1>9, <1>10

LEMMA ExpireMoves ==
    ASSUME TypeOK, NEW p \in Passes, Expire(p)
    PROVE  pass[p].batch = {} /\ PassMoves(p, {"idle", "warn"}, {})
<1> DEFINE warn == [IdlePass EXCEPT !.pc = "warn", !.todo = Expiring]
<1>1. IdlePass.pc = "idle" /\ IdlePass.batch = {} /\ warn.pc = "warn" /\ warn.batch = {}
  BY DEF IdlePass
<1>2. pass' = [pass EXCEPT ![p] = IdlePass] \/ pass' = [pass EXCEPT ![p] = warn]
  BY DEF Expire
<1> HIDE DEF warn
<1>3. PassMoves(p, {"idle", "warn"}, {})
  BY <1>1, <1>2, PassMoved DEF TypeOK, PassMoves
<1> QED BY <1>3 DEF Expire

LEMMA WarnMoves ==
    ASSUME TypeOK, Rest, NEW p \in Passes, Warn(p)
    PROVE  pass[p].batch = {} /\ PassMoves(p, {"idle", "warn"}, {})
<1>1. pass[p].batch = {} /\ pass[p] \in PassRec
  BY DEF TypeOK, PassType, Rest, Warn
<1>2. CASE pass' = [pass EXCEPT ![p] = IdlePass]
  <2>1. IdlePass.pc = "idle" /\ IdlePass.batch = {}
    BY DEF IdlePass
  <2> QED BY <1>1, <1>2, <2>1, PassMoved DEF TypeOK, PassMoves
<1>3. CASE pass' = [pass EXCEPT ![p].todo = @ \ {First(pass[p].todo)}]
  <2> DEFINE todo == pass[p].todo \ {First(pass[p].todo)}
             next == [pass[p] EXCEPT !.todo = todo]
  <2>1. next.pc = "warn" /\ next.batch = {}
    <3> HIDE DEF todo
    <3> QED BY <1>1 DEF PassRec, Warn
  <2>2. pass' = [pass EXCEPT ![p] = next]
    BY <1>1, <1>3 DEF TypeOK, PassType, PassRec
  <2> HIDE DEF next
  <2> QED BY <1>1, <2>1, <2>2, PassMoved DEF TypeOK, PassMoves
<1> QED BY <1>2, <1>3 DEF Warn

(* The arguments of the next fetch, and what the pass carries along.       *)
LEMMA FetchMoves ==
    ASSUME TypeOK, NEW p \in Passes, NEW rec, NextFetch(p, rec)
    PROVE  /\ PassMoves(p, {"reading", "confirm", "deliver"}, rec.batch)
           /\ pass'[p].pc = "reading" => pass'[p].todo \cup {pass'[p].at} \subseteq rec.todo
           /\ (disk' = mem' \/ UNCHANGED disk)
BY DEF NextFetch, TypeOK, PassType, PassMoves

LEMMA BeginMoves ==
    ASSUME TypeOK, NEW p \in Passes, BeginPass(p)
    PROVE  /\ PassMoves(p, {"reading", "confirm", "deliver"}, {})
           /\ pass'[p].pc = "reading" =>
                \A s \in pass'[p].todo \cup {pass'[p].at} : s \in Sessions /\ mem[s].live
           /\ UNCHANGED mem /\ (disk' = mem' \/ UNCHANGED disk)
<1>1. PICK watched \in Watched : NextFetch(p, [IdlePass EXCEPT !.todo = watched])
  BY DEF BeginPass
<1>2. \A s \in watched : s \in Sessions /\ mem[s].live
  BY DEF Watched, Active, Open
<1> DEFINE rec == [IdlePass EXCEPT !.todo = watched]
<1>3. rec.batch = {} /\ rec.todo = watched
  BY DEF IdlePass
<1> HIDE DEF rec
<1>4. NextFetch(p, rec)
  BY <1>1 DEF rec
<1> QED BY <1>2, <1>3, <1>4, FetchMoves DEF BeginPass

-----------------------------------------------------------------------------
(* What the lists hold is in the store *)

RefsInv == ListsGood /\ LiveRefs /\ Rest /\ ReadyIdle

ReadyStays == \A w \in Waits : call'[w] = "ready" => call[w] = "ready"

LEMMA PassLiveStays ==
    ASSUME TypeOK, LiveKept, NEW p \in Passes, PassLive(p), pass'[p] = pass[p]
    PROVE  PassLive(p)'
<1>1. /\ pass[p] \in PassRec
      /\ pass[p].pc = "reading" => pass[p].todo \cup {pass[p].at} \subseteq Sessions
  BY DEF TypeOK, PassType, PassRec, WaitKeys
<1>2. \A x \in pass[p].batch : x[1] \in Sessions
  BY <1>1 DEF PassRec
<1> QED BY <1>1, <1>2 DEF PassLive, LiveKept

LEMMA RefsKept ==
    ASSUME TypeOK, LiveRefs, LiveKept,
           \A p \in Passes : pass'[p] = pass[p] \/ PassLive(p)',
           \A x \in returning' : x \in returning \/ mem'[x[1]].live,
           \A h \in handing' : h \in handing \/ mem'[h[2]].live
    PROVE  LiveRefs'
<1>1. ASSUME NEW p \in Passes PROVE PassLive(p)'
  BY <1>1, PassLiveStays DEF LiveRefs
<1>2. ASSUME NEW x \in returning' PROVE mem'[x[1]].live
  <2>1. CASE x \in returning
    <3>1. x[1] \in Sessions /\ mem[x[1]].live
      BY <2>1 DEF TypeOK, CallersType, LiveRefs
    <3> QED BY <3>1 DEF LiveKept
  <2> QED BY <2>1
<1>3. ASSUME NEW h \in handing' PROVE mem'[h[2]].live
  <2>1. CASE h \in handing
    <3>1. h[2] \in Sessions /\ mem[h[2]].live
      BY <2>1 DEF TypeOK, DeliveryType, LiveRefs
    <3> QED BY <3>1 DEF LiveKept
  <2> QED BY <2>1
<1> QED BY <1>1, <1>2, <1>3 DEF LiveRefs

(* A step that moves no pass and brings nothing on its way.                *)
LEMMA RefsStill ==
    ASSUME TypeOK, RefsInv, ListsGood', LiveKept, ReadyStays, UNCHANGED pass,
           returning' \subseteq returning, handing' \subseteq handing
    PROVE  RefsInv'
<1>1. LiveRefs'
  BY RefsKept DEF RefsInv
<1>2. Rest' /\ ReadyIdle'
  BY DEF RefsInv, Rest, ReadyIdle, ReadyStays
<1> QED BY <1>1, <1>2 DEF RefsInv

(* One pass moves.                                                         *)
LEMMA RefsMoved ==
    ASSUME TypeOK, RefsInv, ListsGood', LiveKept, ReadyStays, NEW p \in Passes,
           NEW places, NEW batch, PassMoves(p, places, batch), PassLive(p)',
           {"idle", "warn"} \cap places = {} \/ batch = {},
           p \notin Waits \/ call'[p] # "ready",
           \A x \in returning' : x \in returning \/ mem'[x[1]].live,
           \A h \in handing' : h \in handing \/ mem'[h[2]].live
    PROVE  RefsInv'
<1>1. LiveRefs'
  BY RefsKept DEF RefsInv, PassMoves
<1>2. Rest'
  BY DEF RefsInv, Rest, PassMoves
<1>3. ReadyIdle'
  <2> SUFFICES ASSUME NEW w \in Waits, call'[w] = "ready" PROVE pass'[w].pc = "idle"
    BY DEF ReadyIdle
  <2>1. w \in Passes /\ w # p
    BY DEF Passes
  <2>2. call[w] = "ready" /\ pass'[w] = pass[w]
    BY <2>1 DEF ReadyStays, PassMoves
  <2> QED BY <2>2 DEF RefsInv, ReadyIdle
<1> QED BY <1>1, <1>2, <1>3 DEF RefsInv

(* A pass that is not idle is not that of a call yet to be made.           *)
LEMMA RunningPass ==
    ASSUME RefsInv, ReadyStays, NEW p \in Passes, pass[p].pc # "idle"
    PROVE  p \notin Waits \/ call'[p] # "ready"
BY DEF RefsInv, ReadyIdle, ReadyStays

(* Dispatching keeps the lists good and sends only what it was given.      *)
LEMMA GoodDispatch ==
    ASSUME TypeOK, ListsGood, NEW by, NEW s \in Sessions, NEW r, NEW back, mem[s].live,
           Dispatch(by, s, r, back), UNCHANGED disposed
    PROVE  /\ ListsGood' /\ LiveKept /\ ReadyStays
           /\ returning' \subseteq back \cup {<<s, r>>}
           /\ handing' \subseteq handing \cup {<<by, s, r>>}
<1>1. ASSUME NEW w \in IF waiters[s] # {} THEN waiters[s] ELSE waiters[AnySession],
             Resolve(w, s, r, back), UNCHANGED <<lists, delivery, dropped>>
      PROVE  /\ ListsGood' /\ LiveKept /\ ReadyStays
             /\ returning' \subseteq back \cup {<<s, r>>}
             /\ handing' \subseteq handing \cup {<<by, s, r>>}
  <2>1. ListsGood' /\ LiveKept
    BY <1>1, GoodSame, SameItself DEF lists
  <2>2. ReadyStays
    BY <1>1 DEF Resolve, ReadyStays, TypeOK, CallersType
  <2> QED BY <1>1, <2>1, <2>2 DEF Resolve, delivery
<1>2. CASE /\ HandOver(by, s, r) /\ returning' = back
           /\ UNCHANGED <<waiters, call, returned>>
  <2>1. ListsGood' /\ LiveKept
    BY <1>2, GoodSame, SameItself, GoodRelease DEF HandOver, lists, TypeOK
  <2>2. handing' \subseteq handing \cup {<<by, s, r>>}
    BY <1>2 DEF HandOver, delivery
  <2> QED BY <1>2, <2>1, <2>2 DEF ReadyStays
<1>3. CASE /\ Hold(s, r) /\ returning' = back
           /\ UNCHANGED <<waiters, call, delivery, returned>>
  <2>1. ListsGood' /\ LiveKept
    BY <1>3, GoodHold DEF TypeOK
  <2> QED BY <1>3, <2>1 DEF ReadyStays, delivery
<1> QED BY <1>1, <1>2, <1>3 DEF Dispatch

-----------------------------------------------------------------------------
(* Steps that leave the lists alone                                        *)

(* The lists stay as they are, in the process and, unless they are written *)
(* there, in the store.                                                    *)
Quiet == Same(mem, mem') /\ (Same(disk, disk') \/ disk' = mem') /\ UNCHANGED disposed

LEMMA QuietUnchanged ==
    ASSUME UNCHANGED <<mem, disposed>>, UNCHANGED disk \/ disk' = mem'
    PROVE  Quiet
BY SameItself DEF Quiet

LEMMA QuietRevived ==
    ASSUME TypeOK, NEW s \in Sessions, mem' = Revived(s), disk' = mem', UNCHANGED disposed
    PROVE  Quiet
<1> DEFINE mark == IF mem[s].expired THEN Advance(mem[s].mark, Now) ELSE mem[s].mark
           a == [mem EXCEPT ![s].quiet = FALSE]
           b == [a EXCEPT ![s].expired = FALSE]
           c == [b EXCEPT ![s].mark = mark]
<1>1. mark \in Replies \cup {Never, 0}
  <2>1. Now \in Replies \cup {Never, 0} /\ mem[s].mark \in Replies \cup {Never, 0}
    BY Positions DEF TypeOK, ListsType, SessionRec, Replies
  <2> HIDE DEF Now
  <2> QED BY <2>1, AdvanceType
<1>2. mem' = c
  BY DEF Revived, TypeOK, ListsType, SessionRec
<1> HIDE DEF mark
<1>3. a \in [Sessions -> SessionRec] /\ Same(mem, a)
  <2>1. mem \in [Sessions -> SessionRec]
    BY DEF TypeOK, ListsType
  <2> QED BY <2>1, FieldType, FieldSame
<1> HIDE DEF a
<1>4. b \in [Sessions -> SessionRec] /\ Same(a, b)
  BY <1>3, FieldType, FieldSame
<1> HIDE DEF b
<1>5. Same(b, c)
  BY <1>1, <1>4, FieldSame
<1> HIDE DEF c
<1>6. Same(mem, c)
  BY <1>3, <1>4, <1>5, SameThen
<1> QED BY <1>2, <1>6 DEF Quiet

LEMMA QuietNotifyBegins ==
    ASSUME TypeOK, Blank(mem), NEW n \in Posts, NEW k \in Keys, NotifyBegins(n, k)
    PROVE  Quiet
<1>1. PICK s \in Sessions :
        LET known == IF Created(k, s) THEN NewSession(k) ELSE mem[s]
            thread == IF known.thread = NoThread THEN registry[k] ELSE known.thread IN
        mem' = [mem EXCEPT ![s] = [known EXCEPT !.thread = thread]]
  BY DEF NotifyBegins
<1>2. \A u \in Sessions \ {s} : mem'[u] = mem[u]
  BY <1>1 DEF TypeOK, ListsType
<1> DEFINE known == IF Created(k, s) THEN NewSession(k) ELSE mem[s]
           thread == IF known.thread = NoThread THEN registry[k] ELSE known.thread
           next == [known EXCEPT !.thread = thread]
<1>3. known \in SessionRec
  BY NewSessionType DEF TypeOK, ListsType
<1>4. /\ mem[s].live => known.live
      /\ known.seen = mem[s].seen /\ known.pending = mem[s].pending
  BY DEF Created, NewSession, Blank
<1>5. mem'[s] = next
  <2> HIDE DEF next
  <2> QED BY <1>1 DEF next, TypeOK, ListsType
<1>6. next.live = known.live /\ next.seen = known.seen /\ next.pending = known.pending
  <2> HIDE DEF known, thread
  <2> QED BY <1>3 DEF SessionRec
<1> HIDE DEF next, known
<1>7. Same(mem, mem')
  BY <1>2, <1>4, <1>5, <1>6 DEF Same
<1> QED BY <1>7, SameItself DEF Quiet, NotifyBegins, flags

LEMMA QuietNotifyEnds ==
    ASSUME TypeOK, NEW n \in Posts, NotifyEnds(n)
    PROVE  Quiet
<1> DEFINE s == post[n].s
           mark == IF mem[s].mark = Never THEN Now ELSE mem[s].mark
<1>1. PICK t \in Threads :
        mem' = [mem EXCEPT
          ![s].thread = t, ![s].closed = FALSE, ![s].expired = FALSE,
          ![s].quiet = FALSE, ![s].mark = IF @ = Never THEN Now ELSE @]
  BY DEF NotifyEnds
<1>2. disk' = mem' /\ UNCHANGED disposed
  BY DEF NotifyEnds, Persist, flags
<1>3. CASE s \notin Sessions
  <2>1. mem' = mem
    BY <1>1, <1>3 DEF TypeOK, ListsType
  <2> QED BY <1>2, <2>1, QuietUnchanged
<1>4. CASE s \in Sessions
  <2> DEFINE a == [mem EXCEPT ![s].thread = t]
             b == [a EXCEPT ![s].closed = FALSE]
             c == [b EXCEPT ![s].expired = FALSE]
             d == [c EXCEPT ![s].quiet = FALSE]
             e == [d EXCEPT ![s].mark = mark]
  <2>1. mark \in Replies \cup {Never, 0}
    BY <1>4, Positions DEF TypeOK, ListsType, SessionRec, Replies
  <2>2. mem' = e
    BY <1>1, <1>4 DEF TypeOK, ListsType, SessionRec
  <2> HIDE DEF mark, s
  <2>3. a \in [Sessions -> SessionRec] /\ Same(mem, a)
    <3>1. mem \in [Sessions -> SessionRec]
      BY DEF TypeOK, ListsType
    <3> QED BY <1>4, <3>1, FieldType, FieldSame
  <2> HIDE DEF a
  <2>4. b \in [Sessions -> SessionRec] /\ Same(a, b)
    BY <1>4, <2>3, FieldType, FieldSame
  <2> HIDE DEF b
  <2>5. c \in [Sessions -> SessionRec] /\ Same(b, c)
    BY <1>4, <2>4, FieldType, FieldSame
  <2> HIDE DEF c
  <2>6. d \in [Sessions -> SessionRec] /\ Same(c, d)
    BY <1>4, <2>5, FieldType, FieldSame
  <2> HIDE DEF d
  <2>7. Same(d, e)
    BY <1>4, <2>1, <2>6, FieldSame
  <2> HIDE DEF e
  <2>8. Same(mem, c)
    BY <2>3, <2>4, <2>5, SameThen
  <2>9. Same(mem, e)
    BY <2>6, <2>7, <2>8, SameThen
  <2> QED BY <1>2, <2>2, <2>9 DEF Quiet
<1> QED BY <1>3, <1>4

LEMMA QuietTurnEnds ==
    ASSUME TypeOK, NEW n \in Posts, TurnEnds(n)
    PROVE  Quiet
<1> DEFINE s == post[n].s
           a == [mem EXCEPT ![s].quiet = FALSE]
           b == [a EXCEPT ![s].expired = FALSE]
<1>1. /\ mem' = [mem EXCEPT ![s].quiet = FALSE, ![s].expired = FALSE]
      /\ disk' = mem' /\ UNCHANGED disposed
  BY DEF TurnEnds, Persist, flags
<1>2. CASE s \notin Sessions
  <2>1. mem' = mem
    BY <1>1, <1>2 DEF TypeOK, ListsType
  <2> QED BY <1>1, <2>1, QuietUnchanged
<1>3. CASE s \in Sessions
  <2>1. mem' = b
    BY <1>1, <1>3 DEF TypeOK, ListsType, SessionRec
  <2> HIDE DEF s
  <2>2. a \in [Sessions -> SessionRec] /\ Same(mem, a)
    <3>1. mem \in [Sessions -> SessionRec]
      BY DEF TypeOK, ListsType
    <3> QED BY <1>3, <3>1, FieldType, FieldSame
  <2> HIDE DEF a
  <2>3. Same(a, b)
    BY <1>3, <2>2, FieldSame
  <2> HIDE DEF b
  <2>4. Same(mem, b)
    BY <2>2, <2>3, SameThen
  <2> QED BY <1>1, <2>1, <2>4 DEF Quiet
<1> QED BY <1>2, <1>3

LEMMA QuietIdleElapses ==
    ASSUME TypeOK, NEW s \in Sessions, IdleElapses(s)
    PROVE  Quiet
<1> DEFINE b == disk[s].live
<1>1. b \in BOOLEAN /\ mem \in [Sessions -> SessionRec] /\ disk \in [Sessions -> SessionRec]
  BY DEF TypeOK, ListsType, SessionRec
<1>2. Same(mem, mem')
  BY <1>1, FieldSame DEF IdleElapses
<1>3. disk' = [disk EXCEPT ![s].quiet = b]
  BY DEF IdleElapses
<1> HIDE DEF b
<1>4. Same(disk, disk')
  BY <1>1, <1>3, FieldSame
<1> QED BY <1>2, <1>4 DEF Quiet, IdleElapses, flags

LEMMA QuietExpire ==
    ASSUME TypeOK, NEW p \in Passes, Expire(p)
    PROVE  Quiet
<1>1. Same(mem, mem')
  BY DEF Expire, Same, TypeOK, ListsType, SessionRec
<1> QED BY <1>1, SameItself DEF Quiet, Expire, flags

(* One flag of one session changes, and is written.                        *)
LEMMA QuietFlag ==
    ASSUME TypeOK, NEW s \in Sessions, CloseSession(s) \/ RenameSession(s)
    PROVE  Quiet
<1>1. mem \in [Sessions -> SessionRec]
  BY DEF TypeOK, ListsType
<1>2. Same(mem, mem')
  BY <1>1, FieldSame DEF CloseSession, RenameSession
<1> QED BY <1>2 DEF Quiet, CloseSession, RenameSession, Persist, flags

-----------------------------------------------------------------------------
(* Steps that do not                                                       *)

Said(p, upto) == {r \in Fresh(p, upto) : log[r].kind # "empty"}

(* What a fetch leaves: the fresh replies are seen, and those with content *)
(* are in the batch of the pass.                                           *)
LEMMA FetchIs ==
    ASSUME TypeOK, NEW p \in Passes, NEW upto \in pass[p].asked..Now, FetchReads(p, upto)
    PROVE  LET s == pass[p].at IN
           /\ s \in Sessions /\ Fresh(p, upto) \subseteq 1..Now
           /\ \A u \in Sessions : mem'[u].live = mem[u].live /\ mem'[u].pending = mem[u].pending
           /\ \A u \in Sessions \ {s} : mem'[u].seen = mem[u].seen
           /\ mem'[s].seen = mem[s].seen \cup Fresh(p, upto)
           /\ PassMoves(p, {"reading", "confirm", "deliver"},
                        pass[p].batch \cup {<<s, r>> : r \in Said(p, upto)})
           /\ pass'[p].pc = "reading" =>
                pass'[p].todo \cup {pass'[p].at} \subseteq pass[p].todo
           /\ (disk' = mem' \/ UNCHANGED disk)
<1> DEFINE s == pass[p].at
           fresh == Fresh(p, upto)
           said == {r \in fresh : log[r].kind # "empty"}
           mark == IF fresh = {} THEN mem[s].mark ELSE Advance(mem[s].mark, Latest(fresh))
           quiet == mem[s].quiet /\ said = {}
           expired == mem[s].expired /\ said = {}
           closed == mem[s].closed \/ \E r \in said : log[r].kind = "close"
           seen == mem[s].seen \cup fresh
           batch == pass[p].batch \cup {<<s, r>> : r \in said}
           revived == IF mem[s].expired /\ said # {} THEN pass[p].revived \cup {s}
                      ELSE pass[p].revived
<1>1. s \in Sessions /\ pass[p] \in PassRec /\ mem[s] \in SessionRec
  BY DEF TypeOK, PassType, PassRec, FetchReads, WaitKeys, ListsType
<1>2. /\ fresh \in SUBSET Replies /\ fresh \in SUBSET (0..Now) /\ fresh \subseteq 1..Now
      /\ Now \in Nat
  <2>1. pass[p].asked \in Nat /\ Now \in Nat
    BY <1>1, Positions, BridgeAssumption DEF PassRec, Replies, TypeOK
  <2>2. 1..upto \subseteq 1..Now /\ 1..Now \subseteq 0..Now
    BY <2>1 DEF TypeOK
  <2> QED BY <2>1, <2>2, Positions DEF Fresh, TypeOK
<1>3. mark \in Replies \cup {Never, 0}
  <2>1. mem[s].mark \in Replies \cup {Never, 0}
    BY <1>1 DEF SessionRec
  <2>2. fresh # {} => Latest(fresh) \in fresh
    <3> HIDE DEF fresh
    <3> QED BY <1>2, LatestIn
  <2> HIDE DEF fresh, s
  <2> QED BY <1>2, <2>1, <2>2, AdvanceType
<1> DEFINE a == [mem EXCEPT ![s].seen = seen]
           b == [a EXCEPT ![s].mark = mark]
           c == [b EXCEPT ![s].quiet = quiet]
           d == [c EXCEPT ![s].expired = expired]
           e == [d EXCEPT ![s].closed = closed]
<1>4. mem' = e
  BY <1>1 DEF FetchReads, TypeOK, ListsType, SessionRec
<1>5. /\ seen \in SUBSET Replies /\ quiet \in BOOLEAN /\ expired \in BOOLEAN
      /\ closed \in BOOLEAN
  BY <1>1, <1>2 DEF SessionRec
<1>6. /\ \A u \in Sessions : e[u].live = mem[u].live /\ e[u].pending = mem[u].pending
      /\ \A u \in Sessions \ {s} : e[u].seen = mem[u].seen
      /\ e[s].seen = seen
  <2> HIDE DEF s, seen, mark, quiet, expired, closed
  <2>1. /\ a \in [Sessions -> SessionRec]
        /\ \A u \in Sessions : a[u].live = mem[u].live /\ a[u].pending = mem[u].pending
        /\ \A u \in Sessions \ {s} : a[u].seen = mem[u].seen
        /\ a[s].seen = seen
    <3>1. a \in [Sessions -> SessionRec]
      BY <1>1, <1>5, FieldType DEF TypeOK, ListsType
    <3> QED BY <1>1, <3>1 DEF TypeOK, ListsType, SessionRec
  <2> HIDE DEF a
  <2>2. b \in [Sessions -> SessionRec] /\ \A u \in Sessions :
          b[u].live = a[u].live /\ b[u].pending = a[u].pending /\ b[u].seen = a[u].seen
    <3>1. b \in [Sessions -> SessionRec]
      BY <1>1, <1>3, <2>1, FieldType
    <3> QED BY <1>1, <2>1, <3>1 DEF SessionRec
  <2> HIDE DEF b
  <2>3. c \in [Sessions -> SessionRec] /\ \A u \in Sessions :
          c[u].live = b[u].live /\ c[u].pending = b[u].pending /\ c[u].seen = b[u].seen
    <3>1. c \in [Sessions -> SessionRec]
      BY <1>1, <1>5, <2>2, FieldType
    <3> QED BY <1>1, <2>2, <3>1 DEF SessionRec
  <2> HIDE DEF c
  <2>4. d \in [Sessions -> SessionRec] /\ \A u \in Sessions :
          d[u].live = c[u].live /\ d[u].pending = c[u].pending /\ d[u].seen = c[u].seen
    <3>1. d \in [Sessions -> SessionRec]
      BY <1>1, <1>5, <2>3, FieldType
    <3> QED BY <1>1, <2>3, <3>1 DEF SessionRec
  <2> HIDE DEF d
  <2>5. \A u \in Sessions :
          e[u].live = d[u].live /\ e[u].pending = d[u].pending /\ e[u].seen = d[u].seen
    BY <1>1, <2>4 DEF SessionRec
  <2> HIDE DEF e
  <2> QED BY <1>1, <2>1, <2>2, <2>3, <2>4, <2>5
<1> DEFINE rec == [pass[p] EXCEPT !.batch = batch, !.revived = revived]
<1>7. NextFetch(p, rec)
  BY DEF FetchReads
<1>8. rec.batch = batch /\ rec.todo = pass[p].todo
  <2> HIDE DEF batch, revived
  <2> QED BY <1>1 DEF PassRec
<1>9. said = Said(p, upto)
  BY DEF Said
<1> HIDE DEF e, rec, said
<1>10. /\ PassMoves(p, {"reading", "confirm", "deliver"}, batch)
       /\ pass'[p].pc = "reading" => pass'[p].todo \cup {pass'[p].at} \subseteq pass[p].todo
       /\ disk' = mem' \/ UNCHANGED disk
  BY <1>7, <1>8, FetchMoves
<1> QED BY <1>1, <1>2, <1>4, <1>6, <1>9, <1>10

LEMMA RefsFetch ==
    ASSUME TypeOK, RefsInv, NEW p \in Passes, FetchDone(p)
    PROVE  RefsInv'
<1>1. PICK upto \in pass[p].asked..Now : FetchReads(p, upto)
  BY DEF FetchDone
<1> DEFINE s == pass[p].at
           batch == pass[p].batch \cup {<<s, r>> : r \in Said(p, upto)}
<1>2. /\ s \in Sessions
      /\ \A u \in Sessions : mem'[u].live = mem[u].live /\ mem'[u].pending = mem[u].pending
      /\ \A u \in Sessions \ {s} : mem'[u].seen = mem[u].seen
      /\ mem[s].seen \subseteq mem'[s].seen
      /\ PassMoves(p, {"reading", "confirm", "deliver"}, batch)
      /\ pass'[p].pc = "reading" => pass'[p].todo \cup {pass'[p].at} \subseteq pass[p].todo
      /\ disk' = mem' \/ UNCHANGED disk
  BY <1>1, FetchIs
<1>3. /\ UNCHANGED <<call, returning, handing, disposed>> /\ pass[p].pc = "reading"
      /\ pass[p].todo \subseteq Sessions
  BY <1>1 DEF FetchReads, callers, delivery, flags, TypeOK, PassType, PassRec
<1>4. mem[s].live /\ (\A u \in pass[p].todo : mem[u].live) /\ \A x \in pass[p].batch : mem[x[1]].live
  BY <1>3 DEF RefsInv, LiveRefs, PassLive
<1>5. \A x \in pass[p].batch : x[1] \in Sessions
  BY DEF TypeOK, PassType, PassRec
<1> HIDE DEF s
<1>6. Blank(mem') /\ LiveKept
  BY <1>2, <1>4 DEF RefsInv, ListsGood, Blank, LiveKept
<1>7. ListsGood'
  <2>1. CASE disk' = mem'
    BY <1>6, <2>1, GoodPersist
  <2>2. CASE UNCHANGED disk
    <3>1. HeldOnDisk' /\ StoreBehind' /\ Blank(disk)'
      BY <1>2, <1>3, <2>2 DEF RefsInv, ListsGood, HeldOnDisk, StoreBehind, Blank
    <3> QED BY <1>6, <3>1 DEF ListsGood
  <2> QED BY <1>2, <2>1, <2>2
<1>8. PassLive(p)'
  <2>1. \A x \in batch : x[1] \in Sessions /\ mem[x[1]].live
    BY <1>2, <1>4, <1>5
  <2>2. \A x \in batch : mem'[x[1]].live
    BY <1>2, <2>1
  <2>3. pass'[p].pc = "reading" => \A u \in pass'[p].todo \cup {pass'[p].at} : mem'[u].live
    BY <1>2, <1>3, <1>4
  <2> HIDE DEF batch
  <2> QED BY <1>2, <2>2, <2>3 DEF PassLive, PassMoves
<1>9. ReadyStays /\ (p \notin Waits \/ call'[p] # "ready")
  BY <1>3, RunningPass DEF ReadyStays
<1> HIDE DEF batch
<1> QED BY <1>2, <1>3, <1>6, <1>7, <1>8, <1>9, RefsMoved

LEMMA QuietGood ==
    ASSUME RefsInv, Quiet
    PROVE  ListsGood' /\ LiveKept
BY GoodSame DEF RefsInv, Quiet

LEMMA RefsContinues ==
    ASSUME TypeOK, RefsInv, NEW p \in Passes, Continues(p)
    PROVE  RefsInv'
<1>1. pass[p].pc \notin {"idle", "reading"}
  BY DEF Continues, Confirm, Deliver, Redeliver, Expire, Warn
<1>2. \A x \in pass[p].batch : mem[x[1]].live /\ x[1] \in Sessions /\ x[2] \in Replies
  BY DEF RefsInv, LiveRefs, PassLive, TypeOK, PassType, PassRec
<1>3. ASSUME Confirm(p) \/ Expire(p) \/ Warn(p) PROVE RefsInv'
  <2>1. Quiet
    BY <1>3, QuietExpire, QuietUnchanged DEF Confirm, Warn, lists, flags
  <2>2. ListsGood' /\ LiveKept
    BY <2>1, QuietGood
  <2>3. UNCHANGED <<call, returning, handing>>
    BY <1>3 DEF Confirm, Expire, Warn, callers, delivery
  <2>4. ReadyStays /\ (p \notin Waits \/ call'[p] # "ready")
    BY <1>1, <2>3, RunningPass DEF ReadyStays
  <2>5. \/ PassMoves(p, {"confirm", "deliver"}, pass[p].batch)
        \/ PassMoves(p, {"idle", "warn"}, {})
    BY <1>3, ConfirmMoves, ExpireMoves, WarnMoves DEF RefsInv
  <2>6. PassLive(p)'
    BY <1>2, <2>2, <2>5 DEF PassLive, PassMoves, LiveKept
  <2>7. CASE PassMoves(p, {"confirm", "deliver"}, pass[p].batch)
    BY <2>2, <2>3, <2>4, <2>6, <2>7, RefsMoved
  <2>8. CASE PassMoves(p, {"idle", "warn"}, {})
    BY <2>2, <2>3, <2>4, <2>6, <2>8, RefsMoved
  <2> QED BY <2>5, <2>7, <2>8
<1>4. ASSUME NEW s \in Sessions, NEW r, mem[s].live, Dispatch(p, s, r, returning),
             UNCHANGED disposed, NEW batch, PassMoves(p, {"deliver", "redeliver"}, batch),
             \A x \in batch : x[1] \in Sessions /\ mem[x[1]].live
      PROVE  RefsInv'
  <2>1. /\ ListsGood' /\ LiveKept /\ ReadyStays
        /\ returning' \subseteq returning \cup {<<s, r>>}
        /\ handing' \subseteq handing \cup {<<p, s, r>>}
    BY <1>4, GoodDispatch DEF RefsInv
  <2>2. mem'[s].live /\ \A x \in batch : mem'[x[1]].live
    BY <1>4, <2>1 DEF LiveKept
  <2>3. PassLive(p)'
    BY <1>4, <2>2 DEF PassLive, PassMoves
  <2>4. p \notin Waits \/ call'[p] # "ready"
    BY <1>1, <2>1, RunningPass
  <2>5. /\ \A x \in returning' : x \in returning \/ mem'[x[1]].live
        /\ \A h \in handing' : h \in handing \/ mem'[h[2]].live
    BY <2>1, <2>2
  <2> QED BY <1>4, <2>1, <2>3, <2>4, <2>5, RefsMoved
<1>5. CASE Deliver(p)
  <2>1. PICK x \in pass[p].batch :
          /\ Dispatch(p, x[1], x[2], returning)
          /\ PassMoves(p, {"deliver", "redeliver"}, pass[p].batch \ {x})
    BY <1>5, DeliverMoves
  <2>2. UNCHANGED disposed
    BY <1>5 DEF Deliver, flags
  <2>3. \A y \in pass[p].batch \ {x} : y[1] \in Sessions /\ mem[y[1]].live
    BY <1>2
  <2> QED BY <1>2, <1>4, <2>1, <2>2, <2>3
<1>6. CASE Redeliver(p)
  <2>1. PICK s \in Sessions : \E r \in mem[s].pending :
          /\ mem[s].live /\ Dispatch(p, s, r, returning)
          /\ PassMoves(p, {"deliver", "redeliver"}, {s} \X (mem[s].pending \ {r}))
    BY <1>6, RedeliverMoves
  <2>2. PICK r \in mem[s].pending :
          /\ mem[s].live /\ Dispatch(p, s, r, returning)
          /\ PassMoves(p, {"deliver", "redeliver"}, {s} \X (mem[s].pending \ {r}))
    BY <2>1
  <2>3. UNCHANGED disposed
    BY <1>6 DEF Redeliver, flags
  <2>4. \A x \in {s} \X (mem[s].pending \ {r}) : x[1] \in Sessions /\ mem[x[1]].live
    BY <2>2
  <2> QED BY <1>4, <2>2, <2>3, <2>4
<1> QED BY <1>3, <1>5, <1>6 DEF Continues

LEMMA RefsBegins ==
    ASSUME TypeOK, RefsInv, NEW p \in Passes, BeginPass(p), ReadyStays,
           p \notin Waits \/ call'[p] # "ready", UNCHANGED <<returning, handing, disposed>>
    PROVE  RefsInv'
<1>1. /\ PassMoves(p, {"reading", "confirm", "deliver"}, {})
      /\ pass'[p].pc = "reading" =>
           \A s \in pass'[p].todo \cup {pass'[p].at} : s \in Sessions /\ mem[s].live
      /\ UNCHANGED mem /\ (disk' = mem' \/ UNCHANGED disk)
  BY BeginMoves
<1>2. ListsGood' /\ LiveKept
  BY <1>1, QuietUnchanged, QuietGood
<1>3. PassLive(p)'
  BY <1>1 DEF PassLive, PassMoves
<1> QED BY <1>1, <1>2, <1>3, RefsMoved

LEMMA RefsFetchFails ==
    ASSUME TypeOK, RefsInv, NEW p \in Passes, FetchFails(p)
    PROVE  RefsInv'
<1>1. /\ PassMoves(p, {"reading", "confirm", "deliver"}, pass[p].batch)
      /\ pass'[p].pc = "reading" => pass'[p].todo \cup {pass'[p].at} \subseteq pass[p].todo
      /\ disk' = mem' \/ UNCHANGED disk
  BY FetchMoves DEF FetchFails
<1>2. /\ UNCHANGED <<mem, call, returning, handing, disposed>> /\ pass[p].pc = "reading"
  BY DEF FetchFails, callers, delivery, flags
<1>3. ListsGood' /\ LiveKept
  BY <1>1, <1>2, QuietUnchanged, QuietGood
<1>4. PassLive(p)'
  BY <1>1, <1>2 DEF RefsInv, LiveRefs, PassLive, PassMoves
<1>5. ReadyStays /\ (p \notin Waits \/ call'[p] # "ready")
  BY <1>2, RunningPass DEF ReadyStays
<1> QED BY <1>1, <1>2, <1>3, <1>4, <1>5, RefsMoved

LEMMA RefsHandOverEnds ==
    ASSUME TypeOK, RefsInv, NEW h \in handing, HandOverEnds(h)
    PROVE  RefsInv'
<1>1. h[2] \in Sessions /\ h[3] \in Replies /\ mem[h[2]].live
  BY DEF TypeOK, DeliveryType, RefsInv, LiveRefs
<1>2. UNCHANGED <<pass, call, returning, disposed>> /\ handing' \subseteq handing
  BY DEF HandOverEnds, callers, flags
<1>3. \/ mem' = Without(h[2], h[3]) /\ (disk' = mem' \/ (mem' = mem /\ UNCHANGED disk))
      \/ Release(h[2], h[3]) \/ Hold(h[2], h[3])
      \/ mem' = mem /\ (disk' = mem' \/ UNCHANGED disk)
  BY DEF HandOverEnds, Noticed, Persist, lists
<1>4. ListsGood' /\ LiveKept
  BY <1>1, <1>2, <1>3, GoodWithout, GoodRelease, GoodHold, QuietUnchanged, QuietGood
     DEF RefsInv, TypeOK
<1> QED BY <1>2, <1>4, RefsStill DEF ReadyStays

LEMMA RefsReturn ==
    ASSUME TypeOK, RefsInv, ReturnUndelivered
    PROVE  RefsInv'
<1>1. PICK x \in returning : Dispatch(NoOwner, x[1], x[2], returning \ {x})
  BY DEF ReturnUndelivered
<1>2. x[1] \in Sessions /\ mem[x[1]].live /\ UNCHANGED <<pass, disposed>>
  BY DEF TypeOK, CallersType, RefsInv, LiveRefs, ReturnUndelivered, flags
<1> DEFINE s == x[1]
           r == x[2]
<1>3. /\ ListsGood' /\ LiveKept /\ ReadyStays
      /\ returning' \subseteq (returning \ {x}) \cup {<<s, r>>}
      /\ handing' \subseteq handing \cup {<<NoOwner, s, r>>}
  BY <1>1, <1>2, GoodDispatch DEF RefsInv
<1>4. mem'[s].live
  BY <1>2, <1>3 DEF LiveKept
<1>5. /\ \A y \in returning' : y \in returning \/ mem'[y[1]].live
      /\ \A h \in handing' : h \in handing \/ mem'[h[2]].live
  BY <1>3, <1>4
<1>6. LiveRefs'
  BY <1>2, <1>3, <1>5, RefsKept DEF RefsInv
<1>7. Rest' /\ ReadyIdle'
  BY <1>2, <1>3 DEF RefsInv, Rest, ReadyIdle, ReadyStays
<1> QED BY <1>3, <1>6, <1>7 DEF RefsInv

(* What takeUndelivered leaves. *)
LEMMA TakeIs ==
    ASSUME TypeOK, NEW key \in WaitKeys, Take(key)
    PROVE  \A s \in Sessions :
             /\ mem'[s].live = mem[s].live /\ mem'[s].seen = mem[s].seen
             /\ mem'[s].pending = {r \in mem[s].pending : <<s, r>> \notin PendingOf(key)}
<1> TAKE s \in Sessions
<1> DEFINE left == {r \in mem[s].pending : <<s, r>> \notin PendingOf(key)}
<1>1. mem[s] \in SessionRec
  BY DEF TypeOK, ListsType
<1>2. mem'[s] = [mem[s] EXCEPT !.pending = left]
  BY DEF Take
<1> HIDE DEF left
<1>3. mem'[s].live = mem[s].live /\ mem'[s].seen = mem[s].seen /\ mem'[s].pending = left
  BY <1>1, <1>2 DEF SessionRec
<1> QED BY <1>3 DEF left

LEMMA RefsTake ==
    ASSUME TypeOK, RefsInv, NEW key \in WaitKeys, Take(key)
    PROVE  RefsInv'
<1>1. Blank(mem') /\ LiveKept
  BY TakeIs DEF RefsInv, ListsGood, Blank, LiveKept
<1>2. ListsGood'
  BY <1>1, GoodPersist DEF Take, Persist
<1>3. UNCHANGED <<pass, call, returning, handing>>
  BY DEF Take, callers, delivery
<1> QED BY <1>1, <1>2, <1>3, RefsStill DEF ReadyStays

LEMMA RefsWait ==
    ASSUME TypeOK, RefsInv, NEW w \in Waits, NEW key \in WaitKeys, Wait(w, key)
    PROVE  RefsInv'
<1>1. UNCHANGED <<returning, handing, disposed>>
  BY DEF Wait, delivery
<1>2. ReadyStays /\ call'[w] # "ready"
  BY DEF Wait, ReadyStays, TypeOK, CallersType
<1>3. CASE \E x \in PendingOf(key) : mem' = Without(x[1], x[2]) /\ Persist /\ UNCHANGED pass
  <2>1. PICK x \in PendingOf(key) : mem' = Without(x[1], x[2]) /\ Persist /\ UNCHANGED pass
    BY <1>3
  <2>2. x[1] \in Sessions
    BY DEF PendingOf
  <2>3. ListsGood' /\ LiveKept
    BY <1>1, <2>1, <2>2, GoodWithout DEF Persist, RefsInv, TypeOK
  <2> QED BY <1>1, <1>2, <2>1, <2>3, RefsStill
<1>4. CASE BeginPass(w)
  BY <1>1, <1>2, <1>4, RefsBegins DEF Passes
<1>5. CASE UNCHANGED <<lists, pass>>
  <2>1. ListsGood' /\ LiveKept
    BY <1>1, <1>5, QuietUnchanged, QuietGood DEF lists
  <2> QED BY <1>1, <1>2, <1>5, <2>1, RefsStill
<1> QED BY <1>3, <1>4, <1>5 DEF Wait

LEMMA RefsReset ==
    ASSUME TypeOK, RefsInv, Reset
    PROVE  RefsInv'
<1>1. UNCHANGED <<mem, pass, returning, handing>> /\ disposed' = TRUE
  BY DEF Reset
<1>2. ListsGood' /\ LiveKept
  <2> DEFINE k == CHOOSE k \in Keys : TRUE
  <2>1. NewSession(k).seen = {} /\ NewSession(k).pending = {}
    BY DEF NewSession
  <2>2. NoSession.seen = {} /\ NoSession.pending = {}
    BY <2>1 DEF NoSession, NewSession
  <2>3. Blank(disk')
    BY <2>2 DEF Reset, Blank
  <2> QED BY <1>1, <2>3 DEF RefsInv, ListsGood, Blank, HeldOnDisk, StoreBehind, LiveKept
<1>3. ReadyStays
  BY DEF Reset, ReadyStays
<1> QED BY <1>1, <1>2, <1>3, RefsStill

(* What a reload makes of the lists. *)
LEMMA ReloadIs ==
    ASSUME TypeOK, Reload
    PROVE  /\ disk' = mem' /\ ~disposed
           /\ \A s \in Sessions : /\ mem'[s].live = disk[s].live /\ mem'[s].seen = disk[s].seen
                                  /\ mem'[s].pending = IF HasHandler THEN {} ELSE disk[s].pending
<1>1. \A s \in Sessions : disk[s] \in SessionRec
  BY DEF TypeOK, ListsType
<1>2. CASE HasHandler
  BY <1>1, <1>2 DEF Reload, Persist, SessionRec
<1>3. CASE ~HasHandler
  BY <1>3 DEF Reload, Persist
<1> QED BY <1>2, <1>3

LEMMA RefsReload ==
    ASSUME TypeOK, RefsInv, Reload
    PROVE  RefsInv'
<1> DEFINE backlog == {x \in Sessions \X Replies : x[2] \in disk[x[1]].pending}
           due == {r \in {x[2] : x \in backlog} : log[r].kind # "close" /\ r \notin claims}
           of(r) == {s \in Sessions : <<s, r>> \in backlog}
<1>1. ListsGood'
  <2>1. Blank(mem')
    BY ReloadIs DEF RefsInv, ListsGood, Blank
  <2> QED BY <2>1, ReloadIs, GoodPersist
<1>2. /\ \A p \in Passes : pass'[p] = IdlePass
      /\ returning' = {} /\ \A w \in Waits : call'[w] = "ready" => call[w] = "ready"
  BY DEF Reload
<1>3. ASSUME NEW h \in handing' PROVE mem'[h[2]].live
  <2>1. handing' = {<<NoOwner, First(of(r)), r>> : r \in due} \/ handing' = {}
    BY DEF Reload
  <2>2. PICK r \in due : h = <<NoOwner, First(of(r)), r>>
    <3> HIDE DEF due, of
    <3> QED BY <2>1
  <2>3. of(r) \in SUBSET Sessions /\ of(r) # {}
    <3>1. PICK x \in backlog : r = x[2]
      OBVIOUS
    <3>2. x[1] \in of(r)
      BY <3>1
    <3> QED BY <3>2
  <2>4. First(of(r)) \in of(r)
    <3> HIDE DEF of
    <3> QED BY <2>3, FirstIn, SessionsNat
  <2>5. First(of(r)) \in Sessions /\ disk[First(of(r))].pending # {}
    BY <2>4
  <2> HIDE DEF of
  <2>6. disk[First(of(r))].live
    BY <2>5 DEF RefsInv, ListsGood, Blank
  <2> QED BY <2>2, <2>5, <2>6, ReloadIs
<1>4. IdlePass.pc = "idle" /\ IdlePass.batch = {}
  BY DEF IdlePass
<1>5. LiveRefs' /\ Rest' /\ ReadyIdle'
  <2>1. \A w \in Waits : w \in Passes
    BY DEF Passes
  <2> QED BY <1>2, <1>3, <1>4, <2>1 DEF LiveRefs, PassLive, Rest, ReadyIdle
<1> QED BY <1>1, <1>5 DEF RefsInv

LEMMA QuietSteps ==
    ASSUME TypeOK, Blank(mem),
           \/ \E t \in Threads, kind \in Kinds : UserPosts(t, kind)
           \/ \E s \in Sessions : IdleElapses(s)
           \/ \E x \in notes : NoticePosted(x) \/ NoticeFails(x)
           \/ \E n \in Posts : NotifyEnds(n) \/ TurnEnds(n) \/ PostFails(n)
           \/ \E w \in Waits : TimesOut(w) \/ Abandon(w)
           \/ \E n \in Posts, k \in Keys : NotifyBegins(n, k) \/ TurnBegins(n, k)
           \/ \E s \in Sessions : Extend(s) \/ CloseSession(s) \/ RenameSession(s)
           \/ \E k \in Keys : RecordActivity(k)
           \/ Stop \/ UNCHANGED vars
    PROVE  Quiet /\ ReadyStays /\ UNCHANGED <<pass, returning, handing>>
<1>1. ASSUME NEW t \in Threads, NEW kind \in Kinds, UserPosts(t, kind)
      PROVE  Quiet /\ ReadyStays /\ UNCHANGED <<pass, returning, handing>>
  BY <1>1, QuietUnchanged DEF UserPosts, lists, flags, callers, delivery, ReadyStays
<1>2. ASSUME NEW s \in Sessions, IdleElapses(s)
      PROVE  Quiet /\ ReadyStays /\ UNCHANGED <<pass, returning, handing>>
  BY <1>2, QuietIdleElapses DEF IdleElapses, callers, delivery, ReadyStays
<1>3. ASSUME NEW x \in notes, NoticePosted(x) \/ NoticeFails(x)
      PROVE  Quiet /\ ReadyStays /\ UNCHANGED <<pass, returning, handing>>
  BY <1>3, QuietUnchanged
     DEF NoticePosted, NoticeFails, lists, flags, callers, delivery, ReadyStays
<1>4. ASSUME NEW n \in Posts, NotifyEnds(n) \/ TurnEnds(n)
      PROVE  Quiet /\ ReadyStays /\ UNCHANGED <<pass, returning, handing>>
  BY <1>4, QuietNotifyEnds, QuietTurnEnds
     DEF NotifyEnds, TurnEnds, callers, delivery, ReadyStays
<1>5. ASSUME NEW n \in Posts, PostFails(n)
      PROVE  Quiet /\ ReadyStays /\ UNCHANGED <<pass, returning, handing>>
  BY <1>5, QuietUnchanged DEF PostFails, lists, flags, callers, delivery, ReadyStays
<1>6. ASSUME NEW w \in Waits, TimesOut(w) \/ Abandon(w)
      PROVE  Quiet /\ ReadyStays /\ UNCHANGED <<pass, returning, handing>>
  <2>1. ReadyStays
    BY <1>6 DEF TimesOut, Abandon, ReadyStays, TypeOK, CallersType
  <2> QED BY <1>6, <2>1, QuietUnchanged DEF TimesOut, Abandon, lists, flags, delivery
<1>7. ASSUME NEW n \in Posts, NEW k \in Keys, NotifyBegins(n, k)
      PROVE  Quiet /\ ReadyStays /\ UNCHANGED <<pass, returning, handing>>
  BY <1>7, QuietNotifyBegins DEF NotifyBegins, callers, delivery, ReadyStays
<1>8. ASSUME NEW n \in Posts, NEW k \in Keys, TurnBegins(n, k)
      PROVE  Quiet /\ ReadyStays /\ UNCHANGED <<pass, returning, handing>>
  BY <1>8, QuietUnchanged DEF TurnBegins, flags, callers, delivery, ReadyStays
<1>9. ASSUME NEW s \in Sessions, CloseSession(s) \/ RenameSession(s)
      PROVE  Quiet /\ ReadyStays /\ UNCHANGED <<pass, returning, handing>>
  BY <1>9, QuietFlag DEF CloseSession, RenameSession, callers, delivery, ReadyStays
<1>10. ASSUME NEW s \in Sessions, Extend(s)
       PROVE  Quiet /\ ReadyStays /\ UNCHANGED <<pass, returning, handing>>
  BY <1>10, QuietRevived DEF Extend, Persist, callers, delivery, ReadyStays
<1>11. ASSUME NEW k \in Keys, RecordActivity(k)
       PROVE  Quiet /\ ReadyStays /\ UNCHANGED <<pass, returning, handing>>
  BY <1>11, QuietRevived DEF RecordActivity, Persist, callers, delivery, ReadyStays
<1>12. ASSUME Stop \/ UNCHANGED vars
       PROVE  Quiet /\ ReadyStays /\ UNCHANGED <<pass, returning, handing>>
  BY <1>12, QuietUnchanged DEF Stop, vars, lists, flags, callers, delivery, ReadyStays
<1> QED BY <1>1, <1>2, <1>3, <1>4, <1>5, <1>6, <1>7, <1>8, <1>9, <1>10, <1>11, <1>12

LEMMA RefsNext ==
    ASSUME TypeOK, RefsInv, [Next]_vars
    PROVE  RefsInv'
<1>1. ASSUME Quiet, ReadyStays, UNCHANGED <<pass, returning, handing>> PROVE RefsInv'
  BY <1>1, QuietGood, RefsStill
<1>2. Blank(mem)
  BY DEF RefsInv, ListsGood
<1>3. CASE TickFires
  <2>1. BeginPass(Tick) /\ Tick \in Passes /\ Tick \notin Waits
    BY <1>3, BridgeAssumption DEF TickFires, Passes
  <2>2. UNCHANGED <<call, returning, handing, disposed>>
    BY <1>3 DEF TickFires, callers, delivery, flags
  <2> QED BY <2>1, <2>2, RefsBegins DEF ReadyStays
<1>4. CASE Answered
  <2>1. CASE \E x \in notes : NoticePosted(x) \/ NoticeFails(x)
    BY <1>1, <1>2, <2>1, QuietSteps
  <2>2. CASE \E n \in Posts : NotifyEnds(n) \/ TurnEnds(n) \/ PostFails(n)
    BY <1>1, <1>2, <2>2, QuietSteps
  <2> QED BY <1>4, <2>1, <2>2, RefsFetch, RefsFetchFails, RefsHandOverEnds DEF Answered
<1>5. CASE Called
  <2>1. CASE \E w \in Waits : TimesOut(w) \/ Abandon(w)
    BY <1>1, <1>2, <2>1, QuietSteps
  <2>2. CASE \E n \in Posts, k \in Keys : NotifyBegins(n, k) \/ TurnBegins(n, k)
    BY <1>1, <1>2, <2>2, QuietSteps
  <2>3. CASE \E s \in Sessions : Extend(s) \/ CloseSession(s) \/ RenameSession(s)
    BY <1>1, <1>2, <2>3, QuietSteps
  <2>4. CASE (\E k \in Keys : RecordActivity(k)) \/ Stop
    BY <1>1, <1>2, <2>4, QuietSteps
  <2> QED BY <1>5, <2>1, <2>2, <2>3, <2>4, RefsWait, RefsTake, RefsReset, RefsReload DEF Called
<1>6. CASE \E t \in Threads, kind \in Kinds : UserPosts(t, kind)
  BY <1>1, <1>2, <1>6, QuietSteps
<1>7. CASE \E s \in Sessions : IdleElapses(s)
  BY <1>1, <1>2, <1>7, QuietSteps
<1>8. CASE UNCHANGED vars
  BY <1>1, <1>2, <1>8, QuietSteps
<1> QED BY <1>3, <1>4, <1>5, <1>6, <1>7, <1>8, RefsContinues, RefsReturn DEF Next

LEMMA RefsInit ==
    ASSUME Init
    PROVE  RefsInv
<1>1. NoSession.seen = {} /\ NoSession.pending = {}
  BY DEF NoSession, NewSession
<1>2. ListsGood
  BY <1>1 DEF Init, ListsGood, Blank, HeldOnDisk, StoreBehind
<1>3. \A p \in Passes : pass[p].pc = "idle" /\ pass[p].batch = {}
  BY DEF Init, IdlePass
<1>4. Waits \subseteq Passes
  BY DEF Passes
<1> QED BY <1>2, <1>3, <1>4 DEF RefsInv, LiveRefs, PassLive, Rest, ReadyIdle, Init

LEMMA RefsAlways == Spec => []RefsInv
<1>1. RefsInv /\ TypeOK /\ [Next]_vars => RefsInv'
  BY RefsNext
<1> QED BY <1>1, RefsInit, TypeCorrect, PTL DEF Spec

(* Whichever step wrote the list of held replies last, in the process and  *)
(* in the store it is the same list: a reload of the window finds every    *)
(* reply that Bridge.hold() kept.                                          *)
THEOREM HeldRepliesAreStored == Spec => []HeldOnDisk
<1>1. RefsInv => HeldOnDisk
  BY DEF RefsInv, ListsGood
<1> QED BY <1>1, RefsAlways, PTL

-----------------------------------------------------------------------------
(* Where a reply is                                                        *)

(* A reply that was read is accounted for, or a reload cut it off.         *)
Kept(r) == r \in cut \cup stranded \/ Accounted(r)

SeenSent == \A s \in Sessions : mem[s].seen \subseteq 1..Now
LostInv == SeenSent /\ NoReplyLost

Underway(r) ==
    \/ \E p \in Passes : \E x \in pass[p].batch : x[2] = r
    \/ \E x \in returning : x[2] = r
    \/ \E h \in handing : h[3] = r

LEMMA InFlightIs ==
    ASSUME NEW r
    PROVE  /\ r \in InFlight <=> Underway(r)
           /\ r \in InFlight' <=> Underway(r)'
<1>1. r \in InFlight <=> Underway(r)
  BY DEF InFlight, Underway
<1>2. r \in InFlight' <=> Underway(r)'
  BY DEF InFlight, Underway
<1> QED BY <1>1, <1>2

LEMMA KeptIs ==
    ASSUME NEW r
    PROVE  /\ Kept(r) <=> \/ r \in cut \/ r \in stranded
                          \/ chat[r] > 0 \/ returned[r] > 0 \/ r \in dropped
                          \/ Underway(r) \/ \E s \in Sessions : r \in mem[s].pending
           /\ Kept(r)' <=> \/ r \in cut' \/ r \in stranded'
                           \/ chat'[r] > 0 \/ returned'[r] > 0 \/ r \in dropped'
                           \/ Underway(r)' \/ \E s \in Sessions : r \in mem'[s].pending
BY InFlightIs DEF Kept, Accounted

(* A reply stays where it is, or is given up by a full list.               *)
LEMMA KeptStays ==
    ASSUME NEW r, Kept(r),
           r \in cut => r \in cut', r \in stranded => r \in stranded',
           r \in dropped => r \in dropped',
           chat[r] > 0 => chat'[r] > 0, returned[r] > 0 => returned'[r] > 0,
           \A p \in Passes : \A x \in pass[p].batch : x[2] = r => x \in pass'[p].batch,
           \A x \in returning : x[2] = r => x \in returning',
           \A h \in handing : h[3] = r => h \in handing',
           \A s \in Sessions :
             r \in mem[s].pending => r \in mem'[s].pending \/ r \in dropped'
    PROVE  Kept(r)'
<1>1. Underway(r) => Underway(r)'
  BY DEF Underway
<1> QED BY <1>1, KeptIs

(* What was accounted for stays so, and nothing new is read.               *)
LEMMA LostStays ==
    ASSUME TypeOK, LostInv, UNCHANGED log,
           \A s \in Sessions : \A r \in mem'[s].seen : r \in mem[s].seen,
           \A r \in Replies : Kept(r) => Kept(r)'
    PROVE  LostInv'
<1>1. SeenSent'
  BY DEF LostInv, SeenSent, Now
<1>2. NoReplyLost'
  <2> SUFFICES ASSUME NEW s \in Sessions, NEW r \in mem'[s].seen, log'[r].kind # "empty"
               PROVE  Kept(r)'
    BY DEF NoReplyLost, Kept
  <2>1. r \in mem[s].seen /\ r \in Replies
    BY DEF TypeOK, ListsType, SessionRec
  <2>2. Kept(r)
    BY <2>1 DEF LostInv, NoReplyLost, Kept
  <2> QED BY <2>1, <2>2
<1> QED BY <1>1, <1>2 DEF LostInv

(* Steps that leave every reply where it is.                               *)
LEMMA LostSame ==
    ASSUME TypeOK, LostInv, UNCHANGED <<log, returning, handing, chat, returned, dropped, cut, stranded>>,
           Same(mem, mem'), \A p \in Passes : pass'[p].batch = pass[p].batch
    PROVE  LostInv'
<1>1. ASSUME NEW r \in Replies, Kept(r) PROVE Kept(r)'
  BY <1>1, KeptStays DEF Same
<1> QED BY <1>1, LostStays DEF Same

(* Dispatching brings a reply to a caller, into a hand-over or into a list,*)
(* or gives it up.                                                         *)
LEMMA KeptDispatch ==
    ASSUME TypeOK, ClaimsCovered, WaitersRunning, NEW by, NEW s \in Sessions, NEW r \in Replies,
           NEW back, Dispatch(by, s, r, back), UNCHANGED <<chat, cut, stranded>>
    PROVE  /\ Kept(r)'
           /\ back \subseteq returning' /\ handing \subseteq handing' /\ dropped \subseteq dropped'
           /\ \A q \in Replies : returned[q] > 0 => returned'[q] > 0
           /\ \A q \in Replies \ {r} : \A u \in Sessions :
                q \in mem[u].pending => q \in mem'[u].pending \/ q \in dropped'
           /\ \A u \in Sessions : mem'[u].seen = mem[u].seen
<1>1. ASSUME NEW w \in IF waiters[s] # {} THEN waiters[s] ELSE waiters[AnySession],
             Resolve(w, s, r, back), UNCHANGED <<lists, delivery, dropped>>
      PROVE  /\ Kept(r)'
             /\ back \subseteq returning' /\ handing \subseteq handing' /\ dropped \subseteq dropped'
             /\ \A q \in Replies : returned[q] > 0 => returned'[q] > 0
             /\ \A q \in Replies \ {r} : \A u \in Sessions :
                  q \in mem[u].pending => q \in mem'[u].pending \/ q \in dropped'
             /\ \A u \in Sessions : mem'[u].seen = mem[u].seen
  <2>1. call[w] \in {"waiting", "abandoned"}
    BY DEF WaitersRunning, WaitKeys
  <2>2. \A q \in Replies : returned[q] \in Nat
    BY DEF TypeOK, HistoryType
  <2>3. CASE call[w] = "waiting"
    <3>1. returned' = [returned EXCEPT ![r] = @ + 1]
      BY <1>1, <2>3 DEF Resolve
    <3>2. returned'[r] > 0 /\ \A q \in Replies : returned[q] > 0 => returned'[q] > 0
      BY <2>2, <3>1 DEF TypeOK, HistoryType
    <3>3. returning' = back
      BY <1>1, <2>3 DEF Resolve
    <3> QED BY <1>1, <3>2, <3>3, KeptIs DEF lists, delivery
  <2>4. CASE call[w] = "abandoned"
    <3>1. returning' = back \cup {<<s, r>>} /\ UNCHANGED returned
      BY <1>1, <2>4 DEF Resolve
    <3>2. <<s, r>> \in returning' /\ <<s, r>>[2] = r
      BY <3>1
    <3>3. Underway(r)'
      BY <3>2 DEF Underway
    <3> QED BY <1>1, <3>1, <3>3, KeptIs DEF lists, delivery
  <2> QED BY <2>1, <2>3, <2>4
<1>2. CASE log[r].kind = "close" /\ dropped' = dropped \cup {r} /\ returning' = back
           /\ UNCHANGED <<lists, delivery, returned>>
  BY <1>2, KeptIs DEF lists, delivery
<1>3. CASE r \in claims /\ Release(s, r) /\ returning' = back
           /\ UNCHANGED <<delivery, dropped, returned>>
  <2>1. chat[r] > 0 \/ r \in cut \cup stranded \/ \E h \in handing : h[3] = r
    BY <1>3 DEF ClaimsCovered
  <2>2. UNCHANGED handing
    BY <1>3 DEF delivery
  <2>3. Kept(r)'
    BY <2>1, <2>2, KeptIs DEF Underway
  <2>4. CASE UNCHANGED lists
    BY <1>3, <2>2, <2>3, <2>4 DEF lists
  <2>5. CASE mem' = Without(s, r)
    BY <1>3, <2>2, <2>3, <2>5, WithoutIs DEF HeldBy, TypeOK
  <2> QED BY <1>3, <2>4, <2>5 DEF Release
<1>4. CASE handing' = handing \cup {<<by, s, r>>} /\ returning' = back
           /\ UNCHANGED <<lists, dropped, returned>>
  <2>1. <<by, s, r>> \in handing' /\ <<by, s, r>>[3] = r
    BY <1>4
  <2>2. Underway(r)'
    BY <2>1 DEF Underway
  <2> QED BY <1>4, <2>2, KeptIs DEF lists
<1>5. CASE Hold(s, r) /\ returning' = back /\ UNCHANGED <<delivery, returned>>
  <2>1. \/ r \in mem[s].pending /\ UNCHANGED <<lists, dropped>>
        \/ HeldBy(s, mem[s].pending \cup {r}) /\ UNCHANGED dropped
        \/ \E e \in mem[s].pending :
             HeldBy(s, (mem[s].pending \ {e}) \cup {r}) /\ dropped' = dropped \cup {e}
    BY <1>5, HoldIs DEF TypeOK
  <2>2. CASE r \in mem[s].pending /\ UNCHANGED <<lists, dropped>>
    BY <1>5, <2>2, KeptIs DEF lists, delivery
  <2>3. CASE HeldBy(s, mem[s].pending \cup {r}) /\ UNCHANGED dropped
    BY <1>5, <2>3, KeptIs DEF HeldBy, delivery
  <2>4. ASSUME NEW e \in mem[s].pending, HeldBy(s, (mem[s].pending \ {e}) \cup {r}),
               dropped' = dropped \cup {e}
        PROVE  /\ r \in mem'[s].pending
               /\ \A q \in Replies \ {r} : \A u \in Sessions :
                    q \in mem[u].pending => q \in mem'[u].pending \/ q \in dropped'
               /\ \A u \in Sessions : mem'[u].seen = mem[u].seen
               /\ dropped \subseteq dropped'
    BY <2>4 DEF HeldBy
  <2> QED BY <1>5, <2>1, <2>2, <2>3, <2>4, KeptIs DEF delivery
<1>6. CASE HandOver(by, s, r) /\ returning' = back /\ UNCHANGED returned
  BY <1>2, <1>3, <1>4, <1>6 DEF HandOver
<1> QED BY <1>1, <1>5, <1>6 DEF Dispatch

-----------------------------------------------------------------------------
(* No reply is lost                                                        *)

(* Steps of one pass that change neither the lists nor what is on its way. *)
LEMMA LostMoved ==
    ASSUME TypeOK, LostInv, NEW p \in Passes, NEW places, NEW batch,
           PassMoves(p, places, batch), pass[p].batch \subseteq batch, Same(mem, mem'),
           UNCHANGED <<log, returning, handing, chat, dropped, cut, stranded>>,
           \A q \in Replies : returned[q] > 0 => returned'[q] > 0
    PROVE  LostInv'
<1>1. \A q \in Passes : pass[q].batch \subseteq pass'[q].batch
  BY DEF PassMoves
<1>2. ASSUME NEW r \in Replies, Kept(r) PROVE Kept(r)'
  BY <1>1, <1>2, KeptStays DEF Same
<1> QED BY <1>2, LostStays DEF Same

(* A message of the user is read by nobody yet.                            *)
LEMMA LostUserPosts ==
    ASSUME TypeOK, LostInv, NEW t \in Threads, NEW kind \in Kinds, UserPosts(t, kind)
    PROVE  LostInv'
<1>1. /\ UNCHANGED <<mem, pass, returning, handing, chat, returned, dropped, cut, stranded>>
      /\ log' = Append(log, [thread |-> t, kind |-> kind])
  BY DEF UserPosts, lists, callers, delivery
<1>2. Len(log) \in Nat /\ Len(log') = Len(log) + 1 /\ \A r \in 1..Len(log) : log'[r] = log[r]
  BY <1>1 DEF TypeOK, TeamsType
<1>3. SeenSent'
  BY <1>1, <1>2 DEF LostInv, SeenSent, Now
<1>4. NoReplyLost'
  <2> SUFFICES ASSUME NEW s \in Sessions, NEW r \in mem'[s].seen, log'[r].kind # "empty"
               PROVE  Kept(r)'
    BY DEF NoReplyLost, Kept
  <2>1. r \in mem[s].seen /\ r \in 1..Len(log)
    BY <1>1 DEF LostInv, SeenSent, Now
  <2>2. Kept(r)
    BY <1>2, <2>1 DEF LostInv, NoReplyLost, Kept
  <2> QED BY <1>1, <2>2, KeptStays
<1> QED BY <1>3, <1>4 DEF LostInv

LEMMA LostQuiet ==
    ASSUME TypeOK, RefsInv, LostInv,
           \/ \E s \in Sessions : IdleElapses(s)
           \/ \E x \in notes : NoticePosted(x) \/ NoticeFails(x)
           \/ \E n \in Posts : NotifyEnds(n) \/ TurnEnds(n) \/ PostFails(n)
           \/ \E w \in Waits : TimesOut(w) \/ Abandon(w)
           \/ \E n \in Posts, k \in Keys : NotifyBegins(n, k) \/ TurnBegins(n, k)
           \/ \E s \in Sessions : Extend(s) \/ CloseSession(s) \/ RenameSession(s)
           \/ \E k \in Keys : RecordActivity(k)
           \/ Stop \/ UNCHANGED vars
    PROVE  LostInv'
<1>1. Quiet /\ UNCHANGED <<pass, returning, handing>>
  BY QuietSteps DEF RefsInv, ListsGood
<1>2. UNCHANGED <<log, chat, returned, dropped, cut, stranded>>
  BY DEF IdleElapses, NoticePosted, NoticeFails, NotifyEnds, TurnEnds, PostFails, TimesOut,
         Abandon, NotifyBegins, TurnBegins, Extend, CloseSession, RenameSession,
         RecordActivity, Stop, teams, history, vars
<1> QED BY <1>1, <1>2, LostSame DEF Quiet

LEMMA LostBegins ==
    ASSUME TypeOK, RefsInv, LostInv, NEW p \in Passes, BeginPass(p), pass[p].pc = "idle",
           UNCHANGED <<log, returning, handing, chat, returned, dropped, cut, stranded>>
    PROVE  LostInv'
<1>1. pass[p].batch = {}
  BY DEF RefsInv, Rest
<1>2. PassMoves(p, {"reading", "confirm", "deliver"}, {}) /\ UNCHANGED mem
  BY BeginMoves
<1> QED BY <1>1, <1>2, SameItself, LostMoved

LEMMA LostFetchFails ==
    ASSUME TypeOK, LostInv, NEW p \in Passes, FetchFails(p)
    PROVE  LostInv'
<1>1. PassMoves(p, {"reading", "confirm", "deliver"}, pass[p].batch)
  BY FetchMoves DEF FetchFails
<1>2. UNCHANGED <<mem, log, returning, handing, chat, returned, dropped, cut, stranded>>
  BY DEF FetchFails, teams, callers, delivery, history
<1> QED BY <1>1, <1>2, SameItself, LostMoved

(* What is read is in the batch of its pass at once, in the step that      *)
(* marks it seen.                                                          *)
LEMMA LostFetch ==
    ASSUME TypeOK, LostInv, NEW p \in Passes, FetchDone(p)
    PROVE  LostInv'
<1>1. PICK upto \in pass[p].asked..Now : FetchReads(p, upto)
  BY DEF FetchDone
<1> DEFINE s == pass[p].at
           read == {<<s, r>> : r \in Said(p, upto)}
<1>2. /\ s \in Sessions /\ Fresh(p, upto) \subseteq 1..Now
      /\ \A u \in Sessions : mem'[u].pending = mem[u].pending
      /\ \A u \in Sessions \ {s} : mem'[u].seen = mem[u].seen
      /\ mem'[s].seen = mem[s].seen \cup Fresh(p, upto)
      /\ PassMoves(p, {"reading", "confirm", "deliver"}, pass[p].batch \cup read)
  BY <1>1, FetchIs
<1>3. UNCHANGED <<log, returning, handing, chat, returned, dropped, cut, stranded>>
  BY <1>1 DEF FetchReads, teams, callers, delivery, history
<1>4. \A q \in Passes : pass[q].batch \subseteq pass'[q].batch
  BY <1>2 DEF PassMoves
<1>5. ASSUME NEW r \in Replies, Kept(r) PROVE Kept(r)'
  BY <1>2, <1>3, <1>4, <1>5, KeptStays
<1>6. ASSUME NEW r \in Said(p, upto) PROVE Kept(r)'
  <2>1. <<s, r>> \in pass'[p].batch /\ <<s, r>>[2] = r
    BY <1>2, <1>6 DEF PassMoves
  <2>2. Underway(r)'
    BY <2>1 DEF Underway
  <2> QED BY <2>2, KeptIs
<1>7. SeenSent'
  BY <1>2, <1>3 DEF LostInv, SeenSent, Now
<1>8. NoReplyLost'
  <2> SUFFICES ASSUME NEW u \in Sessions, NEW r \in mem'[u].seen, log'[r].kind # "empty"
               PROVE  Kept(r)'
    BY DEF NoReplyLost, Kept
  <2>1. CASE r \in mem[u].seen
    <3>1. r \in Replies
      BY <2>1 DEF TypeOK, ListsType, SessionRec
    <3>2. Kept(r)
      BY <1>3, <2>1 DEF LostInv, NoReplyLost, Kept
    <3> QED BY <1>5, <3>1, <3>2
  <2>2. CASE r \in Fresh(p, upto)
    BY <1>3, <1>6, <2>2 DEF Said
  <2> QED BY <1>2, <2>1, <2>2
<1> QED BY <1>7, <1>8 DEF LostInv

(* A dispatch, from wherever the reply was taken.                          *)
LEMMA LostDispatch ==
    ASSUME TypeOK, LostInv, ClaimsCovered, WaitersRunning, NEW by, NEW s \in Sessions,
           NEW r \in Replies, NEW back, Dispatch(by, s, r, back), UNCHANGED <<log, chat, cut, stranded>>,
           \A x \in returning : x[2] = r \/ x \in back,
           \A p \in Passes : \A x \in pass[p].batch : x[2] = r \/ x \in pass'[p].batch
    PROVE  LostInv'
<1>1. /\ Kept(r)'
      /\ back \subseteq returning' /\ handing \subseteq handing' /\ dropped \subseteq dropped'
      /\ \A q \in Replies : returned[q] > 0 => returned'[q] > 0
      /\ \A q \in Replies \ {r} : \A u \in Sessions :
           q \in mem[u].pending => q \in mem'[u].pending \/ q \in dropped'
      /\ \A u \in Sessions : mem'[u].seen = mem[u].seen
  BY KeptDispatch
<1>2. ASSUME NEW q \in Replies, Kept(q) PROVE Kept(q)'
  <2>1. CASE q = r
    BY <1>1, <2>1
  <2>2. CASE q # r
    BY <1>1, <1>2, <2>2, KeptStays
  <2> QED BY <2>1, <2>2
<1> QED BY <1>1, <1>2, LostStays

LEMMA LostContinues ==
    ASSUME TypeOK, RefsInv, LostInv, ClaimsCovered, WaitersRunning,
           NEW p \in Passes, Continues(p)
    PROVE  LostInv'
<1>1. ASSUME Confirm(p) \/ Expire(p) \/ Warn(p) PROVE LostInv'
  <2>1. Same(mem, mem')
    BY <1>1, QuietExpire, SameItself DEF Quiet, Confirm, Warn, lists
  <2>2. \/ PassMoves(p, {"confirm", "deliver"}, pass[p].batch)
        \/ PassMoves(p, {"idle", "warn"}, {}) /\ pass[p].batch = {}
    BY <1>1, ConfirmMoves, ExpireMoves, WarnMoves DEF RefsInv
  <2>3. UNCHANGED <<log, returning, handing, chat, returned, dropped, cut, stranded>>
    BY <1>1 DEF Confirm, Expire, Warn, teams, callers, delivery, history
  <2> QED BY <2>1, <2>2, <2>3, LostMoved
<1>2. CASE Deliver(p)
  <2>1. PICK x \in pass[p].batch :
          /\ Dispatch(p, x[1], x[2], returning)
          /\ PassMoves(p, {"deliver", "redeliver"}, pass[p].batch \ {x})
    BY <1>2, DeliverMoves
  <2>2. x[1] \in Sessions /\ x[2] \in Replies
    BY DEF TypeOK, PassType, PassRec
  <2>3. UNCHANGED <<log, chat, cut, stranded>>
    BY <1>2 DEF Deliver, teams
  <2>4. \A q \in Passes : \A y \in pass[q].batch : y[2] = x[2] \/ y \in pass'[q].batch
    BY <2>1 DEF PassMoves
  <2> QED BY <2>1, <2>2, <2>3, <2>4, LostDispatch
<1>3. CASE Redeliver(p)
  <2>1. PICK s \in Sessions : \E r \in mem[s].pending :
          /\ Dispatch(p, s, r, returning) /\ pass[p].batch = {}
          /\ PassMoves(p, {"deliver", "redeliver"}, {s} \X (mem[s].pending \ {r}))
    BY <1>3, RedeliverMoves
  <2>2. PICK r \in mem[s].pending :
          /\ Dispatch(p, s, r, returning) /\ pass[p].batch = {}
          /\ PassMoves(p, {"deliver", "redeliver"}, {s} \X (mem[s].pending \ {r}))
    BY <2>1
  <2>3. r \in Replies
    BY DEF TypeOK, ListsType, SessionRec
  <2>4. UNCHANGED <<log, chat, cut, stranded>>
    BY <1>3 DEF Redeliver, teams
  <2>5. \A q \in Passes : \A y \in pass[q].batch : y[2] = r \/ y \in pass'[q].batch
    BY <2>2 DEF PassMoves
  <2> QED BY <2>2, <2>3, <2>4, <2>5, LostDispatch
<1> QED BY <1>1, <1>2, <1>3 DEF Continues

LEMMA LostReturn ==
    ASSUME TypeOK, LostInv, ClaimsCovered, WaitersRunning, ReturnUndelivered
    PROVE  LostInv'
<1>1. PICK x \in returning : Dispatch(NoOwner, x[1], x[2], returning \ {x})
  BY DEF ReturnUndelivered
<1>2. x[1] \in Sessions /\ x[2] \in Replies
  BY DEF TypeOK, CallersType
<1>3. UNCHANGED <<log, chat, cut, stranded, pass>>
  BY DEF ReturnUndelivered, teams
<1> QED BY <1>1, <1>2, <1>3, LostDispatch

(* The end of a hand-over: the reply is in the chat, given up or held.     *)
LEMMA LostHandOverEnds ==
    ASSUME TypeOK, LostInv, "failed" \notin Outcomes, NEW h \in handing, HandOverEnds(h)
    PROVE  LostInv'
<1> DEFINE s == h[2]
           r == h[3]
<1>1. s \in Sessions /\ r \in Replies
  BY DEF TypeOK, DeliveryType
<1>2. /\ UNCHANGED <<log, pass, returning, returned, cut, stranded>> /\ handing' = handing \ {h}
  BY DEF HandOverEnds, teams, callers
<1>3. \/ chat' = [chat EXCEPT ![r] = @ + 1] /\ mem' = Without(s, r) /\ UNCHANGED dropped
      \/ dropped' = dropped \cup {r} /\ Release(s, r) /\ UNCHANGED chat
      \/ Hold(s, r) /\ UNCHANGED chat
      \/ r \in mem[s].pending /\ UNCHANGED <<mem, dropped, chat>>
      \/ dropped' = dropped \cup {r} /\ UNCHANGED <<mem, chat>>
  BY DEF HandOverEnds, Noticed
<1> HIDE DEF s, r
<1>4. /\ Kept(r)'
      /\ dropped \subseteq dropped' /\ \A q \in Replies : chat[q] > 0 => chat'[q] > 0
      /\ \A q \in Replies \ {r} : \A u \in Sessions :
           q \in mem[u].pending => q \in mem'[u].pending \/ q \in dropped'
      /\ \A u \in Sessions : mem'[u].seen = mem[u].seen
  <2>1. CASE chat' = [chat EXCEPT ![r] = @ + 1] /\ mem' = Without(s, r) /\ UNCHANGED dropped
    <3>1. chat'[r] > 0 /\ \A q \in Replies : chat[q] > 0 => chat'[q] > 0
      BY <1>1, <2>1 DEF TypeOK, HistoryType
    <3>2. HeldBy(s, mem[s].pending \ {r})
      BY <1>1, <2>1, WithoutIs DEF TypeOK
    <3> QED BY <1>1, <2>1, <3>1, <3>2, KeptIs DEF HeldBy
  <2>2. CASE dropped' = dropped \cup {r} /\ Release(s, r) /\ UNCHANGED chat
    <3>1. HeldBy(s, mem[s].pending \ {r}) \/ UNCHANGED mem
      BY <1>1, <2>2, WithoutIs DEF TypeOK, Release, lists
    <3> QED BY <1>1, <2>2, <3>1, KeptIs DEF HeldBy
  <2>3. CASE Hold(s, r) /\ UNCHANGED chat
    <3>1. CASE r \in mem[s].pending /\ UNCHANGED <<lists, dropped>>
      BY <1>1, <2>3, <3>1, KeptIs DEF lists
    <3>2. CASE HeldBy(s, mem[s].pending \cup {r}) /\ UNCHANGED dropped
      BY <1>1, <2>3, <3>2, KeptIs DEF HeldBy
    <3>3. CASE \E e \in mem[s].pending :
                 HeldBy(s, (mem[s].pending \ {e}) \cup {r}) /\ dropped' = dropped \cup {e}
      BY <1>1, <2>3, <3>3, KeptIs DEF HeldBy
    <3> QED BY <1>1, <2>3, <3>1, <3>2, <3>3, HoldIs DEF TypeOK
  <2>4. CASE r \in mem[s].pending /\ UNCHANGED <<mem, dropped, chat>>
    BY <1>1, <2>4, KeptIs
  <2>5. CASE dropped' = dropped \cup {r} /\ UNCHANGED <<mem, chat>>
    BY <1>1, <2>5, KeptIs
  <2> QED BY <1>3, <2>1, <2>2, <2>3, <2>4, <2>5
<1>5. ASSUME NEW q \in Replies, Kept(q) PROVE Kept(q)'
  <2>1. CASE q = r
    BY <1>4, <2>1
  <2>2. CASE q # r
    <3>1. \A g \in handing : g[3] = q => g \in handing'
      BY <1>2, <2>2 DEF r
    <3> QED BY <1>2, <1>4, <1>5, <2>2, <3>1, KeptStays
  <2> QED BY <2>1, <2>2
<1> QED BY <1>2, <1>4, <1>5, LostStays

LEMMA LostTake ==
    ASSUME TypeOK, LostInv, NEW key \in WaitKeys, Take(key)
    PROVE  LostInv'
<1> DEFINE replies == {x[2] : x \in PendingOf(key)}
<1>1. /\ UNCHANGED <<log, pass, returning, handing, chat, dropped, cut, stranded>>
      /\ returned' = [r \in Replies |-> returned[r] + IF r \in replies THEN 1 ELSE 0]
  BY DEF Take, teams, callers, delivery
<1>2. \A q \in Replies : returned[q] \in Nat
  BY DEF TypeOK, HistoryType
<1>3. ASSUME NEW q \in Replies, Kept(q) PROVE Kept(q)'
  <2>1. CASE q \in replies
    <3>1. returned'[q] > 0
      <4> HIDE DEF replies
      <4> QED BY <1>1, <1>2, <2>1
    <3> QED BY <3>1, KeptIs
  <2>2. CASE q \notin replies
    <3>1. returned'[q] = returned[q]
      <4> HIDE DEF replies
      <4> QED BY <1>1, <1>2, <2>2
    <3>2. ASSUME NEW s \in Sessions, q \in mem[s].pending PROVE q \in mem'[s].pending
      <4>1. <<s, q>> \notin PendingOf(key)
        BY <2>2
      <4> QED BY <3>2, <4>1, TakeIs
    <3> QED BY <1>1, <1>3, <3>1, <3>2, KeptStays
  <2> QED BY <2>1, <2>2
<1>4. \A s \in Sessions : mem'[s].seen = mem[s].seen
  BY TakeIs
<1> QED BY <1>1, <1>3, <1>4, LostStays

LEMMA LostWait ==
    ASSUME TypeOK, RefsInv, LostInv, NEW w \in Waits, NEW key \in WaitKeys, Wait(w, key)
    PROVE  LostInv'
<1>1. UNCHANGED <<log, returning, handing, chat, dropped, cut, stranded>> /\ call[w] = "ready"
  BY DEF Wait, teams, delivery
<1>2. CASE \E x \in PendingOf(key) : /\ mem' = Without(x[1], x[2])
                                     /\ returned' = [returned EXCEPT ![x[2]] = @ + 1]
                                     /\ UNCHANGED pass
  <2>1. PICK x \in PendingOf(key) : /\ mem' = Without(x[1], x[2])
                                    /\ returned' = [returned EXCEPT ![x[2]] = @ + 1]
                                    /\ UNCHANGED pass
    BY <1>2
  <2> DEFINE s == x[1]
             r == x[2]
  <2>2. s \in Sessions /\ r \in Replies
    BY DEF PendingOf
  <2>3. /\ returned'[r] > 0 /\ \A q \in Replies : returned[q] > 0 => returned'[q] > 0
    <3>1. returned \in [Replies -> Nat]
      BY DEF TypeOK, HistoryType
    <3> HIDE DEF r
    <3> QED BY <2>1, <2>2, <3>1 DEF r
  <2>4. HeldBy(s, mem[s].pending \ {r})
    <3> HIDE DEF s, r
    <3> QED BY <2>1, <2>2, WithoutIs DEF TypeOK, s, r
  <2> HIDE DEF s, r
  <2>5. ASSUME NEW q \in Replies, Kept(q) PROVE Kept(q)'
    <3>1. CASE q = r
      BY <2>3, <3>1, KeptIs
    <3>2. CASE q # r
      <4>1. \A u \in Sessions : q \in mem[u].pending => q \in mem'[u].pending
        BY <2>2, <2>4, <3>2 DEF HeldBy
      <4> QED BY <1>1, <2>1, <2>3, <2>5, <4>1, KeptStays
    <3> QED BY <3>1, <3>2
  <2> QED BY <1>1, <2>2, <2>4, <2>5, LostStays DEF HeldBy
<1>3. CASE BeginPass(w) /\ UNCHANGED returned
  <2>1. w \in Passes /\ pass[w].pc = "idle"
    BY <1>1 DEF RefsInv, ReadyIdle, Passes
  <2> QED BY <1>1, <1>3, <2>1, LostBegins
<1>4. CASE UNCHANGED <<lists, pass, returned>>
  BY <1>1, <1>4, SameItself, LostSame DEF lists
<1> QED BY <1>2, <1>3, <1>4 DEF Wait

LEMMA LostReset ==
    ASSUME TypeOK, LostInv, Reset
    PROVE  LostInv'
BY SameItself, LostSame DEF Reset, history

(* What was on its way when the process stopped is cut off; what it held   *)
(* is in the store, and is handed over or shown anew.                      *)
LEMMA LostReload ==
    ASSUME TypeOK, RefsInv, LostInv, ClaimsCovered, Reload
    PROVE  LostInv'
<1> DEFINE backlog == {x \in Sessions \X Replies : x[2] \in disk[x[1]].pending}
           held == {x[2] : x \in backlog}
           due == {r \in held : log[r].kind # "close" /\ r \notin claims}
           closing == {x[2] : x \in {y \in backlog : log[y[2]].kind = "close"}}
           of(r) == {s \in Sessions : <<s, r>> \in backlog}
<1>1. /\ UNCHANGED <<log, chat, returned>> /\ dropped \subseteq dropped'
      /\ cut' = cut \cup (InFlight \ held)
      /\ stranded' = stranded \cup ({h[3] : h \in handing} \cap held)
  BY DEF Reload
<1>2. /\ ~disposed
      /\ \A s \in Sessions : /\ mem'[s].seen = disk[s].seen
                             /\ mem'[s].pending = IF HasHandler THEN {} ELSE disk[s].pending
  BY ReloadIs
<1>3. \A s \in Sessions : mem[s].pending = disk[s].pending /\ disk[s].seen \subseteq mem[s].seen
  BY <1>2 DEF RefsInv, ListsGood, HeldOnDisk, StoreBehind
<1>4. ASSUME NEW s \in Sessions, NEW r \in Replies, r \in mem[s].pending PROVE Kept(r)'
  <2>1. CASE ~HasHandler
    <3>1. r \in mem'[s].pending
      BY <1>2, <1>3, <1>4, <2>1
    <3> QED BY <3>1, KeptIs
  <2>2. CASE HasHandler
    <3>1. <<s, r>> \in backlog /\ <<s, r>>[2] = r
      BY <1>3, <1>4
    <3>2. CASE log[r].kind = "close"
      <4>1. dropped' = dropped \cup closing
        BY <2>2 DEF Reload
      <4>2. r \in closing
        BY <3>1, <3>2
      <4> QED BY <4>1, <4>2, KeptIs
    <3>3. CASE r \in claims
      <4>1. r \in held
        BY <3>1
      <4> HIDE DEF held
      <4>2. chat'[r] > 0 \/ r \in cut' \cup stranded'
        BY <1>1, <3>3, <4>1 DEF ClaimsCovered
      <4> QED BY <4>2, KeptIs
    <3>4. CASE log[r].kind # "close" /\ r \notin claims
      <4>1. handing' = {<<NoOwner, First(of(q)), q>> : q \in due}
        BY <2>2 DEF Reload
      <4>2. r \in due
        BY <3>1, <3>4
      <4> HIDE DEF due, of
      <4>3. <<NoOwner, First(of(r)), r>> \in handing'
        BY <4>1, <4>2
      <4>4. <<NoOwner, First(of(r)), r>>[3] = r
        OBVIOUS
      <4>5. Underway(r)'
        BY <4>3, <4>4 DEF Underway
      <4> QED BY <4>5, KeptIs
    <3> QED BY <3>2, <3>3, <3>4
  <2> QED BY <2>1, <2>2
<1>5. ASSUME NEW r \in Replies, Kept(r) PROVE Kept(r)'
  <2>1. CASE r \in cut \cup stranded \/ chat[r] > 0 \/ returned[r] > 0 \/ r \in dropped
    BY <1>1, <2>1, KeptIs
  <2>2. CASE Underway(r) /\ r \notin held
    <3> HIDE DEF held
    <3> QED BY <1>1, <2>2, InFlightIs, KeptIs
  <2>3. CASE r \in held
    <3>1. PICK x \in backlog : x[2] = r
      BY <2>3
    <3>2. x[1] \in Sessions /\ r \in mem[x[1]].pending
      BY <1>3, <3>1
    <3> QED BY <1>4, <3>2
  <2> QED BY <1>4, <1>5, <2>1, <2>2, <2>3, KeptIs
<1> QED BY <1>1, <1>2, <1>3, <1>5, LostStays

LEMMA LostNext ==
    ASSUME "failed" \notin Outcomes, TypeOK, RefsInv, LostInv, ClaimsCovered, WaitersRunning,
           [Next]_vars
    PROVE  LostInv'
<1>1. CASE TickFires
  <2>1. BeginPass(Tick) /\ Tick \in Passes /\ pass[Tick].pc = "idle"
    BY <1>1 DEF TickFires, Passes
  <2>2. UNCHANGED <<log, returning, handing, chat, returned, dropped, cut, stranded>>
    BY <1>1 DEF TickFires, teams, callers, delivery, history
  <2> QED BY <2>1, <2>2, LostBegins
<1>2. CASE Answered
  <2>1. CASE \E x \in notes : NoticePosted(x) \/ NoticeFails(x)
    BY <2>1, LostQuiet
  <2>2. CASE \E n \in Posts : NotifyEnds(n) \/ TurnEnds(n) \/ PostFails(n)
    BY <2>2, LostQuiet
  <2> QED BY <1>2, <2>1, <2>2, LostFetch, LostFetchFails, LostHandOverEnds DEF Answered
<1>3. CASE Called
  <2>1. CASE \E w \in Waits : TimesOut(w) \/ Abandon(w)
    BY <2>1, LostQuiet
  <2>2. CASE \E n \in Posts, k \in Keys : NotifyBegins(n, k) \/ TurnBegins(n, k)
    BY <2>2, LostQuiet
  <2>3. CASE \E s \in Sessions : Extend(s) \/ CloseSession(s) \/ RenameSession(s)
    BY <2>3, LostQuiet
  <2>4. CASE (\E k \in Keys : RecordActivity(k)) \/ Stop
    BY <2>4, LostQuiet
  <2> QED BY <1>3, <2>1, <2>2, <2>3, <2>4, LostWait, LostTake, LostReset, LostReload DEF Called
<1>4. CASE (\E s \in Sessions : IdleElapses(s)) \/ UNCHANGED vars
  BY <1>4, LostQuiet
<1> QED BY <1>1, <1>2, <1>3, <1>4, LostUserPosts, LostContinues, LostReturn DEF Next

LEMMA LostInit ==
    ASSUME Init
    PROVE  LostInv
<1>1. NoSession.seen = {}
  BY DEF NoSession, NewSession
<1> QED BY <1>1 DEF Init, LostInv, SeenSent, NoReplyLost

(* Once poll() has marked a reply with content as seen no later fetch      *)
(* offers it again, so it must be somewhere: in a chat, with a caller,     *)
(* held, given up on purpose, or on its way in a pass, a hand-over or an   *)
(* abandoned wait.  However passes, waits, hand-overs and reloads overlap  *)
(* it is, unless it was in no list of the process when the window was      *)
(* reloaded, or the adapter's deliver() failed on it: that hand-over drops *)
(* what no list retains.                                                   *)
THEOREM NoReadReplyIsLost ==
    ASSUME "failed" \notin Outcomes
    PROVE  Spec => []NoReplyLost
<1>1. LostInv /\ RefsInv /\ TypeOK /\ ClaimsCovered /\ WaitersRunning /\ [Next]_vars => LostInv'
  BY LostNext
<1>2. LostInv => NoReplyLost
  BY DEF LostInv
<1> QED BY <1>1, <1>2, LostInit, RefsAlways, TypeCorrect, ClaimsAreCovered, WaitersAlwaysRunning,
           PTL DEF Spec
=============================================================================
