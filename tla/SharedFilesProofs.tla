------------------------- MODULE SharedFilesProofs -------------------------
(***************************************************************************)
(* Theorems about SharedFiles, for any number of processes, replies,       *)
(* messages, keys and threads, and any limits.                             *)
(***************************************************************************)
EXTENDS SharedFiles, FiniteSetTheorems, TLAPS

-----------------------------------------------------------------------------
(* What the two edits make of a list *)

(* An entry is added at the end, and only a full list loses its oldest one. *)
LEMMA AddedIs ==
    ASSUME NEW S, NEW max \in Nat \ {0}, NEW s \in Lists(S, max), NEW e \in S, e \notin Range(s)
    PROVE  /\ Added(s, e, max) \in Lists(S, max)
           /\ e \in Range(Added(s, e, max))
           /\ Range(Added(s, e, max)) \subseteq Range(s) \union {e}
           /\ Len(s) < max => Range(Added(s, e, max)) = Range(s) \union {e}
           /\ Len(s) = max => Len(Added(s, e, max)) = max
<1> DEFINE t == Append(s, e)
           n == Len(s)
<1>1. s \in Seq(S) /\ n \in Nat /\ n <= max /\ \A i, j \in 1 .. n : s[i] = s[j] => i = j
  BY DEF Lists
<1>2. t \in Seq(S) /\ Len(t) = n + 1 /\ t[n + 1] = e /\ \A i \in 1 .. n : t[i] = s[i]
  BY <1>1
<1>3. \A i \in 1 .. n : s[i] # e
  BY <1>1 DEF Range
<1>4. \A i, j \in 1 .. n + 1 : t[i] = t[j] => i = j
  <2> SUFFICES ASSUME NEW i \in 1 .. n + 1, NEW j \in 1 .. n + 1, t[i] = t[j] PROVE i = j
    OBVIOUS
  <2>1. CASE i = n + 1 /\ j = n + 1
    BY <2>1
  <2>2. CASE i \in 1 .. n /\ j = n + 1
    BY <2>2, <1>2, <1>3
  <2>3. CASE i = n + 1 /\ j \in 1 .. n
    BY <2>3, <1>2, <1>3
  <2>4. CASE i \in 1 .. n /\ j \in 1 .. n
    BY <2>4, <1>1, <1>2
  <2> QED BY <1>1, <2>1, <2>2, <2>3, <2>4
<1>5. Range(t) = Range(s) \union {e}
  <2>1. Range(t) \subseteq Range(s) \union {e}
    BY <1>1, <1>2 DEF Range
  <2>2. e \in Range(t)
    BY <1>1, <1>2 DEF Range
  <2>3. Range(s) \subseteq Range(t)
    BY <1>1, <1>2 DEF Range
  <2> QED BY <2>1, <2>2, <2>3
<1>6. CASE n < max
  <2>1. Added(s, e, max) = t
    BY <1>1, <1>2, <1>6 DEF Added, Bounded
  <2>2. t \in Lists(S, max)
    <3>1. DOMAIN t = 1 .. n + 1 /\ Len(t) <= max
      BY <1>1, <1>2, <1>6
    <3> HIDE DEF t, n
    <3> QED BY <3>1, <1>2, <1>4 DEF Lists
  <2>3. e \in Range(t) /\ n # max
    BY <1>1, <1>5, <1>6
  <2> HIDE DEF t
  <2> QED BY <2>1, <2>2, <2>3, <1>5
<1>7. CASE n = max
  <2> DEFINE u == SubSeq(t, 2, n + 1)
  <2>1. Added(s, e, max) = u
    BY <1>1, <1>2, <1>7 DEF Added, Bounded
  <2>2. u \in Seq(S) /\ Len(u) = max /\ \A i \in 1 .. max : u[i] = t[i + 1]
    BY <1>1, <1>2, <1>7
  <2> HIDE DEF u, t
  <2>3. u \in Lists(S, max)
    BY <2>2, <1>1, <1>4, <1>7 DEF Lists
  <2>4. e \in Range(u)
    BY <2>2, <1>1, <1>2, <1>7 DEF Range
  <2>5. Range(u) \subseteq Range(t)
    BY <2>2, <1>1, <1>2, <1>7 DEF Range
  <2> QED BY <2>1, <2>2, <2>3, <2>4, <2>5, <1>5, <1>7
<1> QED BY <1>1, <1>6, <1>7

(* filter() takes out the one entry, and keeps the others. *)
LEMMA WithoutIs ==
    ASSUME NEW S, NEW max \in Nat \ {0}, NEW s \in Lists(S, max), NEW e \in Range(s)
    PROVE  /\ Without(s, e) \in Lists(S, max)
           /\ Range(Without(s, e)) = Range(s) \ {e}
<1> DEFINE n == Len(s)
           k == Position(s, e)
           w == Without(s, e)
<1>1. s \in Seq(S) /\ n \in Nat /\ n <= max /\ DOMAIN s = 1 .. n
      /\ \A i, j \in 1 .. n : s[i] = s[j] => i = j
  BY DEF Lists
<1>2. k \in 1 .. n /\ s[k] = e
  <2>1. \E i \in DOMAIN s : s[i] = e
    BY DEF Range
  <2> QED BY <2>1, <1>1 DEF Position
<1> HIDE DEF k
<1>3. w = [i \in 1 .. n - 1 |-> IF i < k THEN s[i] ELSE s[i + 1]]
  BY DEF Without, k
<1>4. w \in Seq(S) /\ Len(w) = n - 1 /\ DOMAIN w = 1 .. n - 1
  <2>1. n - 1 \in Nat /\ \A i \in 1 .. n - 1 : (IF i < k THEN s[i] ELSE s[i + 1]) \in S
    BY <1>1, <1>2
  <2>2. w \in [1 .. n - 1 -> S]
    BY <2>1, <1>3
  <2> QED BY <2>1, <2>2
<1>5. \A i \in 1 .. n - 1 : w[i] = IF i < k THEN s[i] ELSE s[i + 1]
  BY <1>3
<1> HIDE DEF w
<1>6. \A i, j \in 1 .. n - 1 : w[i] = w[j] => i = j
  <2> SUFFICES ASSUME NEW i \in 1 .. n - 1, NEW j \in 1 .. n - 1, w[i] = w[j] PROVE i = j
    OBVIOUS
  <2>1. CASE i < k /\ j < k
    BY <2>1, <1>1, <1>2, <1>5
  <2>2. CASE i < k /\ ~(j < k)
    BY <2>2, <1>1, <1>2, <1>5
  <2>3. CASE ~(i < k) /\ j < k
    BY <2>3, <1>1, <1>2, <1>5
  <2>4. CASE ~(i < k) /\ ~(j < k)
    BY <2>4, <1>1, <1>2, <1>5
  <2> QED BY <2>1, <2>2, <2>3, <2>4
<1>7. w \in Lists(S, max)
  BY <1>1, <1>4, <1>6 DEF Lists
<1>8. Range(w) \subseteq Range(s) \ {e}
  <2> SUFFICES ASSUME NEW i \in 1 .. n - 1 PROVE w[i] \in Range(s) /\ w[i] # e
    BY <1>4 DEF Range
  <2>1. CASE i < k
    BY <2>1, <1>1, <1>2, <1>5 DEF Range
  <2>2. CASE ~(i < k)
    <3>1. w[i] = s[i + 1] /\ i + 1 \in 1 .. n /\ i + 1 # k
      BY <2>2, <1>1, <1>2, <1>5
    <3> QED BY <3>1, <1>1, <1>2 DEF Range
  <2> QED BY <2>1, <2>2
<1>9. Range(s) \ {e} \subseteq Range(w)
  <2> SUFFICES ASSUME NEW i \in 1 .. n, s[i] # e PROVE s[i] \in Range(w)
    BY <1>1 DEF Range
  <2>1. CASE i < k
    <3>1. i \in 1 .. n - 1 /\ w[i] = s[i]
      BY <2>1, <1>1, <1>2, <1>5
    <3> QED BY <3>1, <1>4 DEF Range
  <2>2. CASE i > k
    <3>1. i - 1 \in 1 .. n - 1 /\ w[i - 1] = s[i]
      BY <2>2, <1>1, <1>2, <1>5
    <3> QED BY <3>1, <1>4 DEF Range
  <2>3. i # k
    BY <1>2
  <2> QED BY <1>2, <2>1, <2>2, <2>3
<1> QED BY <1>7, <1>8, <1>9 DEF w

(* Without duplicates a full list holds as many entries as fit. *)
LEMMA FullList ==
    ASSUME NEW S, NEW max \in Nat \ {0}, NEW s \in Lists(S, max)
    PROVE  Cardinality(Range(s)) = Len(s)
<1>1. Len(s) \in Nat /\ s \in [1 .. Len(s) -> S] /\ \A i, j \in 1 .. Len(s) : s[i] = s[j] => i = j
  BY DEF Lists
<1>2. s \in [1 .. Len(s) -> Range(s)]
  BY <1>1 DEF Range
<1>3. s \in Bijection(1 .. Len(s), Range(s))
  BY <1>1, <1>2 DEF Bijection, Injection, Surjection, IsInjective, Range
<1>4. ExistsBijection(1 .. Len(s), Range(s))
  BY <1>3 DEF ExistsBijection
<1> QED BY <1>1, <1>4, FS_CountingElements

-----------------------------------------------------------------------------
(* The inductive invariant *)

(* What a call that is under way found when it began, and still relies on. *)
Started(p, call) ==
    CASE call.call = "claim" -> call.reply \notin Range(call.read)
      [] call.call = "release" -> call.reply \in Range(call.read) /\ <<p, call.reply>> \in held
      [] call.call = "post" -> call.message \notin Range(call.read)
      [] OTHER -> TRUE

IInv ==
    /\ TypeOK
    /\ \A p \in Processes : job[p] # None => Started(p, job[p])

(* No call is None: a call is a record with a file, and None is not one.   *)
(* (Both are opaque to the provers; only the types of calls are used.)     *)

LEMMA CallShapes ==
    ASSUME NEW c \in Calls
    PROVE  \/ /\ c.call = "claim" /\ c.file = "delivered"
              /\ c.reply \in Replies /\ c.read \in Lists(Replies, MaxDelivered)
           \/ /\ c.call = "release" /\ c.file = "delivered"
              /\ c.reply \in Replies /\ c.read \in Lists(Replies, MaxDelivered)
           \/ /\ c.call = "post" /\ c.file = "posted"
              /\ c.message \in Messages /\ c.read \in Lists(Messages, MaxPosted)
           \/ /\ c.call = "thread" /\ c.file = "threads"
              /\ c.key \in Keys /\ c.thread \in Threads /\ c.read \in ThreadMaps
BY DEF Calls

LEMMA InitHolds == Init => IInv
<1> SUFFICES ASSUME Init PROVE IInv
  OBVIOUS
<1>1. <<>> \in Lists(Replies, MaxDelivered) /\ <<>> \in Lists(Messages, MaxPosted)
  BY SharedFilesAssumption DEF Lists
<1>2. [k \in Keys |-> None] \in ThreadMaps
  BY DEF ThreadMaps
<1> QED BY <1>1, <1>2 DEF Init, IInv, TypeOK

(* A call begins with what it has just read. *)
LEMMA BeginsKeeps ==
    ASSUME IInv, NEW p \in Processes, NEW call \in Calls, Started(p, call),
           Begins(p, call), UNCHANGED held
    PROVE  IInv'
<1>1. /\ job' = [job EXCEPT ![p] = call] /\ held' = held /\ files' = files
      /\ recorded' = recorded /\ forgotten' = forgotten /\ broken' = broken
  BY DEF Begins
<1>2. DOMAIN job' = Processes /\ job'[p] = call /\ \A q \in Processes : q # p => job'[q] = job[q]
  BY <1>1 DEF IInv, TypeOK
<1>3. TypeOK'
  BY <1>1, <1>2 DEF IInv, TypeOK, files
<1>4. ASSUME NEW q \in Processes, job'[q] # None PROVE Started(q, job[q])'
  BY <1>1, <1>2, <1>4 DEF IInv, Started
<1> QED BY <1>3, <1>4 DEF IInv

LEMMA DeliversKeeps ==
    ASSUME IInv, NEW p \in Processes, Delivers(p)
    PROVE  IInv'
<1>0. delivered \in Lists(Replies, MaxDelivered)
  BY DEF IInv, TypeOK
<1>1. PICK r \in Replies : Claim(p, r) \/ Release(p, r) \/ ReleaseMissing(p, r)
  BY DEF Delivers
<1>2. CASE Claim(p, r)
  <2>1. ClaimCall(r) \in Calls /\ Started(p, ClaimCall(r))
    BY <1>0, <1>2 DEF Claim, ClaimCall, Calls, Started
  <2> QED BY <2>1, <1>2, BeginsKeeps DEF Claim
<1>3. CASE Release(p, r)
  <2> DEFINE call == [call |-> "release", file |-> "delivered", reply |-> r, read |-> delivered]
  <2>1. call \in Calls /\ Started(p, call)
    BY <1>0, <1>3 DEF Release, Calls, Started
  <2> QED BY <2>1, <1>3, BeginsKeeps DEF Release
<1>4. CASE ReleaseMissing(p, r)
  <2>1. TypeOK'
    BY <1>4 DEF ReleaseMissing, IInv, TypeOK, files
  <2>2. ASSUME NEW q \in Processes, job'[q] # None PROVE Started(q, job[q])'
    BY <1>4, <2>2 DEF ReleaseMissing, Idle, IInv, Started
  <2> QED BY <2>1, <2>2 DEF IInv
<1> QED BY <1>1, <1>2, <1>3, <1>4

LEMMA RecordsKeeps ==
    ASSUME IInv, NEW p \in Processes, Records(p)
    PROVE  IInv'
<1>0. posted \in Lists(Messages, MaxPosted) /\ threads \in ThreadMaps
  BY DEF IInv, TypeOK
<1>1. CASE \E m \in Messages : RecordPosted(p, m)
  <2>1. PICK m \in Messages : RecordPosted(p, m)
    BY <1>1
  <2> DEFINE call == [call |-> "post", file |-> "posted", message |-> m, read |-> posted]
  <2>2. call \in Calls /\ Started(p, call)
    BY <1>0, <2>1 DEF RecordPosted, Calls, Started
  <2> QED BY <2>1, <2>2, BeginsKeeps DEF RecordPosted
<1>2. CASE \E k \in Keys, t \in Threads : RecordThread(p, k, t)
  <2>1. PICK k \in Keys, t \in Threads : RecordThread(p, k, t)
    BY <1>2
  <2> DEFINE call == [call |-> "thread", file |-> "threads", key |-> k, thread |-> t, read |-> threads]
  <2>2. call \in Calls /\ Started(p, call)
    BY <1>0, <2>1 DEF RecordThread, Calls, Started
  <2> QED BY <2>1, <2>2, BeginsKeeps DEF RecordThread
<1> QED BY <1>1, <1>2 DEF Records

(* What a call grants or gives up is its own: nobody else's call is touched. *)
LEMMA ReturnsKeeps ==
    ASSUME IInv, NEW p \in Processes, job[p] # None, Returns(p)
    PROVE  /\ job' = [job EXCEPT ![p] = None] /\ DOMAIN job' = Processes
           /\ held' \subseteq Processes \X Replies /\ recorded' \subseteq Messages
           /\ \A q \in Processes : job'[q] # None =>
                    q # p /\ job'[q] = job[q] /\ job'[q] \in Calls /\ Started(q, job[q])'
<1>1. job[p] \in Calls
  BY DEF IInv, TypeOK
<1>2. job' = [job EXCEPT ![p] = None] /\ DOMAIN job' = Processes
  BY DEF Returns, IInv, TypeOK
<1>3. held' \subseteq Processes \X Replies /\ recorded' \subseteq Messages
  BY <1>1, CallShapes DEF Returns, IInv, TypeOK
<1>4. ASSUME NEW q \in Processes, job'[q] # None
      PROVE  q # p /\ job'[q] = job[q] /\ job'[q] \in Calls /\ Started(q, job[q])'
  <2>1. q # p /\ job'[q] = job[q] /\ job[q] \in Calls /\ Started(q, job[q])
    BY <1>2, <1>4 DEF IInv, TypeOK
  <2>2. \A r : <<q, r>> \in held => <<q, r>> \in held'
    BY <2>1 DEF Returns
  <2> QED BY <2>1, <2>2 DEF Started
<1> QED BY <1>2, <1>3, <1>4

LEMMA WriteKeeps ==
    ASSUME IInv, NEW p \in Processes, Write(p)
    PROVE  IInv'
<1>0. MaxDelivered \in Nat \ {0} /\ MaxPosted \in Nat \ {0}
  BY SharedFilesAssumption
<1>1. job[p] # None /\ job[p] \in Calls /\ Started(p, job[p]) /\ Returns(p)
  BY DEF Write, Idle, IInv, TypeOK
<1>2. /\ DOMAIN job' = Processes
      /\ held' \subseteq Processes \X Replies /\ recorded' \subseteq Messages
      /\ \A q \in Processes : job'[q] # None => job'[q] \in Calls /\ Started(q, job[q])'
  BY <1>1, ReturnsKeeps
<1>3. /\ delivered' \in Lists(Replies, MaxDelivered) /\ posted' \in Lists(Messages, MaxPosted)
      /\ threads' \in ThreadMaps /\ forgotten' \subseteq Replies /\ broken' \subseteq Files
  <2> DEFINE c == job[p]
  <2>1. CASE WriteDelivered(p)
    <3>1. c.call \in {"claim", "release"} /\ c.reply \in Replies
          /\ c.read \in Lists(Replies, MaxDelivered)
      BY <2>1, <1>1, CallShapes DEF WriteDelivered
    <3>2. c.call = "claim" => Added(c.read, c.reply, MaxDelivered) \in Lists(Replies, MaxDelivered)
      BY <3>1, <1>0, <1>1, AddedIs DEF Started
    <3>3. c.call = "release" => Without(c.read, c.reply) \in Lists(Replies, MaxDelivered)
      BY <3>1, <1>0, <1>1, WithoutIs DEF Started
    <3>4. delivered' \in Lists(Replies, MaxDelivered)
      BY <2>1, <3>1, <3>2, <3>3 DEF WriteDelivered
    <3>5. Range(c.read) \subseteq Replies
      BY <3>1 DEF Lists, Range
    <3>6. forgotten' \subseteq Replies /\ broken' \subseteq Files
      BY <2>1, <3>5 DEF WriteDelivered, IInv, TypeOK, Files
    <3> QED BY <2>1, <3>4, <3>6 DEF WriteDelivered, IInv, TypeOK
  <2>2. CASE WritePosted(p)
    <3>1. c.call = "post" /\ c.message \in Messages /\ c.read \in Lists(Messages, MaxPosted)
      BY <2>2, <1>1, CallShapes DEF WritePosted
    <3>2. posted' \in Lists(Messages, MaxPosted)
      BY <2>2, <3>1, <1>0, <1>1, AddedIs DEF Started, WritePosted
    <3> QED BY <2>2, <3>2 DEF WritePosted, IInv, TypeOK, Files
  <2>3. CASE WriteThreads(p)
    <3>1. c.key \in Keys /\ c.thread \in Threads /\ c.read \in ThreadMaps
      BY <2>3, <1>1, CallShapes DEF WriteThreads
    <3>2. threads' \in ThreadMaps
      BY <2>3, <3>1 DEF WriteThreads, Assigned, ThreadMaps
    <3> QED BY <2>3, <3>2 DEF WriteThreads, IInv, TypeOK, Files
  <2> QED BY <2>1, <2>2, <2>3 DEF Write
<1> QED BY <1>2, <1>3 DEF IInv, TypeOK

LEMMA WriteFailsKeeps ==
    ASSUME IInv, NEW p \in Processes, WriteFails(p)
    PROVE  IInv'
<1>1. job[p] # None /\ job[p] \in Calls /\ Returns(p)
  BY DEF WriteFails, Idle, IInv, TypeOK
<1>2. job[p].file \in Files
  BY <1>1, CallShapes DEF Files
<1>3. TypeOK'
  BY <1>1, <1>2, ReturnsKeeps DEF WriteFails, IInv, TypeOK, files
<1> QED BY <1>1, <1>3, ReturnsKeeps DEF IInv

LEMMA NextKeeps == IInv /\ [Next]_vars => IInv'
<1> SUFFICES ASSUME IInv, [Next]_vars PROVE IInv'
  OBVIOUS
<1>1. CASE Next
  BY <1>1, DeliversKeeps, RecordsKeeps, WriteKeeps, WriteFailsKeeps DEF Next
<1>2. CASE UNCHANGED vars
  BY <1>2 DEF vars, files, IInv, TypeOK, Started
<1> QED BY <1>1, <1>2

LEMMA AlwaysIInv == Spec => []IInv
<1> QED BY InitHolds, NextKeeps, PTL DEF Spec

(* The files are lists without duplicates within their limits, whatever the *)
(* order of reads and writes.                                              *)
THEOREM FilesTypeCorrect == Spec => []TypeOK
<1>1. IInv => TypeOK
  BY DEF IInv
<1> QED BY <1>1, AlwaysIInv, PTL

-----------------------------------------------------------------------------
(* What the bridge posted is known *)

(* A write of posted.json whose file is the one that was read adds its      *)
(* message, and drops another one only from a full file.                   *)
LEMMA PostedKeeps ==
    ASSUME IInv, OwnPostsKnown, NEW p \in Processes, Write(p), WritePosted(p)
    PROVE  OwnPostsKnown'
<1> DEFINE c == job[p]
<1>0. MaxPosted \in Nat \ {0} /\ posted \in Lists(Messages, MaxPosted)
  BY SharedFilesAssumption DEF IInv, TypeOK
<1>1. c \in Calls /\ Started(p, c) /\ Returns(p)
  BY DEF Write, Idle, IInv, TypeOK
<1>2. c.call = "post" /\ c.message \in Messages /\ c.read \in Lists(Messages, MaxPosted)
      /\ c.message \notin Range(c.read)
  BY <1>1, CallShapes DEF WritePosted, Started
<1>3. posted' = Added(c.read, c.message, MaxPosted) /\ recorded' = recorded \union {c.message}
  BY <1>1, <1>2 DEF WritePosted, Returns
<1>4. CASE "posted" \in broken \/ c.read # posted
  BY <1>4 DEF WritePosted, OwnPostsKnown
<1>5. CASE "posted" \notin broken /\ c.read = posted
  <2>1. CASE Len(posted) = MaxPosted
    BY <2>1, <1>0, <1>2, <1>3, <1>5, AddedIs DEF OwnPostsKnown
  <2>2. CASE Len(posted) # MaxPosted
    <3>1. Len(posted) < MaxPosted
      BY <2>2, <1>0 DEF Lists
    <3>2. Range(posted') = Range(posted) \union {c.message}
      BY <3>1, <1>0, <1>2, <1>3, <1>5, AddedIs
    <3> QED BY <3>2, <2>2, <1>3, <1>5 DEF OwnPostsKnown
  <2> QED BY <2>1, <2>2
<1> QED BY <1>4, <1>5

(* The other calls leave the file and the record of it alone, or break it. *)
LEMMA OthersKeepPosted ==
    ASSUME IInv, OwnPostsKnown, NEW p \in Processes,
           \/ Delivers(p)
           \/ Records(p)
           \/ Write(p) /\ ~WritePosted(p)
           \/ WriteFails(p)
    PROVE  OwnPostsKnown'
<1>1. CASE Delivers(p) \/ Records(p)
  <2>1. posted' = posted /\ recorded' = recorded /\ broken' = broken
    BY <1>1 DEF Delivers, Records, Claim, Release, ReleaseMissing, RecordPosted, RecordThread, Begins, files
  <2> QED BY <2>1 DEF OwnPostsKnown
<1>2. CASE Write(p) /\ ~WritePosted(p)
  <2>1. job[p] \in Calls
    BY <1>2 DEF Write, Idle, IInv, TypeOK
  <2>2. job[p].call # "post"
    BY <1>2, <2>1, CallShapes DEF Write, WriteDelivered, WriteThreads
  <2>3. posted' = posted /\ recorded' = recorded /\ broken \subseteq broken'
    BY <1>2, <2>2 DEF Write, WriteDelivered, WriteThreads, Returns
  <2> QED BY <2>3 DEF OwnPostsKnown
<1>3. CASE WriteFails(p)
  <2>1. job[p] \in Calls
    BY <1>3 DEF WriteFails, Idle, IInv, TypeOK
  <2>2. posted' = posted /\ broken' = broken \union {job[p].file}
    BY <1>3 DEF WriteFails, files
  <2>3. CASE job[p].call = "post"
    BY <2>1, <2>2, <2>3, CallShapes DEF OwnPostsKnown
  <2>4. CASE job[p].call # "post"
    <3>1. recorded' = recorded
      BY <1>3, <2>4 DEF WriteFails, Returns
    <3> QED BY <3>1, <2>2 DEF OwnPostsKnown
  <2> QED BY <2>3, <2>4
<1> QED BY <1>1, <1>2, <1>3

(* However many processes post at once, a message the bridge posted is in   *)
(* posted.json until the file is full or an update of it was lost.         *)
THEOREM OwnPostsAreKnown == Spec => []OwnPostsKnown
<1>1. Init => OwnPostsKnown
  BY DEF Init, OwnPostsKnown, Range
<1>2. IInv /\ OwnPostsKnown /\ [Next]_vars => OwnPostsKnown'
  <2> SUFFICES ASSUME IInv, OwnPostsKnown, [Next]_vars PROVE OwnPostsKnown'
    OBVIOUS
  <2>1. CASE Next
    <3>1. PICK p \in Processes : Delivers(p) \/ Records(p) \/ Write(p) \/ WriteFails(p)
      BY <2>1 DEF Next
    <3> QED BY <3>1, PostedKeeps, OthersKeepPosted
  <2>2. CASE UNCHANGED vars
    BY <2>2 DEF vars, files, OwnPostsKnown
  <2> QED BY <2>1, <2>2
<1> QED BY <1>1, <1>2, AlwaysIInv, PTL DEF Spec

-----------------------------------------------------------------------------
(* The thread of a key *)

(* One step of ThreadsKept. *)
ThreadKept ==
    \A k \in Keys : threads'[k] # threads[k] =>
        \/ "threads" \in broken'
        \/ \E p \in Processes : /\ job[p] # None /\ job[p].call = "thread"
                                /\ job[p].key = k /\ job'[p] = None

LEMMA StepKeepsThreads ==
    ASSUME IInv, Next
    PROVE  ThreadKept
<1>1. PICK p \in Processes : Delivers(p) \/ Records(p) \/ Write(p) \/ WriteFails(p)
  BY DEF Next
<1>2. CASE threads' = threads
  BY <1>2 DEF ThreadKept
<1>3. CASE threads' # threads
  <2>1. ~Delivers(p) /\ ~Records(p) /\ ~WriteFails(p)
    BY <1>3 DEF Delivers, Records, Claim, Release, ReleaseMissing, RecordPosted, RecordThread, Begins,
                WriteFails, files
  <2>2. Write(p) /\ WriteThreads(p)
    BY <1>1, <1>3, <2>1 DEF Write, WriteDelivered, WritePosted
  <2>3. job[p] # None /\ job[p] \in Calls /\ job' = [job EXCEPT ![p] = None] /\ DOMAIN job = Processes
    BY <2>2 DEF Write, Idle, Returns, IInv, TypeOK
  <2>4. job[p].call = "thread" /\ job[p].read \in ThreadMaps
    BY <2>2, <2>3, CallShapes DEF WriteThreads
  <2>5. ASSUME job[p].read = threads, NEW k \in Keys, threads'[k] # threads[k] PROVE job[p].key = k
    BY <2>2, <2>4, <2>5 DEF WriteThreads, Assigned, ThreadMaps
  <2>6. job[p].read # threads => "threads" \in broken'
    BY <2>2 DEF WriteThreads
  <2>7. job'[p] = None
    BY <2>3
  <2> QED BY <2>3, <2>4, <2>5, <2>6, <2>7 DEF ThreadKept
<1> QED BY <1>2, <1>3

(* The thread of a key changes only when a thread of that key is recorded,  *)
(* unless an update of threads.json was lost.                              *)
THEOREM ThreadsAreKept == Spec => ThreadsKept
<1>1. IInv /\ [Next]_vars => [ThreadKept]_vars
  BY StepKeepsThreads
<1>2. [ThreadKept]_vars =>
      [\A k \in Keys : threads'[k] # threads[k] =>
          \/ "threads" \in broken'
          \/ \E p \in Processes : /\ job[p] # None /\ job[p].call = "thread"
                                  /\ job[p].key = k /\ job'[p] = None]_vars
  BY DEF ThreadKept
<1> QED BY <1>1, <1>2, AlwaysIInv, PTL DEF Spec, ThreadsKept

-----------------------------------------------------------------------------
(* delivered.json implements the registry, as long as no update is lost *)

LEMMA RegistryInit == Init => Registry!Init
BY DEF Init, Registry!Init, Range

LEMMA SameCardinality ==
    ASSUME NEW s
    PROVE  Registry!Cardinality(s) = Cardinality(s)
BY DEF Registry!Cardinality, Cardinality

(* The rename of a claim grants it, and forgets only what did not fit. *)
LEMMA ClaimIsGranted ==
    ASSUME IInv, NEW p \in Processes, Write(p), WriteDelivered(p), job[p].call = "claim",
           job[p].read = delivered
    PROVE  Registry!Claim(p, job[p].reply)
<1> DEFINE r == job[p].reply
           gone == Range(delivered) \ Range(delivered')
<1>0. MaxDelivered \in Nat \ {0} /\ delivered \in Lists(Replies, MaxDelivered)
  BY SharedFilesAssumption DEF IInv, TypeOK
<1>1. job[p] \in Calls /\ Started(p, job[p]) /\ Returns(p)
  BY DEF Write, Idle, IInv, TypeOK
<1>2. r \in Replies /\ r \notin Range(delivered)
  BY <1>1, CallShapes DEF Started
<1>3. delivered' = Added(delivered, r, MaxDelivered) /\ forgotten' = forgotten \union gone
      /\ held' = held \union {<<p, r>>} /\ broken' = broken
  BY <1>1 DEF WriteDelivered, Returns
<1>4. r \in Range(delivered') /\ Range(delivered') \subseteq Range(delivered) \union {r}
      /\ (Len(delivered) < MaxDelivered => Range(delivered') = Range(delivered) \union {r})
  BY <1>0, <1>2, <1>3, AddedIs
<1>5. Range(delivered') = (Range(delivered) \ gone) \union {r}
  BY <1>4
<1>6. gone # {} => Cardinality(Range(delivered)) >= MaxDelivered
  <2>1. Len(delivered) \in Nat /\ Len(delivered) <= MaxDelivered
    BY <1>0 DEF Lists
  <2>2. gone # {} => ~(Len(delivered) < MaxDelivered)
    BY <1>4
  <2>3. Cardinality(Range(delivered)) = Len(delivered)
    BY <1>0, FullList
  <2> HIDE DEF gone
  <2> QED BY <2>1, <2>2, <2>3, <1>0
<1>7. gone \in SUBSET Range(delivered)
  OBVIOUS
<1> HIDE DEF gone
<1> QED BY <1>2, <1>3, <1>5, <1>6, <1>7, SameCardinality DEF Registry!Claim

(* The rename of a release gives the claim back. *)
LEMMA ReleaseIsGiven ==
    ASSUME IInv, NEW p \in Processes, Write(p), WriteDelivered(p), job[p].call = "release",
           job[p].read = delivered
    PROVE  Registry!Release(p, job[p].reply)
<1> DEFINE r == job[p].reply
<1>0. MaxDelivered \in Nat \ {0} /\ delivered \in Lists(Replies, MaxDelivered)
  BY SharedFilesAssumption DEF IInv, TypeOK
<1>1. Started(p, job[p]) /\ Returns(p)
  BY DEF Write, Idle, IInv, TypeOK
<1>2. r \in Range(delivered) /\ <<p, r>> \in held
  BY <1>1 DEF Started
<1>3. delivered' = Without(delivered, r) /\ forgotten' = forgotten
      /\ held' = held \ {<<p, r>>} /\ broken' = broken
  BY <1>1 DEF WriteDelivered, Returns
<1>4. Range(delivered') = Range(delivered) \ {r}
  BY <1>0, <1>2, <1>3, WithoutIs
<1> QED BY <1>2, <1>3, <1>4 DEF Registry!Release

(* Every step is one of the registry's, changes nothing it knows, or is the *)
(* loss of an update.                                                      *)
LEMMA RegistryStep ==
    ASSUME IInv, [Next]_vars
    PROVE  [Registry!Next]_Registry!vars
<1>1. CASE UNCHANGED vars
  BY <1>1 DEF vars, files, Registry!vars
<1>2. CASE "delivered" \in broken'
  BY <1>2 DEF Registry!Next, Registry!Lapse
<1>3. CASE Next /\ "delivered" \notin broken'
  <2>1. PICK p \in Processes : Delivers(p) \/ Records(p) \/ Write(p) \/ WriteFails(p)
    BY <1>3 DEF Next
  <2>2. CASE \E r \in Replies : Claim(p, r) \/ Release(p, r)
    BY <2>2 DEF Claim, Release, Begins, files, Registry!vars
  <2>3. CASE \E r \in Replies : ReleaseMissing(p, r)
    <3>1. PICK r \in Replies : ReleaseMissing(p, r)
      BY <2>3
    <3>2. Registry!Release(p, r)
      BY <3>1 DEF ReleaseMissing, files, Registry!Release
    <3> QED BY <3>2 DEF Registry!Next
  <2>4. CASE Records(p)
    BY <2>4 DEF Records, RecordPosted, RecordThread, Begins, files, Registry!vars
  <2>5. CASE WriteFails(p)
    <3>1. job[p] \in Calls
      BY <2>5 DEF WriteFails, Idle, IInv, TypeOK
    <3>2. broken' = broken \union {job[p].file} /\ job[p].call \notin {"claim", "release"}
      BY <2>5, <1>3, <3>1, CallShapes DEF WriteFails
    <3>3. held' = held
      BY <2>5, <3>2 DEF WriteFails, Returns
    <3>4. ("delivered" \notin broken') = ("delivered" \notin broken)
      BY <3>2, <1>3
    <3> QED BY <2>5, <3>3, <3>4 DEF WriteFails, files, Registry!vars
  <2>6. CASE Write(p)
    <3>1. job[p] \in Calls /\ Returns(p)
      BY <2>6 DEF Write, Idle, IInv, TypeOK
    <3>2. CASE WriteDelivered(p)
      <4>1. job[p].read = delivered
        BY <3>2, <1>3 DEF WriteDelivered
      <4>2. (job[p].call = "claim" \/ job[p].call = "release") /\ job[p].reply \in Replies
        BY <3>1, <3>2, CallShapes DEF WriteDelivered
      <4> QED BY <4>1, <4>2, <2>6, <3>2, ClaimIsGranted, ReleaseIsGiven DEF Registry!Next
    <3>3. CASE WritePosted(p) \/ WriteThreads(p)
      <4>1. job[p].call \notin {"claim", "release"}
        BY <3>1, <3>3, CallShapes DEF WritePosted, WriteThreads
      <4>2. held' = held /\ delivered' = delivered /\ forgotten' = forgotten
        BY <3>1, <3>3, <4>1 DEF WritePosted, WriteThreads, Returns
      <4>3. ("delivered" \notin broken') = ("delivered" \notin broken)
        BY <3>3 DEF WritePosted, WriteThreads
      <4> QED BY <4>2, <4>3 DEF Registry!vars
    <3> QED BY <2>6, <3>2, <3>3 DEF Write
  <2> QED BY <2>1, <2>2, <2>3, <2>4, <2>5, <2>6 DEF Delivers
<1> QED BY <1>1, <1>2, <1>3

(* delivered.json implements the registry of AtomicClaim: until the first   *)
(* update is lost, a reply is granted to one process until it is released  *)
(* or a full file forgets it.                                              *)
THEOREM ClaimsRefineRegistry == Spec => ClaimsAreAtomic
<1>1. IInv /\ [Next]_vars => [Registry!Next]_Registry!vars
  BY RegistryStep
<1> QED BY <1>1, RegistryInit, AlwaysIInv, PTL DEF Spec, ClaimsAreAtomic, Registry!Spec

=============================================================================
