----------------------------- MODULE SharedFiles -----------------------------
(***************************************************************************)
(* The small JSON files that the windows and the MCP servers share:        *)
(* delivered.json (deliveredReplies.ts), posted.json (postedMessages.ts)   *)
(* and threads.json (threadRegistry.ts).                                   *)
(*                                                                         *)
(* Every update reads the file, changes what it read and renames a new     *)
(* file into place.  A call is synchronous, so a process has one at a      *)
(* time; nothing keeps another process from writing between the read and   *)
(* the rename.                                                             *)
(***************************************************************************)
EXTENDS Naturals, Sequences, FiniteSets, Functions

CONSTANTS
    Processes,
    Replies,        \* replies to claim
    Messages,       \* messages the bridge posts
    Keys, Threads,  \* session keys and the threads they are given
    MaxDelivered,   \* MAX_ENTRIES of delivered.json
    MaxPosted,      \* MAX_ENTRIES of posted.json
    None            \* no call, no thread

ASSUME SharedFilesAssumption ==
    /\ MaxDelivered \in Nat \ {0} /\ MaxPosted \in Nat \ {0}
    /\ None \notin Threads

VARIABLES
    delivered,   \* delivered.json, oldest entry first
    posted,      \* posted.json, oldest entry first
    threads,     \* threads.json
    job,         \* the call each process is in: what it read, and has yet to write
    held,        \* the claims that were granted and not released
    recorded,    \* messages whose record() has returned
    forgotten,   \* history: replies whose claim a full file dropped
    broken       \* history: files an update of which was lost, or never written

files == <<delivered, posted, threads>>
vars == <<files, job, held, recorded, forgotten, broken>>

Files == {"delivered", "posted", "threads"}

Lists(S, max) == {s \in Seq(S) : Len(s) <= max /\ \A i, j \in DOMAIN s : s[i] = s[j] => i = j}
ThreadMaps == [Keys -> Threads \union {None}]

\* Mutants: the cap is left out; the file is written without what was in it.
Unbounded(s, max) == s
OnlyMine(read, entry, max) == <<entry>>

\* slice(-MAX_ENTRIES)
Bounded(s, max) == IF Len(s) <= max THEN s ELSE SubSeq(s, Len(s) - max + 1, Len(s))

Added(read, entry, max) == Bounded(Append(read, entry), max)

\* filter(): the entry is there once.
Position(s, entry) == CHOOSE i \in DOMAIN s : s[i] = entry

Without(read, entry) ==
    [i \in 1 .. Len(read) - 1 |-> IF i < Position(read, entry) THEN read[i] ELSE read[i + 1]]

Init ==
    /\ delivered = <<>> /\ posted = <<>> /\ threads = [k \in Keys |-> None]
    /\ job = [p \in Processes |-> None]
    /\ held = {} /\ recorded = {} /\ forgotten = {} /\ broken = {}

Idle(p) == job[p] = None

\* A call begins: it has read the file, and will write.
Begins(p, call) ==
    /\ Idle(p)
    /\ job' = [job EXCEPT ![p] = call]
    /\ UNCHANGED <<files, recorded, forgotten, broken>>

(***************************************************************************)
(* claim() and release() of a reply.  A claim of an id that is in the file *)
(* is refused and changes nothing.                                         *)
(***************************************************************************)
ClaimCall(r) == [call |-> "claim", file |-> "delivered", reply |-> r, read |-> delivered]

\* Mutant: the id is not looked for.
ClaimUnread(p, r) == Begins(p, ClaimCall(r)) /\ UNCHANGED held

Claim(p, r) ==
    /\ r \notin Range(delivered)
    /\ Begins(p, ClaimCall(r))
    /\ UNCHANGED held

Release(p, r) ==
    /\ <<p, r>> \in held
    /\ r \in Range(delivered)
    /\ Begins(p, [call |-> "release", file |-> "delivered", reply |-> r, read |-> delivered])
    /\ UNCHANGED held

\* The id has left the file already: there is nothing to write.
ReleaseMissing(p, r) ==
    /\ <<p, r>> \in held
    /\ r \notin Range(delivered)
    /\ Idle(p)
    /\ held' = held \ {<<p, r>>}
    /\ UNCHANGED <<files, job, recorded, forgotten, broken>>

(***************************************************************************)
(* record() of a message the bridge posted, and of the thread of a key.    *)
(***************************************************************************)
RecordPosted(p, m) ==
    /\ m \notin Range(posted)
    /\ Begins(p, [call |-> "post", file |-> "posted", message |-> m, read |-> posted])
    /\ UNCHANGED held

RecordThread(p, k, t) ==
    /\ threads[k] # t
    /\ Begins(p, [call |-> "thread", file |-> "threads", key |-> k, thread |-> t, read |-> threads])
    /\ UNCHANGED held

(***************************************************************************)
(* The rename.  A write that fails is swallowed, and the call returns what *)
(* it would have returned.                                                 *)
(***************************************************************************)
Returns(p) ==
    LET call == job[p]
    IN  /\ job' = [job EXCEPT ![p] = None]
        /\ held' = CASE call.call = "claim" -> held \union {<<p, call.reply>>}
                     [] call.call = "release" -> held \ {<<p, call.reply>>}
                     [] OTHER -> held
        /\ recorded' = IF call.call = "post" THEN recorded \union {call.message} ELSE recorded

\* Mutant: a thread is written without those of other keys.
OnlyThis(read, k, t) == [[key \in Keys |-> None] EXCEPT ![k] = t]

Assigned(read, k, t) == [read EXCEPT ![k] = t]

WriteDelivered(p) ==
    LET call == job[p]
        content == IF call.call = "claim" THEN Added(call.read, call.reply, MaxDelivered)
                   ELSE Without(call.read, call.reply)
    IN  /\ call.file = "delivered"
        /\ delivered' = content
        /\ forgotten' = IF call.call = "claim"
                        THEN forgotten \union (Range(call.read) \ Range(content)) ELSE forgotten
        /\ broken' = IF call.read = delivered THEN broken ELSE broken \union {"delivered"}
        /\ UNCHANGED <<posted, threads>>

WritePosted(p) ==
    /\ job[p].file = "posted"
    /\ posted' = Added(job[p].read, job[p].message, MaxPosted)
    /\ broken' = IF job[p].read = posted THEN broken ELSE broken \union {"posted"}
    /\ UNCHANGED <<delivered, threads, forgotten>>

WriteThreads(p) ==
    /\ job[p].file = "threads"
    /\ threads' = Assigned(job[p].read, job[p].key, job[p].thread)
    /\ broken' = IF job[p].read = threads THEN broken ELSE broken \union {"threads"}
    /\ UNCHANGED <<delivered, posted, forgotten>>

Write(p) ==
    /\ ~Idle(p)
    /\ WriteDelivered(p) \/ WritePosted(p) \/ WriteThreads(p)
    /\ Returns(p)

WriteFails(p) ==
    /\ ~Idle(p)
    /\ broken' = broken \union {job[p].file}
    /\ Returns(p)
    /\ UNCHANGED <<files, forgotten>>

(***************************************************************************)
(* The specification                                                       *)
(***************************************************************************)
Delivers(p) == \E r \in Replies : Claim(p, r) \/ Release(p, r) \/ ReleaseMissing(p, r)

Records(p) ==
    \/ \E m \in Messages : RecordPosted(p, m)
    \/ \E k \in Keys, t \in Threads : RecordThread(p, k, t)

Next == \E p \in Processes : Delivers(p) \/ Records(p) \/ Write(p) \/ WriteFails(p)

Spec == Init /\ [][Next]_vars

(***************************************************************************)
(* Properties                                                              *)
(***************************************************************************)
Calls ==
    [call : {"claim", "release"}, file : {"delivered"}, reply : Replies, read : Lists(Replies, MaxDelivered)]
    \union [call : {"post"}, file : {"posted"}, message : Messages, read : Lists(Messages, MaxPosted)]
    \union [call : {"thread"}, file : {"threads"}, key : Keys, thread : Threads, read : ThreadMaps]

\* The files hold what their readers expect, without duplicates and within
\* their limits, and so does what a call has read.  About every write.
TypeOK ==
    /\ delivered \in Lists(Replies, MaxDelivered) /\ posted \in Lists(Messages, MaxPosted) /\ threads \in ThreadMaps
    /\ \A p \in Processes : job[p] # None => job[p] \in Calls
    /\ DOMAIN job = Processes
    /\ held \subseteq Processes \X Replies
    /\ recorded \subseteq Messages /\ forgotten \subseteq Replies /\ broken \subseteq Files

\* The file implements the registry its interface promises, as long as no
\* update is lost: a reply that is claimed is granted to nobody else until it
\* is released or forgotten.  About claim() and release() of delivered.json.
Registry == INSTANCE AtomicClaim WITH
    Capacity <- MaxDelivered, book <- Range(delivered), reliable <- "delivered" \notin broken

ClaimsAreAtomic == Registry!Spec

\* A message the bridge posted is known to every process until the file is
\* full, unless an update of it was lost: it is not read as a user's reply.
\* About record() of posted.json.
OwnPostsKnown ==
    "posted" \in broken \/ Len(posted) = MaxPosted \/ recorded \subseteq Range(posted)

\* The thread of a key changes only when a thread of that key is recorded,
\* unless the update of another process is lost.  About record() of
\* threads.json.
ThreadsKept ==
    [][\A k \in Keys : threads'[k] # threads[k] =>
          \/ "threads" \in broken'
          \/ \E p \in Processes : /\ job[p] # None /\ job[p].call = "thread"
                                  /\ job[p].key = k /\ job'[p] = None]_vars

=============================================================================
