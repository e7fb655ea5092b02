----------------------------- MODULE AtomicClaim -----------------------------
(***************************************************************************)
(* What delivered.json promises to the processes that share it (the        *)
(* interface DeliveredRepliesRegistry of infrastructure/                   *)
(* deliveredReplies.ts): a reply that is claimed is granted to nobody else *)
(* until its holder releases it or a full registry has forgotten it.       *)
(*                                                                         *)
(* The promise ends with the first update that is lost; the file gives no  *)
(* other one.                                                              *)
(***************************************************************************)
EXTENDS Naturals, FiniteSets

CONSTANTS
    Processes,   \* windows and servers that share the file
    Replies,
    Capacity     \* how many claims are remembered

VARIABLES
    book,        \* the replies that are claimed
    held,        \* pairs of a process and a reply it was granted
    forgotten,   \* replies whose claim a full registry dropped
    reliable     \* no update has been lost

vars == <<book, held, forgotten, reliable>>

Init == book = {} /\ held = {} /\ forgotten = {} /\ reliable = TRUE

Claim(p, r) ==
    /\ r \notin book
    /\ \E gone \in SUBSET book :
        /\ gone # {} => Cardinality(book) >= Capacity
        /\ book' = (book \ gone) \union {r}
        /\ forgotten' = forgotten \union gone
    /\ held' = held \union {<<p, r>>}
    /\ UNCHANGED reliable

Release(p, r) ==
    /\ <<p, r>> \in held
    /\ book' = book \ {r}
    /\ held' = held \ {<<p, r>>}
    /\ UNCHANGED <<forgotten, reliable>>

Lapse == ~reliable'

Next == Lapse \/ \E p \in Processes, r \in Replies : Claim(p, r) \/ Release(p, r)

Spec == Init /\ [][Next]_vars

=============================================================================
