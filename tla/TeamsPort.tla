------------------------------ MODULE TeamsPort ------------------------------
(***************************************************************************)
(* What the application is promised by a transport that reaches Teams (the *)
(* interface ThreadedTransport of application/ports/index.ts).             *)
(*                                                                         *)
(* A call ends well or badly.  A post that ends well has made its message; *)
(* one that ends badly may have made it, and may make it still, but never  *)
(* makes it twice.  A fetch returns, of the messages the bridge posted,    *)
(* none whose post has ended well, unless the transport has no record of   *)
(* it: then it cannot tell the message from one of the user.               *)
(***************************************************************************)
EXTENDS Naturals

CONSTANTS
    Posts,       \* calls of createThread and postToThread, each made once
    Fetches      \* calls of fetchReplies, each made once

VARIABLES
    state,       \* of each call: "idle", "calling", "ok", "failed"
    made,        \* how many messages each post has made
    unrecorded,  \* posts that ended well, and the transport does not know what they made
    read         \* posts whose message was returned by a fetch

vars == <<state, made, unrecorded, read>>

Calls == Posts \union Fetches

Init ==
    /\ state = [k \in Calls |-> "idle"]
    /\ made = [k \in Posts |-> 0]
    /\ unrecorded = {} /\ read = {}

Turns(k, from, to) == state[k] = from /\ state' = [state EXCEPT ![k] = to]

Begin(k) == Turns(k, "idle", "calling") /\ UNCHANGED <<made, unrecorded, read>>

\* The message appears: while the call lasts, or after it has failed.
Make(k) ==
    /\ state[k] # "idle"
    /\ made[k] = 0
    /\ made' = [made EXCEPT ![k] = 1]
    /\ UNCHANGED <<state, unrecorded, read>>

PostSucceeds(k) ==
    /\ Turns(k, "calling", "ok") /\ made[k] = 1
    /\ unrecorded' \in {unrecorded, unrecorded \union {k}}
    /\ UNCHANGED <<made, read>>

FetchSucceeds(k) ==
    /\ Turns(k, "calling", "ok")
    /\ \E seen \in SUBSET {j \in Posts : made[j] = 1 /\ (state[j] # "ok" \/ j \in unrecorded)} :
          read' = read \union seen
    /\ UNCHANGED <<made, unrecorded>>

Fail(k) == Turns(k, "calling", "failed") /\ UNCHANGED <<made, unrecorded, read>>

Next ==
    \/ \E k \in Calls : Begin(k) \/ Fail(k)
    \/ \E k \in Posts : Make(k) \/ PostSucceeds(k)
    \/ \E k \in Fetches : FetchSucceeds(k)

Spec == Init /\ [][Next]_vars

=============================================================================
