------------------------------ MODULE Injector ------------------------------
(***************************************************************************)
(* The ChatInjector of src/src/hosts/vscode/chatInjector.ts with the       *)
(* reveal and the confirmation of chatReveal.ts, and the prompt by which   *)
(* extension.ts asks the user where a stranded reply should go.            *)
(*                                                                         *)
(* VS Code writes a request to the chat that has the focus, whichever that *)
(* is.  A delivery brings the reply's own chat to the front and writes:    *)
(* two steps, with an await in each, between which the user and other      *)
(* deliveries may move the focus.  Deliveries therefore queue; only the    *)
(* confirmation, which reads a transcript, runs beside the queue.          *)
(*                                                                         *)
(* handOver claims a reply before it offers it here, so a reply has one    *)
(* attempt at a time, and none after one that was delivered or held.       *)
(***************************************************************************)
EXTENDS Integers, Sequences

CONSTANTS
    Replies,
    Chats,           \* the chats of the window
    NoChat,          \* no chat is recorded for the session
    Senders,
    Steering,        \* values of "replyTargeting is editorGroup" over time
    Holding,         \* values of "unroutableReplies is hold" over time
    Faults,          \* what may go wrong: "reveal", "stray", "open"
    Acts             \* what the user may do: "focus", "answer"

ASSUME InjectorAssumption ==
    /\ NoChat \notin Chats
    /\ Steering \subseteq BOOLEAN /\ Holding \subseteq BOOLEAN
    /\ Faults \subseteq {"reveal", "stray", "open"} /\ Acts \subseteq {"focus", "answer"}

VARIABLES
    target,        \* the chat recorded for each reply's session
    sender,        \* who wrote each reply
    focus,         \* lastFocusedWidget
    line,          \* the deliveries whose barrier stands, in order
    pc,            \* where the attempt of each reply is
    consumed,      \* replies reported as delivered or held: never offered again
    consented, unverifiable,
    noticing,      \* replies whose unroutable notice is being posted
    offered,       \* consentOffered
    prompts,       \* prompts on the screen
    consenting,    \* replies that deliverHere is writing
    transcript,    \* <<reply, chat>>: requests sent
    auto,          \* history: times a reply was written without being asked
    disturbed      \* history: to be written, and the focus was moved since the reveal

replies == <<target, sender>>
queue == <<line, pc, consumed>>
asking == <<noticing, offered, prompts, consenting, consented>>
history == <<auto, disturbed>>
vars == <<replies, focus, queue, asking, unverifiable, transcript, history>>

(* The steps of an attempt that stand before the barrier is released. *)
InFront == {"reveal", "write", "guess", "warned"}

Init ==
    /\ target \in [Replies -> Chats \cup {NoChat}] /\ sender \in [Replies -> Senders]
    /\ focus \in Chats
    /\ line = <<>> /\ pc = [r \in Replies |-> "away"] /\ consumed = {}
    /\ consented = {} /\ unverifiable = {}
    /\ noticing = {} /\ offered = {} /\ prompts = {} /\ consenting = {}
    /\ transcript = {}
    /\ auto = [r \in Replies |-> 0] /\ disturbed = {}

-----------------------------------------------------------------------------
(* Outcomes *)

(* The attempt ends.  handOver keeps an unroutable reply and tells the     *)
(* thread before it asks the user; what was delivered, held or abandoned   *)
(* may be asked about again, but a prompt on the screen stays there.       *)
Settle(r, outcome) ==
    /\ pc' = [pc EXCEPT ![r] = "away"]
    /\ consumed' = IF outcome \in {"delivered", "held"} THEN consumed \cup {r} ELSE consumed
    /\ noticing' = IF outcome = "unroutable" THEN noticing \cup {r} ELSE noticing
    /\ offered' = IF outcome \in {"delivered", "held", "abandoned"} THEN offered \ {r} ELSE offered
    /\ UNCHANGED <<prompts, consenting, consented>>

(* finally: an attempt that ends before the confirmation gives its place   *)
(* in the queue up.                                                        *)
Leave(r, outcome) == Settle(r, outcome) /\ line' = Tail(line)

(* inject: handOver has claimed the reply. *)
Offer(r) ==
    /\ pc[r] = "away" /\ r \notin consumed
    /\ pc' = [pc EXCEPT ![r] = "queued"]
    /\ line' = Append(line, r)
    /\ UNCHANGED <<replies, focus, consumed, asking, unverifiable, transcript, history>>

-----------------------------------------------------------------------------
(* decide *)

(* Mutant: nobody waits for the delivery before. *)
TurnAtOnce(r) == pc[r] = "queued"

(* The barrier of the delivery before has been released. *)
Turn(r) == pc[r] = "queued" /\ line # <<>> /\ Head(line) = r

(* The user has chosen a destination already. *)
AlreadyConsented(r) ==
    /\ Turn(r) /\ r \in consented
    /\ Leave(r, "delivered")
    /\ UNCHANGED <<replies, focus, unverifiable, transcript, history>>

(* There is no chat to aim at, or it cannot be steered to, or an earlier   *)
(* attempt was given up.  The settings are read at every decision.         *)
Refuse(r) ==
    /\ Turn(r) /\ r \notin consented
    /\ \/ target[r] = NoChat /\ TRUE \in Holding /\ Leave(r, "unroutable")
       \/ target[r] # NoChat /\ r \in unverifiable /\ Leave(r, "abandoned")
       \/ target[r] # NoChat /\ r \notin unverifiable /\ FALSE \in Steering
          /\ Leave(r, "unroutable")
    /\ UNCHANGED <<replies, focus, unverifiable, transcript, history>>

(* The steps that await VS Code: a reveal, or a write to the chat in front *)
(* of the user.                                                            *)
Begin(r) ==
    /\ Turn(r) /\ r \notin consented
    /\ \/ /\ target[r] # NoChat /\ r \notin unverifiable /\ TRUE \in Steering
          /\ pc' = [pc EXCEPT ![r] = "reveal"]
       \/ /\ target[r] = NoChat /\ FALSE \in Holding
          /\ pc' = [pc EXCEPT ![r] = "guess"]
    /\ UNCHANGED <<replies, focus, line, consumed, asking, unverifiable, transcript, history>>

-----------------------------------------------------------------------------
(* revealAndWrite *)

(* No chat editor came to the front in time. *)
RevealFails(r) ==
    /\ "reveal" \in Faults /\ pc[r] = "reveal"
    /\ focus' \in {focus, target[r]}
    /\ Leave(r, "unroutable")
    /\ UNCHANGED <<replies, unverifiable, transcript, history>>

(* A chat editor is in front.  Its tab does not say which chat it is, and  *)
(* moving the focus into it may have failed.                               *)
Revealed(r) ==
    /\ pc[r] = "reveal"
    /\ pc' = [pc EXCEPT ![r] = "write"]
    /\ \E c \in Chats :
         /\ c = target[r] \/ "stray" \in Faults
         /\ focus' = c
         /\ disturbed' = IF c = target[r] THEN disturbed ELSE disturbed \cup {r}
    /\ UNCHANGED <<replies, line, consumed, asking, unverifiable, transcript, auto>>

(* Mutant: the queue waits for the confirmation. *)
WrittenInLine(r) ==
    /\ pc[r] = "write"
    /\ transcript' = transcript \cup {<<r, focus>>}
    /\ auto' = [auto EXCEPT ![r] = @ + 1] /\ disturbed' = disturbed \ {r}
    /\ pc' = [pc EXCEPT ![r] = "confirm"]
    /\ UNCHANGED <<replies, focus, line, consumed, asking, unverifiable>>

(* The request went to the chat that had the focus, and the next delivery  *)
(* may begin.                                                              *)
Written(r) ==
    /\ pc[r] = "write"
    /\ transcript' = transcript \cup {<<r, focus>>}
    /\ auto' = [auto EXCEPT ![r] = @ + 1] /\ disturbed' = disturbed \ {r}
    /\ pc' = [pc EXCEPT ![r] = "confirm"]
    /\ line' = Tail(line)
    /\ UNCHANGED <<replies, focus, consumed, asking, unverifiable>>

(* write in mode guessed: sent, or left in the input as a draft. *)
Guessed(r) ==
    /\ pc[r] = "guess"
    /\ auto' = [auto EXCEPT ![r] = @ + 1]
    /\ \/ transcript' = transcript \cup {<<r, focus>>} /\ Leave(r, "delivered")
       \/ UNCHANGED transcript /\ Leave(r, "held")
    /\ UNCHANGED <<replies, focus, unverifiable, disturbed>>

(* The chat could not be opened: fallback copies the text and waits for    *)
(* the user to close a warning, with the barrier still up.                 *)
WriteFails(r) ==
    /\ "open" \in Faults /\ pc[r] \in {"write", "guess"}
    /\ pc' = [pc EXCEPT ![r] = "warned"] /\ disturbed' = disturbed \ {r}
    /\ UNCHANGED <<replies, focus, line, consumed, asking, unverifiable, transcript, auto>>

WarningClosed(r) ==
    /\ pc[r] = "warned"
    /\ Leave(r, "failed")
    /\ UNCHANGED <<replies, focus, unverifiable, transcript, history>>

(* Mutants: the reply may be tried again; the chat is given up instead.    *)
TryAgain(r) == UNCHANGED unverifiable
GiveUpChat(r) == unverifiable' = unverifiable \cup {target[r]}

GiveUp(r) == unverifiable' = unverifiable \cup {r}

(* deliveryMarker names the session, here its chat, and the sender. *)
Marker(r) == <<target[r], sender[r]>>

(* confirmLandedIn finds the marker in the transcript of the reply's chat, *)
(* or gives up: the transcript may be written late.                        *)
Confirmed(r) ==
    /\ pc[r] = "confirm"
    /\ \/ /\ \E q \in Replies : <<q, target[r]>> \in transcript /\ Marker(q) = Marker(r)
          /\ Settle(r, "delivered")
          /\ UNCHANGED unverifiable
       \/ GiveUp(r) /\ Settle(r, "unroutable")
    /\ UNCHANGED <<replies, focus, line, transcript, history>>

-----------------------------------------------------------------------------
(* The user *)

UserFocuses(c) ==
    /\ "focus" \in Acts
    /\ focus' = c
    /\ disturbed' = disturbed \cup {r \in Replies : pc[r] = "write"}
    /\ UNCHANGED <<replies, queue, asking, unverifiable, transcript, auto>>

(* offerConsent, once the thread has been told *)
OfferConsent(r) ==
    /\ r \in noticing
    /\ noticing' = noticing \ {r}
    /\ offered' = offered \cup {r}
    /\ prompts' = IF r \in offered THEN prompts ELSE prompts \cup {r}
    /\ UNCHANGED <<replies, focus, queue, consenting, consented, unverifiable, transcript, history>>

(* The prompt is answered: copied or closed, or deliverHere begins. *)
Answer(r) ==
    /\ "answer" \in Acts /\ r \in prompts
    /\ prompts' = prompts \ {r}
    /\ \/ UNCHANGED <<consented, consenting>>
       \/ consented' = consented \cup {r} /\ consenting' = consenting \cup {r}
    /\ UNCHANGED <<replies, focus, queue, noticing, offered, unverifiable, transcript, history>>

DeliveredHere(r) ==
    /\ r \in consenting
    /\ consenting' = consenting \ {r}
    /\ \/ /\ transcript' \in {transcript, transcript \cup {<<r, focus>>}}
          /\ UNCHANGED consented
       \/ /\ "open" \in Faults
          /\ consented' = consented \ {r}
          /\ UNCHANGED transcript
    /\ UNCHANGED <<replies, focus, queue, noticing, offered, prompts, unverifiable, history>>

-----------------------------------------------------------------------------
Decides(r) == AlreadyConsented(r) \/ Refuse(r) \/ Begin(r)
RevealEnds(r) == RevealFails(r) \/ Revealed(r)
WriteEnds(r) == Written(r) \/ Guessed(r) \/ WriteFails(r)

Next ==
    \/ \E r \in Replies :
         \/ Offer(r) \/ Decides(r) \/ RevealEnds(r) \/ WriteEnds(r)
         \/ WarningClosed(r) \/ Confirmed(r)
         \/ OfferConsent(r) \/ Answer(r) \/ DeliveredHere(r)
    \/ \E c \in Chats : UserFocuses(c)

Spec == Init /\ [][Next]_vars

(* VS Code's commands end, and the user closes the warning that a failed   *)
(* write shows.  Nothing else is asked of the user, nor of a confirmation. *)
Fairness ==
    \A r \in Replies :
        /\ WF_vars(Decides(r)) /\ WF_vars(RevealEnds(r)) /\ WF_vars(WriteEnds(r))
        /\ WF_vars(WarningClosed(r))

FairSpec == Spec /\ Fairness

-----------------------------------------------------------------------------
(* Properties *)

TypeOK ==
    /\ target \in [Replies -> Chats \cup {NoChat}] /\ sender \in [Replies -> Senders]
    /\ focus \in Chats
    /\ line \in Seq(Replies)
    /\ pc \in [Replies -> InFront \cup {"away", "queued", "confirm"}]
    /\ consumed \subseteq Replies
    /\ consented \subseteq Replies /\ unverifiable \subseteq Replies
    /\ noticing \subseteq Replies /\ offered \subseteq Replies
    /\ prompts \subseteq Replies /\ consenting \subseteq Replies
    /\ transcript \subseteq Replies \X Chats
    /\ auto \in [Replies -> Nat] /\ disturbed \subseteq Replies

(* Two deliveries never stand between their reveal and their write at the  *)
(* same time, or the later reveal would redirect the earlier write.        *)
OneInFront == \A q, r \in Replies : pc[q] \in InFront /\ pc[r] \in InFront => q = r

(* A write waiting to be made goes to the reply's own chat, unless the     *)
(* user or VS Code moved the focus after the reveal.  No other delivery,   *)
(* queued, confirming or consented, can misdirect it.                      *)
AimedAtOwnChat ==
    \A r \in Replies : pc[r] = "write" => focus = target[r] \/ r \in disturbed

(* However often a reply is offered again, it is written once at most      *)
(* without the user's asking: what was written and not confirmed is given  *)
(* up, what failed was not written.                                        *)
WrittenOnce == \A r \in Replies : auto[r] <= 1

(* A slow or endless confirmation never holds up the deliveries behind it: *)
(* the barrier falls after the write, or in finally on every other path.   *)
QueueFlows == \A r \in Replies : pc[r] = "queued" ~> pc[r] # "queued"

(* A reply reported as delivered to a known chat is in that chat's         *)
(* transcript, or the user chose where it went.                            *)
DeliveredIsProved ==
    \A r \in Replies :
        r \in consumed /\ target[r] # NoChat
        => <<r, target[r]>> \in transcript \/ r \in consented
=============================================================================
