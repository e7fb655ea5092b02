--------------------------- MODULE InjectorProofs ---------------------------
(***************************************************************************)
(* Theorems about Injector, for any number of replies and chats and any    *)
(* behaviour of the user and of VS Code that the module allows.            *)
(***************************************************************************)
EXTENDS Injector, TLAPS

-----------------------------------------------------------------------------
(* Types *)

(* The promise chain is a sequence of replies. *)
LEMMA LineType ==
    ASSUME NEW s \in Seq(Replies), NEW r \in Replies
    PROVE  /\ Append(s, r) \in Seq(Replies)
           /\ Append(s, r) # <<>>
           /\ Head(Append(s, r)) = IF s = <<>> THEN r ELSE Head(s)
           /\ s # <<>> => Tail(s) \in Seq(Replies)
<1>1. Append(s, r) \in Seq(Replies) /\ Append(s, r) # <<>>
  <2>1. Append(s, r) \in Seq(Replies) /\ Len(s) \in Nat /\ Len(Append(s, r)) = Len(s) + 1
    OBVIOUS
  <2>2. Append(s, r) # <<>>
    <3> SUFFICES ASSUME Append(s, r) = <<>> PROVE FALSE
      OBVIOUS
    <3>1. Len(Append(s, r)) = 0
      OBVIOUS
    <3> QED BY <2>1, <3>1
  <2> QED BY <2>1, <2>2
<1>2. Head(Append(s, r)) = IF s = <<>> THEN r ELSE Head(s)
  OBVIOUS
<1>3. s # <<>> => Tail(s) \in Seq(Replies)
  OBVIOUS
<1> QED BY <1>1, <1>2, <1>3

(* A delivery in front stands first in the line: the one whose barrier     *)
(* everybody else waits for.                                               *)
FrontIsHead == \A r \in Replies : pc[r] \in InFront => line # <<>> /\ Head(line) = r

(* Only a reply whose chat is recorded is steered. *)
Routed == \A r \in Replies : pc[r] \in {"reveal", "write", "confirm"} => target[r] # NoChat

LEMMA SettleType ==
    ASSUME TypeOK, NEW r \in Replies, NEW outcome, Settle(r, outcome)
    PROVE  /\ pc' \in [Replies -> InFront \cup {"away", "queued", "confirm"}]
           /\ consumed' \subseteq Replies
           /\ noticing' \subseteq Replies /\ offered' \subseteq Replies
           /\ prompts' \subseteq Replies /\ consenting' \subseteq Replies
           /\ consented' \subseteq Replies
BY DEF TypeOK, Settle

(* An attempt that leaves the line was in front or at its turn. *)
LEMMA LeaveType ==
    ASSUME TypeOK, NEW r \in Replies, NEW outcome, Leave(r, outcome), line # <<>>
    PROVE  /\ pc' \in [Replies -> InFront \cup {"away", "queued", "confirm"}]
           /\ line' \in Seq(Replies) /\ consumed' \subseteq Replies
           /\ noticing' \subseteq Replies /\ offered' \subseteq Replies
           /\ prompts' \subseteq Replies /\ consenting' \subseteq Replies
           /\ consented' \subseteq Replies
<1>1. line' \in Seq(Replies)
  BY LineType DEF TypeOK, Leave
<1> QED BY <1>1, SettleType DEF Leave

LEMMA NextType ==
    ASSUME TypeOK, FrontIsHead, Routed, [Next]_vars
    PROVE  TypeOK'
<1> USE DEF InFront
<1>1. ASSUME NEW r \in Replies, Offer(r) PROVE TypeOK'
  BY <1>1, LineType DEF Offer, TypeOK, replies, asking, history
<1>2. ASSUME NEW r \in Replies, AlreadyConsented(r) PROVE TypeOK'
  BY <1>2, LeaveType DEF AlreadyConsented, Turn, TypeOK, replies, history
<1>3. ASSUME NEW r \in Replies, Refuse(r) PROVE TypeOK'
  <2>1. PICK outcome : Leave(r, outcome) /\ line # <<>>
    BY <1>3 DEF Refuse, Turn
  <2> QED BY <1>3, <2>1, LeaveType DEF Refuse, TypeOK, replies, history
<1>4. ASSUME NEW r \in Replies, Begin(r) PROVE TypeOK'
  BY <1>4 DEF Begin, TypeOK, replies, asking, history
<1>5. ASSUME NEW r \in Replies, RevealFails(r) PROVE TypeOK'
  <2>1. line # <<>> /\ Leave(r, "unroutable")
    BY <1>5 DEF RevealFails, FrontIsHead
  <2>2. focus' \in Chats
    BY <1>5 DEF RevealFails, TypeOK, Routed
  <2> QED BY <1>5, <2>1, <2>2, LeaveType DEF RevealFails, TypeOK, replies, history
<1>6. ASSUME NEW r \in Replies, Revealed(r) PROVE TypeOK'
  BY <1>6 DEF Revealed, TypeOK, replies, asking
<1>7. ASSUME NEW r \in Replies, Written(r) PROVE TypeOK'
  <2>1. line' \in Seq(Replies)
    BY <1>7, LineType DEF Written, FrontIsHead, TypeOK
  <2> QED BY <1>7, <2>1 DEF Written, TypeOK, replies, asking
<1>8. ASSUME NEW r \in Replies, Guessed(r) PROVE TypeOK'
  <2>1. PICK outcome : Leave(r, outcome) /\ line # <<>>
    BY <1>8 DEF Guessed, FrontIsHead
  <2>2. transcript' \subseteq Replies \X Chats /\ auto' \in [Replies -> Nat]
    BY <1>8 DEF Guessed, TypeOK
  <2> QED BY <1>8, <2>1, <2>2, LeaveType DEF Guessed, TypeOK, replies
<1>9. ASSUME NEW r \in Replies, WriteFails(r) PROVE TypeOK'
  BY <1>9 DEF WriteFails, TypeOK, replies, asking
<1>10. ASSUME NEW r \in Replies, WarningClosed(r) PROVE TypeOK'
  <2>1. line # <<>> /\ Leave(r, "failed")
    BY <1>10 DEF WarningClosed, FrontIsHead
  <2> QED BY <1>10, <2>1, LeaveType DEF WarningClosed, TypeOK, replies, history
<1>11. ASSUME NEW r \in Replies, Confirmed(r) PROVE TypeOK'
  <2>1. PICK outcome : Settle(r, outcome)
    BY <1>11 DEF Confirmed
  <2>2. unverifiable' \subseteq Replies
    BY <1>11 DEF Confirmed, GiveUp, TypeOK
  <2> QED BY <1>11, <2>1, <2>2, SettleType DEF Confirmed, TypeOK, replies, history
<1>12. ASSUME NEW r \in Replies, OfferConsent(r) PROVE TypeOK'
  BY <1>12 DEF OfferConsent, TypeOK, replies, queue, history
<1>13. ASSUME NEW r \in Replies, Answer(r) PROVE TypeOK'
  BY <1>13 DEF Answer, TypeOK, replies, queue, history
<1>14. ASSUME NEW r \in Replies, DeliveredHere(r) PROVE TypeOK'
  BY <1>14 DEF DeliveredHere, TypeOK, replies, queue, history
<1>15. ASSUME NEW c \in Chats, UserFocuses(c) PROVE TypeOK'
  BY <1>15 DEF UserFocuses, TypeOK, replies, queue, asking
<1>16. CASE UNCHANGED vars
  BY <1>16 DEF vars, TypeOK, replies, queue, asking, history
<1> QED BY <1>1, <1>2, <1>3, <1>4, <1>5, <1>6, <1>7, <1>8, <1>9, <1>10, <1>11, <1>12,
           <1>13, <1>14, <1>15, <1>16 DEF Next, Decides, RevealEnds, WriteEnds

-----------------------------------------------------------------------------
(* The queue *)

(* Nobody comes to the front while the line only grows, or its head moves  *)
(* on.                                                                     *)
LEMMA FrontStays ==
    ASSUME FrontIsHead, UNCHANGED line,
           \A q \in Replies : pc'[q] \in InFront => pc[q] \in InFront \/ Turn(q)
    PROVE  FrontIsHead'
BY DEF FrontIsHead, Turn

(* When the head leaves the line, or goes on to confirm, the front is      *)
(* empty until the next one's turn.                                        *)
LEMMA FrontEmpty ==
    ASSUME TypeOK, FrontIsHead, NEW r \in Replies, pc[r] \in InFront \/ Turn(r),
           NEW to \in {"away", "confirm"}, pc' = [pc EXCEPT ![r] = to]
    PROVE  FrontIsHead'
<1>1. \A q \in Replies : pc[q] \in InFront => q = r
  BY DEF FrontIsHead, Turn
<1>2. \A q \in Replies : pc'[q] \notin InFront
  BY <1>1 DEF TypeOK, InFront
<1> QED BY <1>2 DEF FrontIsHead

LEMMA FrontNext ==
    ASSUME TypeOK, FrontIsHead, [Next]_vars
    PROVE  FrontIsHead'
<1>1. ASSUME NEW r \in Replies, Offer(r) PROVE FrontIsHead'
  <2> SUFFICES ASSUME NEW q \in Replies, pc'[q] \in InFront
               PROVE  line' # <<>> /\ Head(line') = q
    BY DEF FrontIsHead
  <2>1. pc[q] \in InFront
    BY <1>1 DEF Offer, TypeOK, InFront
  <2> QED BY <1>1, <2>1, LineType DEF Offer, TypeOK, FrontIsHead
<1>2. ASSUME NEW r \in Replies, NEW outcome, Leave(r, outcome), pc[r] \in InFront \/ Turn(r)
      PROVE  FrontIsHead'
  BY <1>2, FrontEmpty DEF Leave, Settle
<1>3. ASSUME NEW r \in Replies, Decides(r) PROVE FrontIsHead'
  <2>1. CASE AlreadyConsented(r) \/ Refuse(r)
    BY <1>2, <2>1 DEF AlreadyConsented, Refuse
  <2>2. CASE Begin(r)
    <3>1. \A q \in Replies : pc'[q] \in InFront => pc[q] \in InFront \/ Turn(q)
      BY <2>2 DEF Begin, TypeOK
    <3> QED BY <2>2, <3>1, FrontStays DEF Begin
  <2> QED BY <1>3, <2>1, <2>2 DEF Decides
<1>4. ASSUME NEW r \in Replies, RevealEnds(r) PROVE FrontIsHead'
  <2>1. CASE RevealFails(r)
    BY <1>2, <2>1 DEF RevealFails, InFront
  <2>2. CASE Revealed(r)
    BY <2>2, FrontStays DEF Revealed, TypeOK, InFront
  <2> QED BY <1>4, <2>1, <2>2 DEF RevealEnds
<1>5. ASSUME NEW r \in Replies, WriteEnds(r) PROVE FrontIsHead'
  <2>1. CASE Written(r)
    BY <2>1, FrontEmpty DEF Written, InFront
  <2>2. CASE Guessed(r)
    BY <1>2, <2>2 DEF Guessed, InFront
  <2>3. CASE WriteFails(r)
    BY <2>3, FrontStays DEF WriteFails, TypeOK, InFront
  <2> QED BY <1>5, <2>1, <2>2, <2>3 DEF WriteEnds
<1>6. ASSUME NEW r \in Replies, WarningClosed(r) PROVE FrontIsHead'
  BY <1>2, <1>6 DEF WarningClosed, InFront
<1>7. ASSUME NEW r \in Replies, Confirmed(r) PROVE FrontIsHead'
  BY <1>7, FrontStays DEF Confirmed, Settle, TypeOK, InFront
<1>8. ASSUME \/ \E r \in Replies : OfferConsent(r) \/ Answer(r) \/ DeliveredHere(r)
             \/ \E c \in Chats : UserFocuses(c)
             \/ UNCHANGED vars
      PROVE  FrontIsHead'
  BY <1>8 DEF OfferConsent, Answer, DeliveredHere, UserFocuses, vars, queue, FrontIsHead
<1> QED BY <1>1, <1>3, <1>4, <1>5, <1>6, <1>7, <1>8 DEF Next

LEMMA RoutedNext ==
    ASSUME TypeOK, Routed, [Next]_vars
    PROVE  Routed'
<1> SUFFICES ASSUME NEW q \in Replies, pc'[q] \in {"reveal", "write", "confirm"}
             PROVE  target'[q] # NoChat
  BY DEF Routed
<1>1. target' = target
  BY DEF Next, Offer, Decides, AlreadyConsented, Refuse, Begin, RevealEnds, RevealFails,
         Revealed, WriteEnds, Written, Guessed, WriteFails, WarningClosed, Confirmed,
         OfferConsent, Answer, DeliveredHere, UserFocuses, replies, vars
<1>2. pc[q] \in {"reveal", "write", "confirm"} \/ target[q] # NoChat
  BY DEF Next, Offer, Decides, AlreadyConsented, Refuse, Begin, RevealEnds, RevealFails,
         Revealed, WriteEnds, Written, Guessed, WriteFails, WarningClosed, Confirmed,
         OfferConsent, Answer, DeliveredHere, UserFocuses, queue, vars, Leave, Settle,
         TypeOK, Routed
<1> QED BY <1>1, <1>2 DEF Routed

LEMMA TypeAndFront == Spec => [](TypeOK /\ FrontIsHead /\ Routed)
<1>1. Init => TypeOK /\ FrontIsHead /\ Routed
  BY DEF Init, TypeOK, FrontIsHead, InFront, Routed
<1>2. TypeOK /\ FrontIsHead /\ Routed /\ [Next]_vars => (TypeOK /\ FrontIsHead /\ Routed)'
  BY NextType, FrontNext, RoutedNext
<1> QED BY <1>1, <1>2, PTL DEF Spec

(* Every variable keeps its type; in particular a barrier is only ever     *)
(* released by a delivery that holds one.                                  *)
THEOREM InjectorTypeCorrect == Spec => []TypeOK
BY TypeAndFront, PTL

(* Reveal and write of one delivery are never interleaved with another's.  *)
THEOREM OneDeliveryInFront == Spec => []OneInFront
<1>1. FrontIsHead => OneInFront
  BY DEF FrontIsHead, OneInFront
<1> QED BY <1>1, TypeAndFront, PTL

-----------------------------------------------------------------------------
(* The aim *)

(* Only the delivery in front moves the focus besides the user, and it is  *)
(* the only one that can be about to write.                                *)
LEMMA AimNext ==
    ASSUME TypeOK, FrontIsHead, AimedAtOwnChat, [Next]_vars
    PROVE  AimedAtOwnChat'
<1> SUFFICES ASSUME NEW q \in Replies, pc'[q] = "write"
             PROVE  focus' = target'[q] \/ q \in disturbed'
  BY DEF AimedAtOwnChat
<1>1. ASSUME NEW r \in Replies, Revealed(r) PROVE focus' = target'[q] \/ q \in disturbed'
  <2>1. CASE q = r
    BY <1>1, <2>1 DEF Revealed, replies
  <2>2. CASE q # r
    <3>1. pc[q] = "write" /\ pc[r] = "reveal"
      BY <1>1, <2>2 DEF Revealed, TypeOK
    <3> QED BY <3>1, <2>2 DEF FrontIsHead, InFront
  <2> QED BY <2>1, <2>2
<1>2. ASSUME NEW r \in Replies, RevealFails(r) PROVE focus' = target'[q] \/ q \in disturbed'
  <2>1. pc[q] = "write" /\ pc[r] = "reveal" /\ q # r
    BY <1>2 DEF RevealFails, Leave, Settle, TypeOK
  <2> QED BY <2>1 DEF FrontIsHead, InFront
<1>3. ASSUME NEW r \in Replies, Written(r) \/ WriteFails(r)
      PROVE  focus' = target'[q] \/ q \in disturbed'
  <2>1. q # r /\ pc[q] = "write"
    BY <1>3 DEF Written, WriteFails, TypeOK
  <2> QED BY <1>3, <2>1 DEF Written, WriteFails, replies, AimedAtOwnChat
<1>4. ASSUME NEW r \in Replies,
             \/ Offer(r) \/ Decides(r) \/ Guessed(r) \/ WarningClosed(r) \/ Confirmed(r)
             \/ OfferConsent(r) \/ Answer(r) \/ DeliveredHere(r)
      PROVE  focus' = target'[q] \/ q \in disturbed'
  <2>1. pc[q] = "write"
    BY <1>4 DEF Offer, Decides, AlreadyConsented, Refuse, Begin, Guessed, WarningClosed,
       Confirmed, OfferConsent, Answer, DeliveredHere, Leave, Settle, queue, TypeOK
  <2>2. focus' = focus /\ target' = target /\ disturbed' = disturbed
    BY <1>4 DEF Offer, Decides, AlreadyConsented, Refuse, Begin, Guessed, WarningClosed,
       Confirmed, OfferConsent, Answer, DeliveredHere, replies, history
  <2> QED BY <2>1, <2>2 DEF AimedAtOwnChat
<1>5. ASSUME NEW c \in Chats, UserFocuses(c) PROVE focus' = target'[q] \/ q \in disturbed'
  BY <1>5 DEF UserFocuses, queue
<1>6. CASE UNCHANGED vars
  BY <1>6 DEF vars, queue, replies, history, AimedAtOwnChat
<1> QED BY <1>1, <1>2, <1>3, <1>4, <1>5, <1>6 DEF Next, RevealEnds, WriteEnds

(* A write waiting to be made goes to the reply's own chat unless the user *)
(* or VS Code moved the focus: no other delivery can redirect it.          *)
THEOREM WritesAreAimed == Spec => []AimedAtOwnChat
<1>1. Init => AimedAtOwnChat
  BY DEF Init, AimedAtOwnChat
<1>2. TypeOK /\ FrontIsHead /\ AimedAtOwnChat /\ [Next]_vars => AimedAtOwnChat'
  BY AimNext
<1> QED BY <1>1, <1>2, TypeAndFront, PTL DEF Spec

-----------------------------------------------------------------------------
(* The writes *)

(* A reply that was written is being confirmed, was given up, or is        *)
(* reported; one that stands in front has not been written.                *)
Spent(r) ==
    /\ auto[r] \in {0, 1}
    /\ pc[r] \in InFront => auto[r] = 0
    /\ auto[r] = 1 => \/ pc[r] = "confirm"
                      \/ r \in unverifiable /\ target[r] # NoChat
                      \/ r \in consumed
    /\ r \in consumed => pc[r] = "away"

SpentInv == \A r \in Replies : Spent(r)

(* Only a reply that was not written comes to the front.                   *)
LEMMA SpentNext ==
    ASSUME TypeOK, Routed, SpentInv, [Next]_vars
    PROVE  SpentInv'
<1> SUFFICES ASSUME NEW q \in Replies PROVE Spent(q)'
  BY DEF SpentInv
<1>0. Spent(q)
  BY DEF SpentInv
<1>1. ASSUME NEW r \in Replies, Offer(r) PROVE Spent(q)'
  BY <1>0, <1>1 DEF Offer, Spent, TypeOK, InFront, replies, history
<1>2. ASSUME NEW r \in Replies, AlreadyConsented(r) PROVE Spent(q)'
  BY <1>0, <1>2 DEF AlreadyConsented, Turn, Leave, Settle, Spent, TypeOK, InFront, replies, history
<1>3. ASSUME NEW r \in Replies, Refuse(r) PROVE Spent(q)'
  BY <1>0, <1>3 DEF Refuse, Turn, Leave, Settle, Spent, TypeOK, InFront, replies, history
<1>4. ASSUME NEW r \in Replies, Begin(r) PROVE Spent(q)'
  BY <1>0, <1>4 DEF Begin, Turn, Spent, TypeOK, InFront, replies, history
<1>5. ASSUME NEW r \in Replies, RevealFails(r) PROVE Spent(q)'
  BY <1>0, <1>5 DEF RevealFails, Leave, Settle, Spent, TypeOK, InFront, replies, history
<1>6. ASSUME NEW r \in Replies, Revealed(r) PROVE Spent(q)'
  BY <1>0, <1>6 DEF Revealed, Spent, TypeOK, InFront, replies
<1>7. ASSUME NEW r \in Replies, Written(r) PROVE Spent(q)'
  BY <1>0, <1>7 DEF Written, Spent, TypeOK, InFront, replies
<1>8. ASSUME NEW r \in Replies, Guessed(r) PROVE Spent(q)'
  BY <1>0, <1>8 DEF Guessed, Leave, Settle, Spent, TypeOK, InFront, replies
<1>9. ASSUME NEW r \in Replies, WriteFails(r) PROVE Spent(q)'
  BY <1>0, <1>9 DEF WriteFails, Spent, TypeOK, InFront, replies
<1>10. ASSUME NEW r \in Replies, WarningClosed(r) PROVE Spent(q)'
  BY <1>0, <1>10 DEF WarningClosed, Leave, Settle, Spent, TypeOK, InFront, replies, history
<1>11. ASSUME NEW r \in Replies, Confirmed(r) PROVE Spent(q)'
  <2>1. target[r] # NoChat
    BY <1>11 DEF Confirmed, Routed
  <2> QED BY <1>0, <1>11, <2>1
          DEF Confirmed, GiveUp, Settle, Spent, TypeOK, InFront, replies, history
<1>12. ASSUME \/ \E r \in Replies : OfferConsent(r) \/ Answer(r) \/ DeliveredHere(r)
              \/ \E c \in Chats : UserFocuses(c)
              \/ UNCHANGED vars
       PROVE  Spent(q)'
  BY <1>0, <1>12 DEF OfferConsent, Answer, DeliveredHere, UserFocuses, vars, queue, replies,
     history, Spent, InFront
<1> QED BY <1>1, <1>2, <1>3, <1>4, <1>5, <1>6, <1>7, <1>8, <1>9, <1>10, <1>11, <1>12
        DEF Next, Decides, RevealEnds, WriteEnds

(* However often a reply is offered again, it is written at most once      *)
(* without the user's asking.                                              *)
THEOREM WrittenAtMostOnce == Spec => []WrittenOnce
<1>1. Init => SpentInv
  <2> SUFFICES ASSUME Init, NEW r \in Replies PROVE Spent(r)
    BY DEF SpentInv
  <2>1. auto[r] = 0 /\ pc[r] = "away" /\ r \notin consumed
    BY DEF Init
  <2> QED BY <2>1 DEF Spent
<1>2. TypeOK /\ Routed /\ SpentInv /\ [Next]_vars => SpentInv'
  BY SpentNext
<1>3. SpentInv => WrittenOnce
  <2> SUFFICES ASSUME SpentInv, NEW r \in Replies PROVE auto[r] <= 1
    BY DEF WrittenOnce
  <2>1. auto[r] \in {0, 1}
    BY DEF SpentInv, Spent
  <2> QED BY <2>1
<1> QED BY <1>1, <1>2, <1>3, TypeAndFront, PTL DEF Spec
=============================================================================
