------------------------------ MODULE Transport ------------------------------
(***************************************************************************)
(* The Agency transport (infrastructure/transports/agencyTeamsTransport.ts)*)
(* keeps a subprocess that speaks JSON-RPC over stdio and talks to Teams.  *)
(* A call launches the subprocess when there is none, writes a request and *)
(* waits for the answer or its timer.  When the upstream session of the    *)
(* subprocess has lapsed, the call restarts it and asks once more.         *)
(*                                                                         *)
(* Several calls run at once.  Answers travel through a pipe: calls go on  *)
(* after all lines of a chunk have been taken from it.                     *)
(***************************************************************************)
EXTENDS Naturals, FiniteSets

CONSTANTS
    Posts,       \* calls that post a message, each made once
    Fetches,     \* calls that read a thread, each made once
    MaxChildren, \* bound: subprocesses ever launched
    MaxFaults    \* bound: faults of the subprocess and of Teams

Calls == Posts \union Fetches
Children == 1 .. MaxChildren
NoChild == 0

ASSUME TransportAssumption ==
    /\ Posts \intersect Fetches = {}
    /\ MaxChildren \in Nat /\ MaxFaults \in Nat

VARIABLES
    child,      \* this.child
    starting,   \* this.starting: the subprocess it launched, NoChild when undefined
    buffer,     \* "partial": a subprocess that is gone has left half a line
    self,       \* the user to mention: "unknown", "found", "none"
    launched,   \* how many subprocesses have been launched
    proc,       \* each subprocess
    call,       \* where each call stands
    inbox,      \* requests written to a subprocess and not served
    pipe,       \* answers on their way from a subprocess
    disposed,
    faults,     \* how many faults have happened
    made,       \* history: how many messages each post has made in Teams
    posted,     \* posted.json: posts whose message id is recorded
    unrecorded, \* history: posts that ended well and whose message id is not
    selfRead,   \* history: messages of the bridge that a fetch returned as replies
    slow        \* history: a launch has timed out

client == <<child, starting, buffer, self, launched, call>>
teams == <<made, posted, unrecorded, selfRead>>
vars == <<client, proc, inbox, pipe, disposed, faults, teams, slow>>

\* launch: what became of initialize ("mute": its answer is lost, its timer
\* runs); hook: the exit listener is in place.
Proc == [alive : BOOLEAN, killed : BOOLEAN, stale : BOOLEAN, hook : BOOLEAN,
         launch : {"none", "pending", "mute", "ready", "failed"}]
NotLaunched == [alive |-> FALSE, killed |-> FALSE, stale |-> FALSE, hook |-> FALSE,
                launch |-> "none"]

\* A request is a call, its stage and which attempt of it; initialize is a
\* request of no call.
Stages == {"lookup", "main"}
CallState == [pc : {"idle", "starting", "sent", "answered", "ok", "failed"},
              stage : Stages, try : {0, 1}, on : Children \union {NoChild},
              answer : {"none", "ok", "error", "stale"}, saw : SUBSET Posts]
Idle == [pc |-> "idle", stage |-> "main", try |-> 0, on |-> NoChild, answer |-> "none", saw |-> {}]

Id(k) == <<k, call[k].stage, call[k].try>>

Init ==
    /\ child = NoChild /\ starting = NoChild /\ buffer = "clean" /\ self = "unknown" /\ launched = 0
    /\ proc = [c \in Children |-> NotLaunched]
    /\ call = [k \in Calls |-> Idle]
    /\ inbox = [c \in Children |-> {}] /\ pipe = {}
    /\ disposed = FALSE /\ faults = 0
    /\ made = [k \in Posts |-> 0] /\ posted = {} /\ unrecorded = {} /\ selfRead = {}
    /\ slow = FALSE

Fault == faults < MaxFaults /\ faults' = faults + 1

(***************************************************************************)
(* callTool(), invoke(), ensureStarted(), start(), request().              *)
(***************************************************************************)
Ended(k, how) == [call EXCEPT ![k] = [@ EXCEPT !.pc = how, !.answer = "none", !.saw = {}]]

\* ensureStarted() on behalf of a call in state s, with the launch that is
\* under way or done, or with a new one.
Joins(k, s, procs) ==
    /\ starting # NoChild
    /\ call' = [call EXCEPT ![k] = [s EXCEPT !.pc = "starting", !.on = starting]]
    /\ proc' = procs
    /\ UNCHANGED <<child, starting, launched>>

Launches(k, s, calls, procs) ==
    /\ launched < MaxChildren
    /\ launched' = launched + 1
    /\ child' = launched' /\ starting' = launched'
    /\ proc' = [procs EXCEPT ![launched'] = [alive |-> TRUE, killed |-> FALSE, stale |-> FALSE,
                                             hook |-> TRUE, launch |-> "pending"]]
    /\ call' = [calls EXCEPT ![k] = [s EXCEPT !.pc = "starting", !.on = launched']]

Invokes(k, s) == Joins(k, s, proc) \/ (starting = NoChild /\ Launches(k, s, call, proc))

\* A post that mentions the user looks the user up first, once.
Begin(k) ==
    /\ call[k].pc = "idle"
    /\ \/ Invokes(k, Idle)
       \/ k \in Posts /\ self = "unknown" /\ Invokes(k, [Idle EXCEPT !.stage = "lookup"])
    /\ UNCHANGED <<buffer, self, inbox, pipe, disposed, faults, teams, slow>>

\* Mutant: a request is written although there is no subprocess.
StartedUnchecked(k) ==
    /\ call[k].pc = "starting"
    /\ proc[call[k].on].launch = "ready"
    /\ call' = [call EXCEPT ![k] = [@ EXCEPT !.pc = "sent", !.on = child]]
    /\ inbox' = [c \in Children \union {child} |->
                    (IF c \in Children THEN inbox[c] ELSE {}) \union (IF c = child THEN {Id(k)} ELSE {})]
    /\ UNCHANGED <<child, starting, buffer, self, launched, proc, pipe, disposed, faults, teams, slow>>

\* The launch is over: the request is written to the subprocess there is now.
Started(k) ==
    /\ call[k].pc = "starting"
    /\ proc[call[k].on].launch = "ready"
    /\ call' = [call EXCEPT ![k] = [@ EXCEPT !.pc = "sent", !.on = child]]
    /\ inbox' = IF child = NoChild THEN inbox ELSE [inbox EXCEPT ![child] = @ \union {Id(k)}]
    /\ UNCHANGED <<child, starting, buffer, self, launched, proc, pipe, disposed, faults, teams, slow>>

\* An error of a call: a lookup is given up and the post goes on without it.
Fails(k) ==
    \/ /\ call[k].stage = "main"
       /\ call' = Ended(k, "failed")
       /\ UNCHANGED <<child, starting, launched, proc, self>>
    \/ /\ call[k].stage = "lookup"
       /\ self' = "none"
       /\ Invokes(k, Idle)

NotStarted(k) ==
    /\ call[k].pc = "starting"
    /\ proc[call[k].on].launch = "failed"
    /\ Fails(k)
    /\ UNCHANGED <<buffer, inbox, pipe, disposed, faults, teams, slow>>

\* Mutant: a request has no timer.
NoTimer(k) == FALSE /\ UNCHANGED vars

TimesOut(k) ==
    /\ call[k].pc = "sent"
    /\ Fails(k)
    /\ UNCHANGED <<buffer, inbox, pipe, disposed, faults, teams, slow>>

\* A failed launch is forgotten, unless another one has taken its place.
AfterFailure(c) == IF starting = c THEN NoChild ELSE starting

\* initialize is not answered in time.  The subprocess is left running.
LaunchTimesOut(c) ==
    /\ proc[c].launch \in {"pending", "mute"}
    /\ proc' = [proc EXCEPT ![c].launch = "failed"]
    /\ starting' = AfterFailure(c)
    /\ slow' = TRUE
    /\ UNCHANGED <<child, buffer, self, launched, call, inbox, pipe, disposed, faults, teams>>

(***************************************************************************)
(* The subprocess and Teams.                                               *)
(***************************************************************************)
Up(c) == proc[c].alive

Initialises(c) ==
    /\ Up(c)
    /\ proc[c].launch = "pending"
    /\ proc' = [proc EXCEPT ![c].launch = IF buffer = "partial" THEN "mute" ELSE "ready"]
    /\ buffer' = "clean"
    /\ UNCHANGED <<child, starting, self, launched, call, inbox, pipe, disposed, faults, teams, slow>>

Puts(c, id, answer, saw) ==
    /\ inbox' = [inbox EXCEPT ![c] = @ \ {id}]
    /\ pipe' = pipe \union {[id |-> id, answer |-> answer, saw |-> saw]}

Serve(c, id) ==
    /\ Up(c)
    /\ id \in inbox[c]
    /\ IF proc[c].stale
       THEN Puts(c, id, "stale", {}) /\ UNCHANGED <<made, faults>>
       ELSE \/ /\ Puts(c, id, "ok", IF id[1] \in Fetches THEN {k \in Posts : made[k] > 0} ELSE {})
               /\ made' = IF id[1] \in Posts /\ id[2] = "main" THEN [made EXCEPT ![id[1]] = @ + 1] ELSE made
               /\ UNCHANGED faults
            \/ Puts(c, id, "error", {}) /\ Fault /\ UNCHANGED made
    /\ UNCHANGED <<client, proc, disposed, posted, unrecorded, selfRead, slow>>

\* The session a subprocess holds upstream expires; it stays up.
Lapses(c) ==
    /\ Fault
    /\ Up(c) /\ proc[c].launch = "ready" /\ ~proc[c].stale
    /\ proc' = [proc EXCEPT ![c].stale = TRUE]
    /\ UNCHANGED <<client, inbox, pipe, disposed, teams, slow>>

\* A subprocess exits, killed or not; it may leave half a line behind.  The
\* listener clears what the transport has now.
Exits(c) ==
    /\ Up(c)
    /\ \/ proc[c].killed /\ UNCHANGED <<faults, buffer>>
       \/ Fault /\ buffer' \in {buffer, "partial"}
    /\ proc' = [proc EXCEPT ![c].alive = FALSE, ![c].stale = FALSE]
    /\ inbox' = [inbox EXCEPT ![c] = {}]
    /\ child' = IF proc[c].hook THEN NoChild ELSE child
    /\ starting' = IF proc[c].hook THEN NoChild ELSE starting
    /\ UNCHANGED <<self, launched, call, pipe, disposed, teams, slow>>

(***************************************************************************)
(* consume(): a line is taken from the pipe, and lost when half a line of  *)
(* another subprocess stands before it or nobody waits for its id.         *)
(***************************************************************************)
\* Mutant: an answer is taken for whatever its call waits for now.
AnyOfTheCall(answer) == call[answer.id[1]].pc = "sent"

Awaited(answer) ==
    LET k == answer.id[1] IN call[k].pc = "sent" /\ answer.id = Id(k)

Consume(answer) ==
    /\ answer \in pipe
    /\ pipe' = pipe \ {answer}
    /\ buffer' = "clean"
    /\ call' = IF buffer = "clean" /\ Awaited(answer)
               THEN [call EXCEPT ![answer.id[1]] =
                        [@ EXCEPT !.pc = "answered", !.answer = answer.answer, !.saw = answer.saw]]
               ELSE call
    /\ UNCHANGED <<child, starting, self, launched, proc, inbox, disposed, faults, teams, slow>>

(***************************************************************************)
(* A call goes on with its answer.                                         *)
(***************************************************************************)
\* fetchReplies() leaves out what the bridge is known to have posted.
NotOurs(saw) == saw \ posted

\* record() of the message a post has made.  It comes to nothing when the
\* answer holds no id that can be read, since then an invented one is recorded,
\* and when the file cannot be written.
Records(k) ==
    \/ posted' = posted \union {k} /\ UNCHANGED unrecorded
    \/ unrecorded' = unrecorded \union {k} /\ UNCHANGED posted

Succeeds(k) ==
    /\ call[k].answer = "ok"
    /\ \/ /\ call[k].stage = "lookup"
          /\ self' \in {"found", "none"}
          /\ Invokes(k, Idle)
          /\ UNCHANGED teams
       \/ /\ call[k].stage = "main"
          /\ call' = Ended(k, "ok")
          /\ IF k \in Posts THEN Records(k) ELSE UNCHANGED <<posted, unrecorded>>
          /\ selfRead' = selfRead \union NotOurs(call[k].saw)
          /\ UNCHANGED <<child, starting, launched, proc, self, made>>

\* restart(): every pending request is rejected, the launch under way with
\* them, and the subprocess is killed; then the call is made anew.
Rejected == [k \in Calls |-> IF call[k].pc = "sent"
                             THEN [call[k] EXCEPT !.pc = "answered", !.answer = "error"] ELSE call[k]]

Interrupted(c) == IF proc[c].launch \in {"pending", "mute"}
                  THEN [proc[c] EXCEPT !.launch = "failed"] ELSE proc[c]

\* Mutants: the old subprocess is left running; every error is retried.
LeftRunning(hook) == [c \in Children |-> Interrupted(c)]
AnyError(k) == call[k].answer \in {"stale", "error"}

Killed(hook) ==
    [c \in Children |-> IF c = child THEN [Interrupted(c) EXCEPT !.killed = TRUE, !.hook = @ /\ hook]
                        ELSE Interrupted(c)]

isStaleSessionError(k) == call[k].answer = "stale"

Restarts(k) ==
    /\ isStaleSessionError(k) /\ call[k].try = 0
    /\ buffer' = "clean"
    /\ Launches(k, [call[k] EXCEPT !.try = 1, !.answer = "none"], Rejected, Killed(FALSE))
    /\ UNCHANGED <<self, teams>>

GivesUp(k) ==
    /\ call[k].answer \in {"error", "stale"}
    /\ ~isStaleSessionError(k) \/ call[k].try = 1
    /\ Fails(k)
    /\ UNCHANGED <<buffer, teams>>

Answered(k) ==
    /\ call[k].pc = "answered"
    /\ \/ Succeeds(k) /\ UNCHANGED buffer
       \/ Restarts(k)
       \/ GivesUp(k)
    /\ UNCHANGED <<inbox, pipe, disposed, faults, slow>>

\* dispose(): as a restart, but the exit listener stays and nothing is begun.
Dispose ==
    /\ ~disposed /\ disposed' = TRUE
    /\ call' = Rejected
    /\ proc' = Killed(TRUE)
    /\ child' = NoChild /\ starting' = NoChild
    /\ UNCHANGED <<buffer, self, launched, inbox, pipe, faults, teams, slow>>

(***************************************************************************)
(* The specification                                                       *)
(***************************************************************************)
Continues(k) == Started(k) \/ NotStarted(k) \/ Answered(k)

Subprocess(c) ==
    \/ Initialises(c) \/ Lapses(c) \/ Exits(c)
    \/ \E id \in inbox[c] : Serve(c, id)

Next ==
    \/ \E k \in Calls : Begin(k) \/ Continues(k) \/ TimesOut(k)
    \/ \E c \in Children : LaunchTimesOut(c) \/ Subprocess(c)
    \/ \E answer \in pipe : Consume(answer)
    \/ Dispose

\* The process runs its own code, and timers fire.  Nothing is assumed of the
\* subprocess or of Teams.
Fairness ==
    /\ \A k \in Calls : WF_vars(Continues(k)) /\ WF_vars(TimesOut(k))
    /\ \A c \in Children : WF_vars(LaunchTimesOut(c))

Spec == Init /\ [][Next]_vars
FairSpec == Spec /\ Fairness

(***************************************************************************)
(* Properties                                                              *)
(***************************************************************************)
Requested == Calls \X Stages \X {0, 1}
Answers == [id : Requested, answer : {"ok", "error", "stale"}, saw : SUBSET Posts]

\* Every variable keeps its type: above all, a request goes to a subprocess.
\* About every step of a call and of a subprocess.
TypeOK ==
    /\ child \in Children \union {NoChild} /\ starting \in Children \union {NoChild}
    /\ buffer \in {"clean", "partial"} /\ self \in {"unknown", "found", "none"}
    /\ launched \in 0 .. MaxChildren /\ faults \in 0 .. MaxFaults
    /\ proc \in [Children -> Proc] /\ call \in [Calls -> CallState]
    /\ inbox \in [Children -> SUBSET Requested] /\ pipe \subseteq Answers
    /\ disposed \in BOOLEAN /\ slow \in BOOLEAN
    /\ made \in [Posts -> Nat] /\ posted \subseteq Posts /\ unrecorded \subseteq Posts
    /\ selfRead \subseteq Posts

\* A message is posted once, although a call may be made twice and restarts
\* of other calls interrupt it.  About callTool(): only a lapsed session is
\* worth a second attempt.
PostedOnce == \A k \in Posts : made[k] <= 1

\* A fetch returns a message of the bridge as a reply only before the post that
\* made it is over, when the answer of the post was lost, or when record() came
\* to nothing.  About record() after a post and has() in fetchReplies().
OwnMessagesFiltered ==
    [][\A k \in selfRead' \ selfRead : call[k].pc # "ok" \/ k \in unrecorded]_vars

\* At most one subprocess is neither gone nor told to go: concurrent calls
\* share a launch, and a restart ends what it replaces, although the exits of
\* old ones are reported late.  Two cases are excepted, a launch that timed
\* out and calls after dispose(): the exit listener of the old subprocess
\* stays, and forgets the new one when the old one exits.  About
\* ensureStarted(), restart() and the exit listener.
OneSubprocess ==
    ~slow /\ ~disposed => \A b, c \in Children :
        (Up(b) /\ ~proc[b].killed /\ Up(c) /\ ~proc[c].killed) => b = c

\* The transport keeps the promise of the port, with a call's own steps, its
\* lookup, its second attempt and the restarts of other calls out of sight: a
\* post that reports success has made its message, exactly once, what a failed
\* one has made may come late but never twice, and a fetch returns an own message
\* only of a post that has not ended well or that is not recorded.  About
\* callTool(), request(), consume(), record() and fetchReplies().
CallStates == [k \in Calls |-> IF call[k].pc \in {"idle", "ok", "failed"} THEN call[k].pc ELSE "calling"]

Port == INSTANCE TeamsPort WITH state <- CallStates, read <- selfRead

ImplementsPort == Port!Spec

\* A call ends, whatever the subprocess does or leaves undone; the bound on
\* subprocesses aside.  About request(), restart() and callTool().
CallsEnd ==
    \A k \in Calls : call[k].pc # "idle" ~> (call[k].pc \in {"ok", "failed"} \/ launched = MaxChildren)

=============================================================================
