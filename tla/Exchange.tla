------------------------------- MODULE Exchange -------------------------------
(***************************************************************************)
(* One A2A call from end to end: a2a_client.ask in the caller, a           *)
(* specialist's execute in the agent, the stream of events between them,   *)
(* and the records both leave in the audit trail.                          *)
(*                                                                         *)
(* The agent's side is that of Skyline, Hearth and Sentinel, which differ  *)
(* here in one thing: Sentinel records nothing when it fails.  A second    *)
(* working update says nothing new and is left out.  A caller that has     *)
(* gone leaves the agent running; an agent that dies leaves its caller a   *)
(* stream that breaks or just ends.                                        *)
(*                                                                         *)
(* External, from how the code uses it: the A2A SDK sends events in order, *)
(* ends a stream after a terminal state or with the run, stops the run of  *)
(* a cancelled task, and cancels no task that has ended.  Closing the SDK's *)
(* client is taken not to raise.                                           *)
(***************************************************************************)
EXTENDS Trail, Sequences

CONSTANTS
    Call,         \* calls, each with a task of its own
    CallerOf,     \* the process that asks
    AgentOf,      \* the process that is asked
    Silent,       \* agents with no record for a failure: Sentinel
    None,         \* no data yet
    MaxRestarts   \* bound: restarts of a process

ASSUME PartiesAssumption ==
    /\ CallerOf \in [Call -> Process]
    /\ AgentOf \in [Call -> Process]
ASSUME SilentAssumption == Silent \subseteq Process
ASSUME EntryAssumption ==
    Entry = [call : Call, event : {"asked", "answered", "received", "completed", "failed"}]
ASSUME NoneAssumption == None \notin Call /\ Idle \notin Call

VARIABLES
    caller,    \* where ask() is, or how it ended
    http,      \* its httpx.AsyncClient
    reply,     \* the AgentReply: state, and data (named after its call)
    stream,    \* events sent and not yet absorbed
    agent,     \* where execute() is: "sent" before it starts
    task,      \* the TaskState in the agent's store
    restarts

callVars == <<caller, http, reply, stream, agent, task, restarts>>
vars == <<trailVars, callVars>>

Terminal == {"completed", "failed", "rejected", "canceled"}
Event == Terminal \cup {"submitted", "working", "artifact"}
Ended == {"returned", "raised", "gone"}
Underway == {"accepted", "receiving", "received", "working", "failing",
             "published", "completed", "closing"}

TypeOK ==
    /\ TrailTypeOK
    /\ caller \in [Call -> Ended \cup {"new", "asking", "asked", "streaming",
                                       "closed", "answering"}]
    /\ http \in [Call -> {"none", "open", "closed"}]
    /\ reply \in [Call -> [state : Event \cup {""}, data : Call \cup {None}]]
    /\ stream \in [Call -> Seq(Event)]
    /\ agent \in [Call -> Underway \cup {"none", "sent", "done", "died"}]
    /\ task \in [Call -> Terminal \cup {"none", "submitted", "working"}]
    /\ restarts \in Nat

Init ==
    /\ TrailInit
    /\ caller = [c \in Call |-> "new"]
    /\ http = [c \in Call |-> "none"]
    /\ reply = [c \in Call |-> [state |-> "", data |-> None]]
    /\ stream = [c \in Call |-> <<>>]
    /\ agent = [c \in Call |-> "none"]
    /\ task = [c \in Call |-> "none"]
    /\ restarts = 0

Is(c, event) == [call |-> c, event |-> event]

(* A process that is not in the middle of an append. *)
Free(p) == writing[p] = Idle

CallerGoes(c, to) == caller' = [caller EXCEPT ![c] = to]
AgentGoes(c, to) == agent' = [agent EXCEPT ![c] = to]

-------------------------------------------------------------------------------
(* The caller: a2a_client.ask. *)

(* The call is recorded before anything is sent. *)
Ask(c) ==
    /\ caller[c] = "new"
    /\ \/ Begin(CallerOf[c], Is(c, "asked")) /\ CallerGoes(c, "asking")
       \/ Collide(CallerOf[c]) /\ CallerGoes(c, "raised")
    /\ UNCHANGED <<http, reply, stream, agent, task, restarts>>

(* create_client cannot read the agent's card: it raises before the try    *)
(* that closes the HTTP client.                                            *)
CannotConnect(c) ==
    /\ caller[c] = "asked" /\ Free(CallerOf[c])
    /\ http' = [http EXCEPT ![c] = "open"]
    /\ CallerGoes(c, "raised")
    /\ UNCHANGED <<trailVars, reply, stream, agent, task, restarts>>

(* Mutant of Send: the message goes out while "asked" may still be unwritten. *)
Send_Unrecorded(c) ==
    /\ caller[c] \in {"new", "asked"} /\ Free(CallerOf[c])
    /\ http' = [http EXCEPT ![c] = "open"]
    /\ CallerGoes(c, "streaming")
    /\ AgentGoes(c, "sent")
    /\ UNCHANGED <<trailVars, reply, stream, task, restarts>>

Send(c) ==
    /\ caller[c] = "asked" /\ Free(CallerOf[c])
    /\ http' = [http EXCEPT ![c] = "open"]
    /\ CallerGoes(c, "streaming")
    /\ AgentGoes(c, "sent")
    /\ UNCHANGED <<trailVars, reply, stream, task, restarts>>

(* Mutant of Folded: a status is taken only while there is none. *)
Folded_FirstState(r, e, c) ==
    IF e = "artifact" THEN [r EXCEPT !.data = IF @ = None THEN c ELSE @]
                      ELSE [r EXCEPT !.state = IF @ = "" THEN e ELSE @]

(* What one event makes of the reply: the task and its statuses give the   *)
(* state, the first data part the data.  (A bare Message would set the     *)
(* state as well; no agent of this network sends one.)                     *)
Folded(r, e, c) ==
    IF e = "artifact" THEN [r EXCEPT !.data = IF @ = None THEN c ELSE @]
                      ELSE [r EXCEPT !.state = e]

Absorb(c) ==
    /\ caller[c] = "streaming" /\ Free(CallerOf[c])
    /\ stream[c] # <<>>
    /\ reply' = [reply EXCEPT ![c] = Folded(@, Head(stream[c]), c)]
    /\ stream' = [stream EXCEPT ![c] = Tail(@)]
    /\ UNCHANGED <<trailVars, caller, http, agent, task, restarts>>

(* No event is left and none will come. *)
Over(c) ==
    /\ stream[c] = <<>>
    /\ reply[c].state \in Terminal \/ agent[c] \in {"done", "died"}

(* The async for ends, the finally clause closes client and http. *)
StreamEnds(c) ==
    /\ caller[c] = "streaming" /\ Free(CallerOf[c])
    /\ Over(c)
    /\ http' = [http EXCEPT ![c] = "closed"]
    /\ CallerGoes(c, "closed")
    /\ UNCHANGED <<trailVars, reply, stream, agent, task, restarts>>

(* Mutant of StreamBreaks: the finally is an else. *)
StreamBreaks_Open(c) ==
    /\ caller[c] = "streaming" /\ Free(CallerOf[c])
    /\ CallerGoes(c, "raised")
    /\ UNCHANGED <<trailVars, http, reply, stream, agent, task, restarts>>

(* The stream is lost or the call times out: closed all the same, raised,  *)
(* and no "answered" is recorded.                                          *)
StreamBreaks(c) ==
    /\ caller[c] = "streaming" /\ Free(CallerOf[c])
    /\ http' = [http EXCEPT ![c] = "closed"]
    /\ CallerGoes(c, "raised")
    /\ UNCHANGED <<trailVars, reply, stream, agent, task, restarts>>

Answer(c) ==
    /\ caller[c] = "closed"
    /\ \/ Begin(CallerOf[c], Is(c, "answered")) /\ CallerGoes(c, "answering")
       \/ Collide(CallerOf[c]) /\ CallerGoes(c, "raised")
    /\ UNCHANGED <<http, reply, stream, agent, task, restarts>>

-------------------------------------------------------------------------------
(* The agent: execute. *)

(* An event goes out on the stream. *)
Says(c, e) == stream' = [stream EXCEPT ![c] = Append(@, e)]

(* A status event: the task in the store moves with it. *)
Tells(c, e) ==
    /\ Says(c, e)
    /\ task' = [task EXCEPT ![c] = e]

(* accept_task: the Task opens every response. *)
Accept(c) ==
    /\ agent[c] = "sent" /\ Free(AgentOf[c])
    /\ Tells(c, "submitted")
    /\ AgentGoes(c, "accepted")
    /\ UNCHANGED <<trailVars, caller, http, reply, restarts>>

(* The payload is no brief: rejected, and nothing is recorded. *)
Reject(c) ==
    /\ agent[c] = "accepted" /\ Free(AgentOf[c])
    /\ Tells(c, "rejected")
    /\ AgentGoes(c, "done")
    /\ UNCHANGED <<trailVars, caller, http, reply, restarts>>

Receive(c) ==
    /\ agent[c] = "accepted"
    /\ \/ Begin(AgentOf[c], Is(c, "received")) /\ AgentGoes(c, "receiving")
       \/ Collide(AgentOf[c]) /\ AgentGoes(c, "died")
    /\ UNCHANGED <<caller, http, reply, stream, task, restarts>>

StartWork(c) ==
    /\ agent[c] = "received" /\ Free(AgentOf[c])
    /\ Tells(c, "working")
    /\ AgentGoes(c, "working")
    /\ UNCHANGED <<trailVars, caller, http, reply, restarts>>

(* Mutant of Fails: the exception is logged and swallowed. *)
Fails_Swallowed(c) ==
    /\ agent[c] = "working" /\ Free(AgentOf[c])
    /\ AgentGoes(c, "done")
    /\ UNCHANGED <<trailVars, caller, http, reply, stream, task, restarts>>

(* No inventory, an MCP error, a choice that cannot be put together. *)
Fails(c) ==
    /\ agent[c] = "working" /\ Free(AgentOf[c])
    /\ Tells(c, "failed")
    /\ AgentGoes(c, IF AgentOf[c] \in Silent THEN "done" ELSE "failing")
    /\ UNCHANGED <<trailVars, caller, http, reply, restarts>>

(* add_artifact: the proposal or the verdict. *)
Publish(c) ==
    /\ agent[c] = "working" /\ Free(AgentOf[c])
    /\ Says(c, "artifact")
    /\ AgentGoes(c, "published")
    /\ UNCHANGED <<trailVars, caller, http, reply, task, restarts>>

Complete(c) ==
    /\ agent[c] = "published" /\ Free(AgentOf[c])
    /\ Tells(c, "completed")
    /\ AgentGoes(c, "completed")
    /\ UNCHANGED <<trailVars, caller, http, reply, restarts>>

(* The record that closes the run comes after the event that closes the task. *)
Close(c) ==
    /\ agent[c] \in {"completed", "failing"}
    /\ \/ /\ Begin(AgentOf[c],
                   Is(c, IF agent[c] = "completed" THEN "completed" ELSE "failed"))
          /\ AgentGoes(c, "closing")
       \/ Collide(AgentOf[c]) /\ AgentGoes(c, "died")
    /\ UNCHANGED <<caller, http, reply, stream, task, restarts>>

(* cancel: an open task is closed, whoever works on it.  Its run is        *)
(* stopped where it awaits.  If it died before, nobody stops; the caller   *)
(* may hear of it while its stream lasts.                                  *)
Cancel(c) ==
    /\ task[c] \notin Terminal \cup {"none"} /\ Free(AgentOf[c])
    /\ \/ agent[c] \in Underway /\ Tells(c, "canceled") /\ AgentGoes(c, "done")
       \/ agent[c] = "died" /\ caller[c] = "streaming"
             /\ Tells(c, "canceled") /\ UNCHANGED agent
       \/ agent[c] = "died"
             /\ task' = [task EXCEPT ![c] = "canceled"] /\ UNCHANGED <<stream, agent>>
    /\ UNCHANGED <<trailVars, caller, http, reply, restarts>>

-------------------------------------------------------------------------------
(* Appends end, in one way or the other. *)

(* The run or the call goes on from its append. *)
Written(p) ==
    /\ Write(p)
    /\ LET c == writing[p].entry.call  event == writing[p].entry.event IN
         IF event \in {"asked", "answered"}
           THEN /\ CallerGoes(c, IF event = "asked" THEN "asked" ELSE "returned")
                /\ UNCHANGED agent
           ELSE /\ AgentGoes(c, IF event = "received" THEN "received" ELSE "done")
                /\ UNCHANGED caller
    /\ UNCHANGED <<http, reply, stream, task, restarts>>

(* The exception of record() ends the call, or the run. *)
NotWritten(p) ==
    /\ CannotWrite(p)
    /\ LET c == writing[p].entry.call IN
         IF writing[p].entry.event \in {"asked", "answered"}
           THEN CallerGoes(c, "raised") /\ UNCHANGED agent
           ELSE AgentGoes(c, "died") /\ UNCHANGED caller
    /\ UNCHANGED <<http, reply, stream, task, restarts>>

(* A process restarts: its calls are gone and its runs dead. *)
Restart(p) ==
    /\ restarts < MaxRestarts
    /\ restarts' = restarts + 1
    /\ Forget(p)
    /\ caller' = [c \in Call |->
          IF CallerOf[c] = p /\ caller[c] \notin Ended \cup {"new"} THEN "gone" ELSE caller[c]]
    /\ http' = [c \in Call |->
          IF CallerOf[c] = p /\ http[c] = "open" THEN "closed" ELSE http[c]]
    /\ agent' = [c \in Call |->
          IF AgentOf[c] = p /\ agent[c] \in Underway THEN "died" ELSE agent[c]]
    /\ UNCHANGED <<reply, stream, task>>

-------------------------------------------------------------------------------
CallerStep(c) == Ask(c) \/ Send(c) \/ Absorb(c) \/ StreamEnds(c) \/ Answer(c)

AgentStep(c) ==
    Accept(c) \/ Reject(c) \/ Receive(c) \/ StartWork(c) \/ Fails(c) \/ Publish(c)
    \/ Complete(c) \/ Close(c)

Next ==
    \/ \E c \in Call : CallerStep(c) \/ AgentStep(c) \/ CannotConnect(c)
                       \/ StreamBreaks(c) \/ Cancel(c)
    \/ \E p \in Process : Written(p) \/ NotWritten(p) \/ Restart(p)

Spec == Init /\ [][Next]_vars

(* Event loops run what is ready, and what an execute awaits ends (module  *)
(* ToolServer).  No timeout is assumed to come to the rescue.              *)
FairSpec ==
    /\ Spec
    /\ \A c \in Call : WF_vars(CallerStep(c)) /\ WF_vars(AgentStep(c))
    /\ \A p \in Process : WF_vars(Written(p))
-------------------------------------------------------------------------------
(* What the caller holds is what became of the task.  It differs in one    *)
(* case only: the run died, the caller was left with an open task, and     *)
(* somebody closed that task.  No terminal state is ever wrong, "completed" *)
(* comes with its data, and an open one means that the run has died.       *)
ReplyIsTheTask ==
    \A c \in Call : caller[c] \in {"closed", "answering", "returned"} =>
        /\ reply[c].state # task[c] =>
              agent[c] = "died" /\ reply[c].state \notin Terminal /\ task[c] = "canceled"
        /\ reply[c].state \notin Terminal => agent[c] = "died"
        /\ reply[c].state = "completed" => reply[c].data = c
        /\ reply[c].data # None => reply[c].state \in {"working", "completed", "canceled"}

(* The entries that are written or being written. *)
Begun == kept \cup {writing[p].entry : p \in {q \in Process : writing[q] # Idle}}

(* "Reading the trail back afterwards shows exactly what crossed the wire": *)
(* no record is begun before the record of what caused it is kept, and a   *)
(* call that ended well has left them all.  This is the order of writing,  *)
(* and what one finds once the call is over; a read in the middle of a     *)
(* call may have passed the file of the cause before it was written.       *)
RecordsTellTheCall ==
    \A c \in Call :
        /\ Is(c, "received") \in Begun => Is(c, "asked") \in kept
        /\ Is(c, "completed") \in Begun \/ Is(c, "failed") \in Begun =>
              Is(c, "received") \in kept
        /\ Is(c, "answered") \in Begun =>
              /\ Is(c, "asked") \in kept
              /\ reply[c].data # None => Is(c, "received") \in kept
        /\ caller[c] = "returned" => Is(c, "answered") \in kept
        /\ agent[c] = "done" /\ task[c] = "completed" => Is(c, "completed") \in kept
        /\ agent[c] = "done" /\ task[c] = "failed" /\ AgentOf[c] \notin Silent =>
              Is(c, "failed") \in kept

(* A call that has ended leaves its HTTP client open only when no message  *)
(* ever went out.                                                          *)
LeakIsUnsent ==
    \A c \in Call : http[c] = "open" /\ caller[c] \in Ended =>
        agent[c] = "none" /\ Is(c, "answered") \notin Begun

(* Every task an agent accepts is closed and every call that was sent      *)
(* comes back, without a timeout, unless a record could not be written or  *)
(* a restart took the agent away.                                          *)
CallsComeToRest ==
    \A c \in Call :
        /\ task[c] # "none" ~> task[c] \in Terminal \/ agent[c] = "died"
        /\ caller[c] = "streaming" ~> caller[c] \in Ended
===============================================================================
