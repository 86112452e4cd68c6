----------------------------- MODULE InboundTurn -----------------------------
(***************************************************************************)
(* workers/inbound.py: one customer turn, run by StreamConsumer's loop for  *)
(* every entry of the inbound stream, beside the agents of Inbox.  All      *)
(* entries are messages of one customer, so they meet in one conversation.  *)
(*                                                                         *)
(* A turn is one transaction at READ COMMITTED.  It reads the conversation, *)
(* then asks whether a human has it, then spends seconds in the model, and  *)
(* writes everything at its commit; the row locks it takes are taken just   *)
(* before the commit and order commits, not reads.  The script state is     *)
(* abstracted to how often each message has been taken into it.            *)
(***************************************************************************)
EXTENDS StreamConsumer, Inbox

CONSTANT Wordless    \* messages the turn answers with an empty reply

VARIABLES turn,      \* where in _handle each process is
          seen,      \* the state each process loaded
          said,      \* customer lines in the thread, per message
          answered,  \* turns committed and billed, per message
          jobs,      \* replies on the outbound stream, per message
          over       \* history: turns committed while a human had the conversation

records == <<said, answered, jobs, over>>
conversation == <<row, script>>
turnVars == <<vars, inbox, conversation, turn, seen, records>>

Fresh == [e \in Entries |-> 0]
Turns == {"load", "check", "model", "suspend", "reply", "silent"}

TurnInit ==
    /\ Init /\ InboxInit
    /\ row = FALSE
    /\ script = Fresh
    /\ turn = [w \in Workers |-> "load"]
    /\ seen = [w \in Workers |-> Fresh]
    /\ said = Fresh /\ answered = Fresh /\ jobs = Fresh
    /\ over = 0

At(w, e, t) == Handling(w, e) /\ stage[w] = "handle" /\ e \notin blank[w] /\ turn[w] = t

\* The handler is left, by return, by exception or by death.
Leave(w) ==
    /\ turn' = [turn EXCEPT ![w] = "load"]
    /\ seen' = [seen EXCEPT ![w] = Fresh]

\* store.load: the state column, or a fresh state when there is no row.
Load(w, e) ==
    /\ At(w, e, "load")
    /\ seen' = [seen EXCEPT ![w] = IF row THEN script ELSE Fresh]
    /\ turn' = [turn EXCEPT ![w] = "check"]
    /\ UNCHANGED <<vars, inbox, conversation, records>>

\* The tenant's vertical is read first, and one this worker cannot serve is
\* terminal.  Which it is, is up to the tenants row and the deployment.
RefuseVertical(w, e) ==
    /\ At(w, e, "load")
    /\ HandleTerminal(w, e)
    /\ Leave(w)
    /\ UNCHANGED <<inbox, conversation, records>>

\* Slip: a message that finds a human attached is dropped.
DropSuspended(w, e) ==
    /\ At(w, e, "check")
    /\ IF row /\ Live
          THEN Goto(w, "ack") /\ turn' = [turn EXCEPT ![w] = "load"]
          ELSE UNCHANGED process /\ turn' = [turn EXCEPT ![w] = "model"]
    /\ UNCHANGED <<stream, pel, crashes, history, inbox, conversation, seen, records>>

\* Slip: the handoff is not asked about.
CheckNothing(w, e) ==
    /\ At(w, e, "check")
    /\ turn' = [turn EXCEPT ![w] = "model"]
    /\ UNCHANGED <<vars, inbox, conversation, seen, records>>

\* store.find and live_for_conversation: does a human have the conversation?
CheckHandoff(w, e) ==
    /\ At(w, e, "check")
    /\ turn' = [turn EXCEPT ![w] = IF row /\ Live THEN "suspend" ELSE "model"]
    /\ UNCHANGED <<vars, inbox, conversation, seen, records>>

\* Slip: the suspended turn commits without the customer's words.
CommitNothing(w, e) ==
    /\ At(w, e, "suspend")
    /\ Work(w, e)
    /\ turn' = [turn EXCEPT ![w] = "silent"]
    /\ UNCHANGED <<inbox, conversation, seen, records>>

\* The customer's words are recorded for the agent and the script is left alone.
CommitSuspended(w, e) ==
    /\ At(w, e, "suspend")
    /\ Work(w, e)
    /\ said' = [said EXCEPT ![e] = @ + 1]
    /\ turn' = [turn EXCEPT ![w] = "silent"]
    /\ UNCHANGED <<inbox, conversation, seen, answered, jobs, over>>

\* Slip: the state that was loaded is saved, not the one the turn returned.
CommitOldState(w, e) ==
    /\ At(w, e, "model")
    /\ Work(w, e)
    /\ row' = TRUE
    /\ script' = seen[w]
    /\ said' = [said EXCEPT ![e] = @ + 1]
    /\ answered' = [answered EXCEPT ![e] = @ + 1]
    /\ over' = IF Live THEN over + 1 ELSE over
    /\ turn' = [turn EXCEPT ![w] = "reply"]
    /\ UNCHANGED <<inbox, seen, jobs>>

\* After the model: the upsert of the state loaded before it, both sides of the
\* exchange and every ledger row, in one commit.
CommitTurn(w, e) ==
    /\ At(w, e, "model")
    /\ Work(w, e)
    /\ row' = TRUE
    /\ script' = [seen[w] EXCEPT ![e] = @ + 1]
    /\ said' = [said EXCEPT ![e] = @ + 1]
    /\ answered' = [answered EXCEPT ![e] = @ + 1]
    /\ over' = IF Live THEN over + 1 ELSE over
    /\ turn' = [turn EXCEPT ![w] = "reply"]
    /\ UNCHANGED <<inbox, seen, jobs>>

\* _enqueue_reply puts nothing on the stream when there are no words.
Enqueued(e) == IF e \in Wordless THEN jobs ELSE [jobs EXCEPT ![e] = @ + 1]

\* The reply goes onto the outbound stream, and the handler returns.
EnqueueReply(w, e) ==
    /\ turn[w] = "reply"
    /\ HandleOk(w, e)
    /\ jobs' = Enqueued(e)
    /\ Leave(w)
    /\ UNCHANGED <<inbox, conversation, said, answered, over>>

ReturnSilent(w, e) ==
    /\ turn[w] = "silent"
    /\ HandleOk(w, e)
    /\ Leave(w)
    /\ UNCHANGED <<inbox, conversation, records>>

\* An exception anywhere: before the commit the transaction is rolled back,
\* after it the reply was not enqueued, or was and the call still raised.
FailTurn(w, e) ==
    /\ HandleError(w, e)
    /\ jobs' \in {jobs} \cup (IF turn[w] = "reply" THEN {Enqueued(e)} ELSE {})
    /\ Leave(w)
    /\ UNCHANGED <<inbox, conversation, said, answered, over>>

Turn(w, e) ==
    \/ Load(w, e) \/ RefuseVertical(w, e) \/ CheckHandoff(w, e)
    \/ CommitSuspended(w, e) \/ CommitTurn(w, e)
    \/ EnqueueReply(w, e) \/ ReturnSilent(w, e) \/ FailTurn(w, e)

\* The loop around the handler.
Loop(w) ==
    /\ \/ EnsureGroup(w) \/ ReadHistory(w) \/ ReadNew(w)
       \/ \E e \in Entries : MissingPayload(w, e) \/ CountAttempts(w, e) \/ Bury(w, e) \/ Ack(w, e)
    /\ UNCHANGED <<inbox, conversation, turn, seen, records>>

RunWorker(w) == Loop(w) \/ \E e \in Entries : Turn(w, e)
StopWorker(w) == Crash(w) /\ Leave(w) /\ UNCHANGED <<inbox, conversation, records>>
StartWorker(w) == Restart(w) /\ UNCHANGED <<inbox, conversation, turn, seen, records>>

TurnNext ==
    \/ Publish /\ UNCHANGED <<inbox, conversation, turn, seen, records>>
    \/ InboxNext /\ UNCHANGED <<vars, turn, seen, records>>
    \/ \E w \in Workers : RunWorker(w) \/ StopWorker(w) \/ StartWorker(w)

TurnSpec == TurnInit /\ [][TurnNext]_turnVars

\* The worker process and its restart are fair; people and vendors are not.
FairTurnSpec ==
    TurnSpec /\ \A w \in Workers : WF_turnVars(RunWorker(w)) /\ WF_turnVars(StartWorker(w))
-----------------------------------------------------------------------------
TurnTypeOK ==
    /\ TypeOK
    /\ row \in BOOLEAN
    /\ {script, said, answered, jobs} \subseteq [Entries -> Nat]
    /\ handoff \in [status : Statuses, by : Agents \cup {NoAgent},
                    resume : [Entries -> Nat] \cup {NoScript}]
    /\ turn \in [Workers -> Turns] /\ seen \in [Workers -> [Entries -> Nat]]
    /\ replying \in SUBSET Agents
    /\ {opens, agentLines, agentJobs, over} \subseteq Nat

\* "Published after the commit, deliberately": no reply, the bot's or an
\* agent's, is on its way to the customer without being in the thread.
NothingSentUnrecorded ==
    /\ \A e \in Entries : jobs[e] <= answered[e]
    /\ agentJobs <= agentLines

\* "Which the pending-entry retry recovers": once a turn's entry is acked as
\* handled, an answer the thread shows was put on the outbound stream, unless
\* the retry that should have done so found a human in the conversation.
CommittedReplyIsSent ==
    \A e \in acked \ Wordless :
        dead[e] = 0 /\ answered[e] > 0 => jobs[e] > 0 \/ said[e] > answered[e]

\* Every customer message whose entry was acked is in the thread or dead-lettered.
AckedIsRecorded == \A e \in acked : said[e] > 0 \/ dead[e] > 0

\* "A thread that can disagree with the conversation state is one an agent reads
\* while the bot believes something else": the state has taken in exactly the
\* turns committed beside it, so long as none was committed over a human, which
\* the return of the conversation then rolls back.
StateMatchesThread == row /\ over = 0 => script = answered

\* The thread, the state beside it, the turns' entries and the outbound stream
\* tell one story at every moment, across deaths, retries and handoffs.
ThreadAndQueuesAgree ==
    NothingSentUnrecorded /\ CommittedReplyIsSent /\ AckedIsRecorded /\ StateMatchesThread

\* "A human has the conversation: the bot does not speak."  The check comes
\* before the model call, so the turn that is in it when a handoff opens still
\* answers, but never a second one of the same worker.
SpeaksOverOnce == over <= opens * Cardinality(Workers)

\* The turn worker is a StreamConsumer.
ImplementsConsumer == Spec

\* Every message ends as words for a person: a reply on its way, a line an agent
\* reads, or a dead letter.
EventuallyAttended ==
    \A e \in Entries :
        (e <= tail) ~> ((said[e] > 0 /\ e \in acked) \/ dead[e] > 0 \/ Dropped(e))
=============================================================================
