-------------------------------- MODULE Inbox --------------------------------
(***************************************************************************)
(* One conversation as the human side sees it: the handoff rows of          *)
(* agent/handoff.py and the handlers of api/inbox.py that change them.  The *)
(* conversation row itself (row, script) is shared with the inbound worker. *)
(* Each handler is one database transaction; reply goes on to publish the   *)
(* job after its commit, so it is two steps.                               *)
(***************************************************************************)
EXTENDS Naturals

CONSTANTS Agents,
          NoAgent,
          NoScript,     \* the state of a conversation nobody has written yet
          MaxOpens,     \* bound: handoffs opened
          MaxReplies    \* bound: agent replies

VARIABLES row,          \* the conversations row exists
          script,       \* its state column
          handoff,      \* the latest handoffs row
          opens,
          replying,     \* agents whose reply is committed and not yet published
          agentLines,   \* agent messages in the thread
          agentJobs     \* agent replies on the outbound stream

inbox == <<handoff, opens, replying, agentLines, agentJobs>>

Statuses == {"none", "open", "claimed", "returned"}

InboxInit ==
    /\ handoff = [status |-> "none", by |-> NoAgent, resume |-> NoScript]
    /\ opens = 0
    /\ replying = {}
    /\ agentLines = 0
    /\ agentJobs = 0

\* The condition of the partial unique index, and of live_for_conversation.
Live == handoff.status \in {"open", "claimed"}

\* HandoffStore.open: the unique index refuses a second live one.
Open ==
    /\ row /\ ~Live
    /\ opens < MaxOpens
    /\ opens' = opens + 1
    /\ handoff' = [status |-> "open", by |-> NoAgent, resume |-> script]
    /\ UNCHANGED <<row, script, replying, agentLines, agentJobs>>

\* POST /claim: any handoff that is not returned.
ClaimHandoff(a) ==
    /\ Live
    /\ handoff' = [handoff EXCEPT !.status = "claimed", !.by = a]
    /\ UNCHANGED <<row, script, opens, replying, agentLines, agentJobs>>

\* POST /reply, up to the commit.  Any agent, any handoff that exists.
RecordReply(a) ==
    /\ handoff.status # "none"
    /\ a \notin replying
    /\ agentLines < MaxReplies
    /\ agentLines' = agentLines + 1
    /\ replying' = replying \cup {a}
    /\ UNCHANGED <<row, script, handoff, opens, agentJobs>>

\* POST /reply, the job onto the outbound stream.
PublishReply(a) ==
    /\ a \in replying
    /\ agentJobs' = agentJobs + 1
    /\ replying' = replying \ {a}
    /\ UNCHANGED <<row, script, handoff, opens, agentLines>>

\* POST /reply ends between the two: the process dies, or the publish raises.
LoseReply(a) ==
    /\ a \in replying
    /\ replying' = replying \ {a}
    /\ UNCHANGED <<row, script, handoff, opens, agentLines, agentJobs>>

\* POST /return: the frozen cursor is written back over whatever is there.
ReturnToBot ==
    /\ Live
    /\ handoff' = [handoff EXCEPT !.status = "returned"]
    /\ script' = handoff.resume
    /\ UNCHANGED <<row, opens, replying, agentLines, agentJobs>>

InboxNext ==
    \/ Open \/ ReturnToBot
    \/ \E a \in Agents : ClaimHandoff(a) \/ RecordReply(a) \/ PublishReply(a) \/ LoseReply(a)
=============================================================================
