------------------------------ MODULE MCOnCall ------------------------------
EXTENDS OnCall

MCRota == <<"u1", "u3">>
MCDayStart == [d \in -1..3 |-> 2 * d]
MCLiveDayStart == [d \in -1..5 |-> 2 * d]

\* A level that pages the schedule and one that pages a person; a policy of one
\* level with somebody who cannot be reached.
MCPolicies ==
  [home  |-> [repeat |-> 1, levels |-> <<[delay |-> 1, onRota |-> TRUE, users |-> <<>>],
                                         [delay |-> 1, onRota |-> FALSE, users |-> <<"u2">>]>>],
   other |-> [repeat |-> 0, levels |-> <<[delay |-> 1, onRota |-> TRUE, users |-> <<"u4", "u1">>]>>]]

\* An alert that resolves while it fires, stamped out of order.
MCInbox == <<[alert |-> "a", status |-> "firing", at |-> 3],
             [alert |-> "a", status |-> "resolved", at |-> 4],
             [alert |-> "a", status |-> "resolved", at |-> 2]>>

MCPosts ==
  [create   |-> [what |-> "create", by |-> "u1"],
   hand     |-> [what |-> "hand", by |-> "u1", to |-> "other"],
   ack      |-> [what |-> "acknowledge", by |-> "u1", on |-> 1],
   resolve  |-> [what |-> "resolve", by |-> "u1", on |-> 1],
   person   |-> [what |-> "reassign", by |-> "u1", on |-> 1, to |-> "u2"],
   policy   |-> [what |-> "reassign", by |-> "u1", on |-> 1, to |-> "other"],
   escalate |-> [what |-> "escalate", by |-> "u1", on |-> 1, level |-> 2],
   note     |-> [what |-> "note", by |-> "u4", on |-> 1],
   cover    |-> [what |-> "override", by |-> "u1", user |-> "u2", from |-> 1, to |-> 2]]

\* For the whole length of a policy: a service without auto_resolve, and what
\* gives an incident to somebody else.
MCLiveInbox == <<[alert |-> "b", status |-> "firing", at |-> 3],
                 [alert |-> "b", status |-> "resolved", at |-> 4]>>
MCLivePosts == [k \in {"person", "policy"} |-> MCPosts[k]]
=============================================================================
