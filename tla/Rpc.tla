-------------------------------- MODULE Rpc --------------------------------
(***************************************************************************)
(* What server/dispatcher.h promises the threads that call                 *)
(* dispatcher_send_message, without sockets, locks or words: a call is     *)
(* posted once, the receiver serves the posted messages whole and in their *)
(* order, a type registered with DISPATCHER_ACK keeps its caller until the *)
(* message has been served, and for a type registered with DISPATCHER_ASYNC*)
(* the completion callback runs after the message and before the next one. *)
(***************************************************************************)
EXTENDS Naturals, Sequences

CONSTANTS
  Senders,    \* threads that call dispatcher_send_message
  Types,      \* registered message types
  Size,       \* words in the body of a type (its sizeof, possibly 0)
  AckOf,      \* "none", "ack" or "async", as registered
  MaxPosts,   \* bound: messages posted in a behaviour
  None

VARIABLES
  call,       \* call[s]: type a thread is asking for, or None
  mine,       \* mine[s]: number of the message it posted, 0 before
  posts,      \* messages posted, [from, type]
  handled,    \* messages the handlers were given, [type, body]
  owes,       \* a completion callback is due
  completed   \* messages the completion callback was given

vars == <<call, mine, posts, handled, owes, completed>>

\* What a handler must be given for message n: its own words, all, in order.
Meaning(n) ==
  LET t == posts[n].type
  IN  [type |-> t, body |-> [k \in 1 .. Size[t] |-> [n |-> n, part |-> k]]]

Init ==
  /\ call = [s \in Senders |-> None]
  /\ mine = [s \in Senders |-> 0]
  /\ posts = <<>>
  /\ handled = <<>>
  /\ owes = FALSE
  /\ completed = <<>>

Ask(s, t) ==
  /\ call[s] = None
  /\ call' = [call EXCEPT ![s] = t]
  /\ UNCHANGED <<mine, posts, handled, owes, completed>>

Post(s) ==
  /\ call[s] # None
  /\ mine[s] = 0
  /\ posts' = Append(posts, [from |-> s, type |-> call[s]])
  /\ mine' = [mine EXCEPT ![s] = Len(posts')]
  /\ UNCHANGED <<call, handled, owes, completed>>

Serve ==
  /\ ~owes
  /\ Len(handled) < Len(posts)
  /\ handled' = Append(handled, Meaning(Len(handled) + 1))
  /\ owes' = (AckOf[posts[Len(handled) + 1].type] = "async")
  /\ UNCHANGED <<call, mine, posts, completed>>

Complete ==
  /\ owes
  /\ completed' = Append(completed, handled[Len(handled)])
  /\ owes' = FALSE
  /\ UNCHANGED <<call, mine, posts, handled>>

Return(s) ==
  /\ mine[s] # 0
  /\ AckOf[call[s]] = "ack" => mine[s] <= Len(handled)
  /\ call' = [call EXCEPT ![s] = None]
  /\ mine' = [mine EXCEPT ![s] = 0]
  /\ UNCHANGED <<posts, handled, owes, completed>>

Next ==
  \/ \E s \in Senders : (\E t \in Types : Ask(s, t)) \/ Post(s) \/ Return(s)
  \/ Serve
  \/ Complete

Spec == Init /\ [][Next]_vars
=============================================================================
