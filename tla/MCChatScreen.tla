---------------------------- MODULE MCChatScreen ----------------------------
(* ChatScreen on small instances: what may go wrong, a few things at a time. *)
EXTENDS ChatScreen, TLC

Budget(b) == b @@ [w \in Whims |-> 0]

ChatBudgets == {
  Budget([type |-> 2, drop |-> 1, ask |-> 1, work |-> 1]),                \* a turn that outlives its socket
  Budget([type |-> 2, drop |-> 1, reap |-> 1, work |-> 1]),               \* and one that does not
  Budget([type |-> 1, drop |-> 2, ask |-> 1]),
  Budget([type |-> 2, drop |-> 1, note |-> 1]),                           \* rows the history lacks
  Budget([type |-> 2, leave |-> 1, open |-> 1, ask |-> 1]),               \* visits
  Budget([type |-> 1, leave |-> 1, open |-> 1, drop |-> 1, work |-> 1]),
  Budget([type |-> 1, leave |-> 1, drop |-> 1, ask |-> 1]),
  Budget([type |-> 1, open |-> 1, drop |-> 1, work |-> 1, ask |-> 1]),
  Budget([type |-> 2, open |-> 1, new |-> 1, timeout |-> 1, ask |-> 1]),  \* two conversations
  Budget([type |-> 1, rewind |-> 1, open |-> 1, new |-> 1, timeout |-> 1]),
  Budget([type |-> 1, drop |-> 1, ask |-> 1, work |-> 1, timeout |-> 1]), \* answers that come to nothing
  Budget([type |-> 2, rewind |-> 1, work |-> 1]),
  Budget([type |-> 2, stop |-> 1, new |-> 1, open |-> 1])}

PromptsAlike == Permutations(Prompt)

=============================================================================
