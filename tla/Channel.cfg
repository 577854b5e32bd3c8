\* Two sending threads and the loop thread, three messages: a batch of two
\* behind one byte, a send during a dispatch (from another thread and from
\* the callback itself), and a send after a reattach.
SPECIFICATION FairSpec
CONSTANTS
  Message = {m1, m2, m3}
  Sender = {s1, s2}
  LoopThread = loop
  Free = Free
INVARIANTS
  NoLostWakeup
  OutcomeIsHonest
PROPERTIES
  SendHangsOnlyIfCallbackSends
  ImplementsFairMailbox
\* Once everything is sent and the receiver dropped, nothing is left to do.
CHECK_DEADLOCK FALSE
