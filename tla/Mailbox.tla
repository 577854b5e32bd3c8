------------------------------ MODULE Mailbox ------------------------------
(***************************************************************************)
(* What pipewire/src/channel.rs promises its users, with no pipe, no mutex *)
(* and no event loop: a mailbox that accepts messages from any number of   *)
(* senders and, while it is open (its receiver is attached to a loop and   *)
(* has not locked itself out), hands them to the callback one at a time,   *)
(* oldest first, each once.                                                *)
(***************************************************************************)
EXTENDS Sequences

CONSTANT Message       \* the values that can be sent

VARIABLES
  inbox,               \* accepted and not yet handed over, oldest first
  received,            \* handed over, in the order of the callback calls
  refused,             \* given back to the caller of send
  open                 \* is the receiver attached to a loop?

mailVars == <<inbox, received, refused, open>>

MailInit ==
  /\ inbox = <<>>
  /\ received = <<>>
  /\ refused = {}
  /\ open = FALSE

(* send returned, or will return, Ok(()). *)
Accept(m) ==
  /\ inbox' = Append(inbox, m)
  /\ UNCHANGED <<received, refused, open>>

(* send returned Err(m): the caller has the message back. *)
Refuse(m) ==
  /\ m \notin refused
  /\ refused' = refused \cup {m}
  /\ UNCHANGED <<inbox, received, open>>

(* The callback is invoked with the oldest message. *)
HandOver ==
  /\ open
  /\ inbox # <<>>
  /\ received' = Append(received, Head(inbox))
  /\ inbox' = Tail(inbox)
  /\ UNCHANGED <<refused, open>>

(* attach, deattach, the drop of the attached receiver, or a callback that *)
(* waits for its own mailbox and never returns.                            *)
OpenOrClose ==
  /\ open' = ~open
  /\ UNCHANGED <<inbox, received, refused>>

MailNext ==
  \/ \E m \in Message : Accept(m) \/ Refuse(m)
  \/ HandOver
  \/ OpenOrClose

MailSpec == MailInit /\ [][MailNext]_mailVars

(* A mailbox that stays open empties itself. *)
MailFairSpec == MailSpec /\ WF_mailVars(HandOver)
=============================================================================
