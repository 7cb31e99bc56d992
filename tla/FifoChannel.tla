------------------------------ MODULE FifoChannel ------------------------------
(***************************************************************************)
(* What BlockingQueue promises: messages arrive in the order they were     *)
(* sent, each once, at one of the threads that ask for one, and a thread   *)
(* that asks gets one as soon as there is one that nobody got.             *)
(***************************************************************************)
EXTENDS Naturals, Sequences

CONSTANTS Threads, Messages

VARIABLES
  sent,    \* the messages sent, in order
  got,     \* the receptions, in order: <<thread, message>>
  asking   \* the threads that wait for a message

chanVars == <<sent, got, asking>>

ChanInit == sent = <<>> /\ got = <<>> /\ asking = {}

Send(m) ==
  /\ sent' = Append(sent, m)
  /\ UNCHANGED <<got, asking>>

Ask(t) ==
  /\ t \notin asking
  /\ asking' = asking \cup {t}
  /\ UNCHANGED <<sent, got>>

Receive(t) ==
  /\ t \in asking
  /\ Len(got) < Len(sent)
  /\ got' = Append(got, <<t, sent[Len(got) + 1]>>)
  /\ asking' = asking \ {t}
  /\ UNCHANGED sent

SomeoneReceives == \E t \in Threads : Receive(t)

ChanNext ==
  \/ \E m \in Messages : Send(m)
  \/ \E t \in Threads : Ask(t)
  \/ SomeoneReceives

ChanSafe == ChanInit /\ [][ChanNext]_chanVars

(* Somebody receives as long as there is an unread message and a reader. *)
ChanSpec == ChanSafe /\ WF_chanVars(SomeoneReceives)

=============================================================================
