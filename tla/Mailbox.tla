------------------------------- MODULE Mailbox -------------------------------
(***************************************************************************)
(* What a task queue promises to those who post to it, without the event,  *)
(* the lock and the threads' steps: a server with empty hands takes all    *)
(* the mail there is and serves it letter by letter in the order of the    *)
(* mail.  A letter posted as the latest throws away the mail nobody has    *)
(* taken, a failed service throws away the rest of what its server holds.  *)
(***************************************************************************)
EXTENDS Sequences

CONSTANTS Letter, Server

VARIABLES
    mail,       \* the letters nobody has taken, the oldest first
    hand,       \* what each server has taken and not served yet
    serving,    \* the servers that are serving the first letter in their hand
    sent        \* the letters posted so far

mvars == <<mail, hand, serving, sent>>

MailInit ==
    /\ mail = <<>>
    /\ hand = [s \in Server |-> <<>>]
    /\ serving = {}
    /\ sent = {}

PostLetter(t) ==
    /\ t \notin sent
    /\ mail' = Append(mail, t)
    /\ sent' = sent \cup {t}
    /\ UNCHANGED <<hand, serving>>

PostLatest(t) ==
    /\ t \notin sent
    /\ mail' = <<t>>
    /\ sent' = sent \cup {t}
    /\ UNCHANGED <<hand, serving>>

Take(s) ==
    /\ hand[s] = <<>>
    /\ hand' = [hand EXCEPT ![s] = mail]
    /\ mail' = <<>>
    /\ UNCHANGED <<serving, sent>>

Serve(s) ==
    /\ hand[s] # <<>> /\ s \notin serving
    /\ serving' = serving \cup {s}
    /\ UNCHANGED <<mail, hand, sent>>

Served(s) ==
    /\ s \in serving
    /\ serving' = serving \ {s}
    /\ hand' = [hand EXCEPT ![s] = Tail(@)]
    /\ UNCHANGED <<mail, sent>>

Fail(s) ==
    /\ s \in serving
    /\ serving' = serving \ {s}
    /\ hand' = [hand EXCEPT ![s] = <<>>]
    /\ UNCHANGED <<mail, sent>>

MailNext ==
    \/ \E t \in Letter : PostLetter(t) \/ PostLatest(t)
    \/ \E s \in Server : Take(s) \/ Serve(s) \/ Served(s) \/ Fail(s)

MailSpec == MailInit /\ [][MailNext]_mvars
=============================================================================
