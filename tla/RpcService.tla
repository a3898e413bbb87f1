----------------------------- MODULE RpcService -----------------------------
(***************************************************************************)
(* What a request/response channel promises its client: requests are taken *)
(* one at a time, and each is answered once, with its own identity, before *)
(* the next is taken, unless the channel ends.  A json-rpc 2.0             *)
(* notification asks for no answer, and a request may be for an event that *)
(* need not come.                                                          *)
(***************************************************************************)
EXTENDS Naturals, Sequences

VARIABLES
    taken,          \* requests taken, numbered from one
    silent,         \* the last taken is a notification
    waits,          \* it awaits an event that need not come
    outstanding,    \* the request not yet settled, or zero
    answers,        \* identities answered, in order
    open            \* the channel has not ended

service == <<taken, silent, waits, outstanding, answers, open>>

ServiceInit ==
    /\ taken = 0 /\ silent = FALSE /\ waits = FALSE /\ outstanding = 0
    /\ answers = <<>> /\ open = TRUE

Take ==
    /\ open /\ outstanding = 0
    /\ taken' = taken + 1
    /\ silent' \in BOOLEAN
    /\ outstanding' = taken'
    /\ UNCHANGED <<waits, answers, open>>

\* The outstanding request is found to be for such an event.
Await ==
    /\ open /\ outstanding # 0 /\ ~waits
    /\ waits' = TRUE
    /\ UNCHANGED <<taken, silent, outstanding, answers, open>>

\* The outstanding request is answered, unless it is a notification.  The
\* channel may end with the answer.
Answer ==
    /\ open /\ outstanding # 0
    /\ answers' = IF silent THEN answers ELSE Append(answers, outstanding)
    /\ outstanding' = 0 /\ waits' = FALSE
    /\ open' \in BOOLEAN
    /\ UNCHANGED <<taken, silent>>

End ==
    /\ open
    /\ open' = FALSE
    /\ UNCHANGED <<taken, silent, waits, outstanding, answers>>

ServiceNext == Take \/ Await \/ Answer \/ End

\* An open channel settles what it takes, unless it awaits an event.
Settle == outstanding # 0 /\ ~waits /\ (Answer \/ End)

ServiceSafety == ServiceInit /\ [][ServiceNext]_service

ServiceSpec == ServiceSafety /\ WF_service(Settle)
=============================================================================
