----------------------------- MODULE FifoBroker -----------------------------
(***************************************************************************)
(* What a client of the broker may rely on, whatever the worker, its       *)
(* signals and the expunge do: an accepted request is answered once, in    *)
(* the order of acceptance, unless it is aborted; an aborted one says so.  *)
(***************************************************************************)
EXTENDS Naturals, Sequences

CONSTANT Clients

VARIABLES
  line,     \* accepted and unanswered requests, oldest first
  asked,    \* those of them an abort has been accepted for
  outcome   \* what each client reads: "pending" while in line

brokerVars == <<line, asked, outcome>>

Waiting(c) == \E i \in 1 .. Len(line) : line[i] = c

Init ==
  /\ line = <<>> /\ asked = {}
  /\ outcome = [c \in Clients |-> "OK"]

Accept(c) ==
  /\ ~Waiting(c)
  /\ line' = Append(line, c)
  /\ outcome' = [outcome EXCEPT ![c] = "pending"]
  /\ UNCHANGED asked

\* A call that is answered at once and never joins the line.
TurnAway(c) ==
  /\ ~Waiting(c)
  /\ \E answer \in {"OK", "FAILED"} :
       outcome' = [outcome EXCEPT ![c] = answer]
  /\ UNCHANGED <<line, asked>>

AskAbort(c) ==
  /\ Waiting(c)
  /\ asked' = asked \cup {c}
  /\ UNCHANGED <<line, outcome>>

\* Only the oldest request is ever served.
Serve ==
  /\ line # <<>>
  /\ outcome' = [outcome EXCEPT ![Head(line)] =
                   IF Head(line) \in asked THEN "ABORTED" ELSE "OK"]
  /\ asked' = asked \ {Head(line)}
  /\ line' = Tail(line)

\* An abort may pull a request out of the line from any place.
Withdraw(c) ==
  \E i \in 1 .. Len(line) :
    /\ line[i] = c
    /\ line' = [j \in 1 .. Len(line) - 1 |->
                  IF j < i THEN line[j] ELSE line[j + 1]]
    /\ outcome' = [outcome EXCEPT ![c] = "ABORTED"]
    /\ asked' = asked \ {c}

Next ==
  \/ Serve
  \/ \E c \in Clients :
       Accept(c) \/ TurnAway(c) \/ AskAbort(c) \/ Withdraw(c)

Spec == Init /\ [][Next]_brokerVars
=============================================================================
