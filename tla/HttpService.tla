---------------------------- MODULE HttpService ----------------------------
(***************************************************************************)
(* What a client of one connection is promised, without buffers, reads,    *)
(* temporary files or timers: its requests are answered one at a time, in  *)
(* the order it sent them, each from its own body, and after the answer    *)
(* that announces `connection: close` there are no more.  The server may   *)
(* give up on the connection at any moment between answers.                *)
(***************************************************************************)
EXTENDS Naturals, Sequences

CONSTANTS BodyOf(_, _),   \* the body the i-th request of a script carries
          Refusable(_)    \* a request that does not parse, or is over a limit

VARIABLES asked,    \* the requests the client sends, in order
          answers,  \* the answers it got
          open      \* the server may still answer

Answer(i, served, last) ==
    [req |-> i, body |-> IF served THEN BodyOf(asked, i) ELSE <<>>, served |-> served, close |-> last]

Init == answers = <<>> /\ open = TRUE

\* The next request is served, or refused if it has to be; a refusal is the last answer.
AnswerNext ==
    /\ open /\ Len(answers) < Len(asked)
    /\ \E served, last \in BOOLEAN :
          /\ served \/ (last /\ Refusable(asked[Len(answers) + 1]))
          /\ answers' = Append(answers, Answer(Len(answers) + 1, served, last))
          /\ open' = ~last
    /\ UNCHANGED asked

GiveUp == open /\ open' = FALSE /\ UNCHANGED <<asked, answers>>

Next == AnswerNext \/ GiveUp

Spec == Init /\ [][Next]_<<asked, answers, open>>
=============================================================================
