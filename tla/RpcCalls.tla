------------------------------ MODULE RpcCalls ------------------------------
(***************************************************************************)
(* What the remote procedure calls of one client promise: a call runs at   *)
(* most once, whatever becomes of its caller; only the caller of a call    *)
(* that has run to its end gets an answer; and nobody gets two outcomes.   *)
(***************************************************************************)
CONSTANT Caller

VARIABLES outcome,  \* outcome[c]: what the caller c has seen of its call
          effect    \* effect[c]: how far the server is with the call of c

Init ==
  /\ outcome = [c \in Caller |-> "idle"]
  /\ effect = [c \in Caller |-> "none"]

Sees(c, from, to) ==
  outcome[c] = from /\ outcome' = [outcome EXCEPT ![c] = to] /\ UNCHANGED effect

Happens(c, from, to) ==
  effect[c] = from /\ effect' = [effect EXCEPT ![c] = to] /\ UNCHANGED outcome

Ask(c) == \E answer \in {"open", "refused", "lost"} : Sees(c, "idle", answer)
Begin(c) == outcome[c] \notin {"idle", "refused"} /\ Happens(c, "none", "begun")
Finish(c) == Happens(c, "begun", "done")
Answer(c) == effect[c] = "done" /\ Sees(c, "open", "answer")
GiveUp(c) == Sees(c, "open", "gone")

\* A connection or a process that ends takes open calls and handlers along.
Break ==
  /\ \E L \in SUBSET {c \in Caller : outcome[c] = "open"}, end \in {"lost", "gone"} :
       outcome' = [c \in Caller |-> IF c \in L THEN end ELSE outcome[c]]
  /\ \E C \in SUBSET {c \in Caller : effect[c] = "begun"} :
       effect' = [c \in Caller |-> IF c \in C THEN "cut" ELSE effect[c]]

Next ==
  \/ \E c \in Caller : Ask(c) \/ Begin(c) \/ Finish(c) \/ Answer(c) \/ GiveUp(c)
  \/ Break

Spec == Init /\ [][Next]_<<outcome, effect>>
=============================================================================
