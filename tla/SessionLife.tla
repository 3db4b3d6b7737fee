----------------------------- MODULE SessionLife -----------------------------
(***************************************************************************)
(* What the terminal service promises about a session, whatever the tasks  *)
(* that serve it do: a session opens once, is used by at most one client,  *)
(* and ends for good.  PtySession is shown to implement this module.       *)
(***************************************************************************)
CONSTANTS Sessions, Handlers, NoOne

VARIABLES
  life,    \* life[s]: where session s is in its life
  client   \* client[s]: the one client session s was given to, or NoOne

vars == <<life, client>>

Lives == {"none", "open", "used", "ended"}

Init == /\ life = [s \in Sessions |-> "none"]
        /\ client = [s \in Sessions |-> NoOne]

\* A created session waits for its client.
Open(s) == /\ life[s] = "none"
           /\ life' = [life EXCEPT ![s] = "open"]
           /\ UNCHANGED client

\* A client takes the waiting session; nobody else can afterwards.
Use(s, h) == /\ life[s] = "open"
             /\ life' = [life EXCEPT ![s] = "used"]
             /\ client' = [client EXCEPT ![s] = h]

\* The session nobody took is given up.
Expire(s) == /\ life[s] = "open"
             /\ life' = [life EXCEPT ![s] = "ended"]
             /\ UNCHANGED client

\* The session in use ends.
End(s) == /\ life[s] = "used"
          /\ life' = [life EXCEPT ![s] = "ended"]
          /\ UNCHANGED client

Leave(s) == Expire(s) \/ \E h \in Handlers : Use(s, h)

Next == \E s \in Sessions : Open(s) \/ Leave(s) \/ End(s)

\* Only the wait is bounded: a session in use may stay in use for ever.
Fairness == \A s \in Sessions : WF_vars(Leave(s))

Safety == Init /\ [][Next]_vars

Spec == Safety /\ Fairness
=============================================================================
