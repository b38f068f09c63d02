-------------------------- MODULE ReadThroughCache --------------------------
(***************************************************************************)
(* What the response cache promises its clients, whatever its layers do:   *)
(* a request is answered once, with the body it fetched itself or with one *)
(* that was published before; and a request publishes what it fetched      *)
(* before it is answered, never after.                                     *)
(***************************************************************************)
CONSTANTS Requests, None

VARIABLES
    published,  \* the bodies other requests may be answered with
    answer      \* whose body a request was answered with

Init ==
    /\ published = {}
    /\ answer = [r \in Requests |-> None]

\* A request publishes its body, and may be answered with it at once.
Publish(r) ==
    /\ answer[r] = None
    /\ published' = published \union {r}
    /\ answer' \in {answer, [answer EXCEPT ![r] = r]}

AnswerOwn(r) ==
    /\ answer[r] = None
    /\ answer' = [answer EXCEPT ![r] = r]
    /\ UNCHANGED published

\* The requests that miss together are answered together.
AnswerCached(rs, v) ==
    /\ v \in published
    /\ \A r \in rs : answer[r] = None
    /\ answer' = [r \in Requests |-> IF r \in rs THEN v ELSE answer[r]]
    /\ UNCHANGED published

Next ==
    \/ \E r \in Requests : Publish(r) \/ AnswerOwn(r)
    \/ \E rs \in SUBSET Requests, v \in published : AnswerCached(rs, v)

Spec == Init /\ [][Next]_<<published, answer>>
=============================================================================
