------------------------- MODULE RemediationApproval -------------------------
(***************************************************************************)
(* What the remediation pipeline promises its users, one thread at a time: *)
(* a thread offers one patch, a person accepts or refuses that patch, and  *)
(* only an accepted patch is published, once.  Drafting may go on for ever *)
(* and an offer may stay without an answer: threads are abandoned freely.  *)
(***************************************************************************)
CONSTANTS Threads, Patches

VARIABLES
    phase,       \* phase[t]: how far the thread has come
    offer,       \* offer[t]: the patch on the reviewer's screen, if any
    published    \* the patches that reached a pull request

apVars == <<phase, offer, published>>

Phases == {"unborn", "drafting", "offered", "accepted", "refused", "published"}

ApprovalTypeOK ==
    /\ phase \in [Threads -> Phases]
    /\ offer \in [Threads -> SUBSET Patches]
    /\ published \subseteq Patches

Init ==
    /\ phase = [t \in Threads |-> "unborn"]
    /\ offer = [t \in Threads |-> {}]
    /\ published = {}

Move(t, from, to) == phase[t] = from /\ phase' = [phase EXCEPT ![t] = to]

Open(t) == Move(t, "unborn", "drafting") /\ UNCHANGED <<offer, published>>

Offer(t, p) ==
    /\ Move(t, "drafting", "offered")
    /\ offer' = [offer EXCEPT ![t] = {p}]
    /\ UNCHANGED published

Accept(t) == Move(t, "offered", "accepted") /\ UNCHANGED <<offer, published>>

Decline(t) == Move(t, "offered", "refused") /\ UNCHANGED <<offer, published>>

Publish(t) ==
    /\ Move(t, "accepted", "published")
    /\ published' = published \cup offer[t]
    /\ UNCHANGED offer

Next ==
    \E t \in Threads :
        \/ Open(t) \/ Accept(t) \/ Decline(t) \/ Publish(t)
        \/ \E p \in Patches : Offer(t, p)

Spec == Init /\ [][Next]_apVars

\* Nothing is published that was not offered by a thread that is over, and a
\* refused thread publishes nothing.
OnlyAcceptedIsPublished ==
    \A p \in published : \E t \in Threads : /\ phase[t] = "published"
                                            /\ p \in offer[t]
==============================================================================
