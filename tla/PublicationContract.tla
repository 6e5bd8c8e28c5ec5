------------------------- MODULE PublicationContract -------------------------
(***************************************************************************)
(* What a sealed run is promised, whatever passes, failures and maintainers *)
(* do: one content per run, fixed for ever by its record; public evidence   *)
(* only for a recorded run; a receipt only after the evidence, and for the  *)
(* recorded content; a staging ref deleted only once the receipt is old; and *)
(* one bootstrap per lane as the reference of its comparisons, for ever.    *)
(***************************************************************************)
CONSTANTS
    Run, Lane, Result, None,
    LaneOf,     \* [Run -> Lane]
    Owner,      \* [Result -> Run]
    Baseline,   \* [Result -> Result \cup {None}]
    Admissible, \* results that pass the gates that read only the sealed file
    Bootstrap,  \* results that may become their lane's reference
    FirstContent,   \* what is published already when the behaviour starts
    FirstReference

VARIABLES
    content,    \* per run: the recorded result
    reference,  \* per lane: the bootstrap run its comparisons start from
    announced,  \* runs with public evidence
    published,  \* per run: the result its receipt names
    old,        \* runs whose receipt is past the retention period
    staged      \* runs with a staging ref

vars == <<content, reference, announced, published, old, staged>>

Init ==
    /\ content = FirstContent
    /\ reference = FirstReference
    /\ announced = {r \in Run : content[r] # None}
    /\ published = content
    /\ old = {}
    /\ staged = {}

Stage(r) ==
    /\ r \notin staged
    /\ staged' = staged \cup {r}
    /\ UNCHANGED <<content, reference, announced, published, old>>

Record(x) ==
    /\ content[Owner[x]] = None
    /\ x \in Admissible
    /\ Owner[x] \in staged
    /\ Baseline[x] # None => content[Owner[Baseline[x]]] = Baseline[x]
    /\ content' = [content EXCEPT ![Owner[x]] = x]
    /\ \/ reference' = reference
       \/ /\ x \in Bootstrap
          /\ reference[LaneOf[Owner[x]]] = None
          /\ reference' = [reference EXCEPT ![LaneOf[Owner[x]]] = Owner[x]]
    /\ UNCHANGED <<announced, published, old, staged>>

Announce(r) ==
    /\ content[r] # None
    /\ announced' = announced \cup {r}
    /\ UNCHANGED <<content, reference, published, old, staged>>

Publish(r) ==
    /\ r \in announced
    /\ published[r] = None
    /\ published' = [published EXCEPT ![r] = content[r]]
    /\ UNCHANGED <<content, reference, announced, old, staged>>

Expire(r) ==
    /\ published[r] # None
    /\ old' = old \cup {r}
    /\ UNCHANGED <<content, reference, announced, published, staged>>

Unstage(r) ==
    /\ r \in old
    /\ staged' = staged \ {r}
    /\ UNCHANGED <<content, reference, announced, published, old>>

Next ==
    \/ \E r \in Run : Stage(r) \/ Announce(r) \/ Publish(r) \/ Expire(r) \/ Unstage(r)
    \/ \E x \in Result : Record(x)

Spec == Init /\ [][Next]_vars

=============================================================================
