-------------------------------- MODULE Post --------------------------------
(***************************************************************************)
(* What a federation promises about letters between worlds: post.  A letter *)
(* that is posted may be lost, but it arrives once at most, in the world it *)
(* is addressed to, and letters of one world to another arrive in the order *)
(* in which they were posted.                                              *)
(***************************************************************************)
EXTENDS Integers, Sequences

CONSTANT Worlds

VARIABLES
    posted,  \* the letters posted so far: number -> [from, to]
    transit, \* the numbers of those that may still arrive
    arrived  \* world -> the numbers of those that have, in order

postVars == <<posted, transit, arrived>>

PostInit ==
    /\ posted = <<>>
    /\ transit = {}
    /\ arrived = [w \in Worlds |-> <<>>]

\* Nobody takes it, it is on its way, or it is delivered on the spot.
PostLetter(from, to) ==
    LET l == Len(posted) + 1 IN
    /\ posted' = Append(posted, [from |-> from, to |-> to])
    /\ \/ transit' \in {transit, transit \cup {l}} /\ UNCHANGED arrived
       \/ arrived' = [arrived EXCEPT ![to] = Append(@, l)] /\ UNCHANGED transit

Overtakes(l) ==
    \E i \in DOMAIN arrived[posted[l].to] :
        LET m == arrived[posted[l].to][i]
        IN  posted[m].from = posted[l].from /\ m >= l

Arrive(l) ==
    /\ ~Overtakes(l)
    /\ arrived' = [arrived EXCEPT ![posted[l].to] = Append(@, l)]
    /\ transit' = transit \ {l}
    /\ UNCHANGED posted

Lose(l) == transit' = transit \ {l} /\ UNCHANGED <<posted, arrived>>

PostNext ==
    \/ \E from, to \in Worlds : PostLetter(from, to)
    \/ \E l \in transit : Arrive(l) \/ Lose(l)

PostSpec == PostInit /\ [][PostNext]_postVars
=============================================================================
