-------------------------- MODULE RateLimiterRegistry --------------------------
(***************************************************************************)
(* The registry by which rate limiters with one id and equal fields share  *)
(* their state (giskard-core, rate_limiter/base.py).  Ids do not interact, *)
(* so there is one.  The registry refers to the limiters weakly: one that  *)
(* nobody refers to is garbage until it is collected, at any moment, also  *)
(* while another one is being registered.  There is one thread.            *)
(***************************************************************************)
EXTENDS Naturals

CONSTANTS Limiters,   \* the objects, in any order of their creation
          Fields      \* the fields of a limiter, its class among them

CONSTANT Nobody       \* no limiter

ASSUME NobodyAssumption == Nobody \notin Limiters

VARIABLES life,      \* of each limiter
          fields,    \* its fields
          home,      \* the limiter for which the map was made that it is in
          throttle,  \* the limiter for which the state was made that it has
          current,   \* the limiter for which the map of the id was made
          tolerant,  \* duplicates are told in a warning and not an error
          swept      \* maps dropped while a limiter was being entered

registryVars == <<life, fields, home, throttle, current, tolerant, swept>>

Lives == {"new", "looked", "held", "garbage", "gone"}

RegistryInit ==
    /\ life = [l \in Limiters |-> "new"]
    /\ fields \in [Limiters -> Fields]
    /\ home = [l \in Limiters |-> Nobody]
    /\ throttle = [l \in Limiters |-> Nobody]
    /\ current = Nobody
    /\ tolerant \in BOOLEAN
    /\ swept = {}

(* What is in a map: garbage too, until it is collected.                    *)
Members(map) == {l \in Limiters : home[l] = map /\ life[l] \in {"held", "garbage"}}

BeingEntered == {l \in Limiters : life[l] = "looked"}

(* register_instance takes the map of the id, or makes one.                 *)
Look(l) ==
    /\ life[l] = "new" /\ BeingEntered = {}
    /\ life' = [life EXCEPT ![l] = "looked"]
    /\ current' = IF current = Nobody THEN l ELSE current
    /\ home' = [home EXCEPT ![l] = current']
    /\ UNCHANGED <<fields, throttle, tolerant, swept>>

(* A list of the members keeps them alive through the rest.  Among several  *)
(* that are equal the first one is taken.                                   *)
Equal(l) == {k \in Members(home[l]) : fields[k] = fields[l]}

(* Fault: the limiter is not compared with those that are there.            *)
InitializeAfresh(l) == throttle' = [throttle EXCEPT ![l] = l]

(* initialize_state, with an equal limiter or with none.                    *)
InitializeState(l) ==
    IF Equal(l) = {} THEN throttle' = [throttle EXCEPT ![l] = l]
    ELSE \E k \in Equal(l) : throttle' = [throttle EXCEPT ![l] = throttle[k]]

Enter(l) ==
    /\ life[l] = "looked"
    /\ Equal(l) # {} \/ Members(home[l]) = {} \/ tolerant
    /\ InitializeState(l)
    /\ life' = [life EXCEPT ![l] = "held"]
    /\ UNCHANGED <<fields, home, current, tolerant, swept>>

(* A ValueError leaves a limiter that was not entered, and has no finalizer. *)
Refuse(l) ==
    /\ life[l] = "looked"
    /\ Equal(l) = {} /\ Members(home[l]) # {} /\ ~tolerant
    /\ life' = [life EXCEPT ![l] = "gone"]
    /\ UNCHANGED <<fields, home, throttle, current, tolerant, swept>>

Drop(l) ==
    /\ life[l] = "held"
    /\ life' = [life EXCEPT ![l] = "garbage"]
    /\ UNCHANGED <<fields, home, throttle, current, tolerant, swept>>

(* Fault: the finalizer runs before l has left the map.                     *)
EmptiedEarly(l) == current # Nobody /\ Members(current) = {}

(* _cleanup_id, when l has left its map: the map of the id goes if nothing  *)
(* is in it, whatever map l was in.                                         *)
Emptied(l) == current # Nobody /\ Members(current) \ {l} = {}

Collect(l) ==
    /\ life[l] = "garbage"
    /\ life' = [life EXCEPT ![l] = "gone"]
    /\ current' = IF Emptied(l) THEN Nobody ELSE current
    /\ swept' = IF Emptied(l) /\ BeingEntered # {} THEN swept \cup {current} ELSE swept
    /\ UNCHANGED <<fields, home, throttle, tolerant>>

(* get_instance: garbage that is found is referred to again.                *)
GetInstance ==
    /\ current # Nobody /\ BeingEntered = {}
    /\ \E l \in Members(current) : life' = [life EXCEPT ![l] = "held"]
    /\ UNCHANGED <<fields, home, throttle, current, tolerant, swept>>

RegistryNext ==
    \/ \E l \in Limiters : Look(l) \/ Enter(l) \/ Refuse(l) \/ Drop(l) \/ Collect(l)
    \/ GetInstance

RegistrySpec == RegistryInit /\ [][RegistryNext]_registryVars

-----------------------------------------------------------------------------
RegistryTypeOK ==
    /\ life \in [Limiters -> Lives]
    /\ fields \in [Limiters -> Fields]
    /\ home \in [Limiters -> Limiters \cup {Nobody}]
    /\ throttle \in [Limiters -> Limiters \cup {Nobody}]
    /\ current \in Limiters \cup {Nobody}
    /\ tolerant \in BOOLEAN
    /\ swept \subseteq Limiters

Held == {l \in Limiters : life[l] = "held"}

(* "Instances with the same id and model fields share the same internal    *)
(* state" (base.py:33), so that together they keep to one rate: any two    *)
(* that are in use, unless the map of one was dropped as it was entered.   *)
StateShared ==
    \A k, l \in Held :
        fields[k] = fields[l] /\ {home[k], home[l]} \cap swept = {} => throttle[k] = throttle[l]

(* The map of the id is there as long as a limiter is in use, which from_id *)
(* finds, and no longer (base.py:90): only a limiter that is being entered  *)
(* may find it empty.  Excepted are the limiters whose map was dropped.     *)
MapFollowsUse ==
    /\ \A l \in Held : home[l] = current \/ home[l] \in swept
    /\ current # Nobody /\ BeingEntered = {} => Members(current) # {}
=============================================================================
