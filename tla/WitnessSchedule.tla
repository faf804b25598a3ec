--------------------------- MODULE WitnessSchedule ---------------------------
(***************************************************************************)
(* Who produces blocks: the witnesses' votes and signing keys, and the     *)
(* schedule that is made anew every round (update_witness_schedule4, under *)
(* the rules since hardfork 17, without miners).                           *)
(*                                                                         *)
(* The witnesses with the most votes are elected.  The remaining places go *)
(* round by virtual time: every witness runs laps at the speed of its      *)
(* votes and is scheduled when it completes one.  Virtual time is an       *)
(* unsigned integer of 128 bits and a lap is as long as the largest such   *)
(* number, so that sums wrap around; the width is a parameter here.  The   *)
(* shuffle of a round's places is left out: the schedule is a set.         *)
(***************************************************************************)
EXTENDS Integers, FiniteSets, FiniteSetsExt

CONSTANTS Names,          \* the accounts that may become witnesses, in the order of names and ids
          MaxWitnesses,   \* DELTA_MAX_WITNESSES
          MaxVoted,       \* max_voted_witnesses
          MaxVotes,       \* total_vesting_shares
          Lap             \* DELTA_VIRTUAL_SCHEDULE_LAP_LENGTH2, the largest virtual time

ASSUME WitnessScheduleAssumption ==
    /\ IsFiniteSet(Names) /\ Names \subseteq Nat
    /\ MaxWitnesses \in Nat /\ MaxVoted \in 1 .. MaxWitnesses - 1
    /\ MaxVotes \in Nat
    /\ Lap \in Nat

VARIABLES
    known,       \* the witness objects there are
    key,         \* witnesses with a signing key
    votes,       \* votes
    lastUpdate,  \* virtual_last_update
    position,    \* virtual_position
    due,         \* virtual_scheduled_time
    now,         \* current_virtual_time
    scheduled    \* current_shuffled_witnesses

vars == <<known, key, votes, lastUpdate, position, due, now, scheduled>>

\* Arithmetic of fc::uint128.
Wrap(n) == n % (Lap + 1)

LapTime(v) == Lap \div (v + 1)

Init ==
    /\ known \in {{n} : n \in Names}
    /\ key = known /\ scheduled = known
    /\ votes = [n \in Names |-> 0]
    /\ lastUpdate = [n \in Names |-> 0]
    /\ position = [n \in Names |-> 0]
    /\ due = [n \in Names |-> Lap]
    /\ now = 0

-----------------------------------------------------------------------------
(* witness_update: a witness object is made or its key is set; a key of    *)
(* zeros takes the witness out of the next schedules.  (An update that     *)
(* leaves the key as it is is no step.)                                    *)

WitnessUpdate(w, valid) ==
    /\ w \notin known \/ valid # (w \in key)
    /\ known' = known \cup {w}
    /\ key' = IF valid THEN key \cup {w} ELSE key \ {w}
    /\ UNCHANGED <<votes, lastUpdate, position, due, now, scheduled>>

-----------------------------------------------------------------------------
(* adjust_witness_vote: a vote is given or taken back, or the shares of a  *)
(* voter change.                                                           *)

Position(w) == Wrap(position[w] + votes[w] * Wrap(now - lastUpdate[w]))

\* Slip: a time in the past is left as it is.
Due_Past(w, v) == Wrap(now + Wrap(Lap - Position(w)) \div (v + 1))

\* "witnesses with a low number of votes could overflow the time field and end
\* up with a scheduled time in the past"
Due(w, v) ==
    LET time == Wrap(now + Wrap(Lap - Position(w)) \div (v + 1))
    IN  IF time < now THEN Lap ELSE time

AdjustWitnessVote(w, v) ==
    /\ w \in known
    /\ v # votes[w]
    /\ position' = [position EXCEPT ![w] = Position(w)]
    /\ lastUpdate' = [lastUpdate EXCEPT ![w] = now]
    /\ votes' = [votes EXCEPT ![w] = v]
    /\ due' = [due EXCEPT ![w] = Due(w, v)]
    /\ UNCHANGED <<known, key, now, scheduled>>

-----------------------------------------------------------------------------
(* update_witness_schedule4                                                *)

\* The orders by_vote_name and by_schedule_time.
MoreVotes(v, w) == votes[v] > votes[w] \/ (votes[v] = votes[w] /\ v < w)
Earlier(v, w)   == due[v] < due[w] \/ (due[v] = due[w] /\ v < w)

Keyed == known \cap key

\* The first n of S.
FirstByVotes(S, n) == {w \in S : Cardinality({v \in S : MoreVotes(v, w)}) < n}
FirstByTime(S, n)  == {w \in S : Cardinality({v \in S : Earlier(v, w)}) < n}

Elected == FirstByVotes(Keyed, MaxVoted)
Places  == MaxWitnesses - Cardinality(Elected)

\* Slip: the places go to whoever is in the lead, elected or not.
Timeshare_AnyLeader == FirstByTime(Keyed, Places)

Timeshare == FirstByTime(Keyed \ Elected, Places)

\* The witnesses the search for the running ones in the lead has come by: it
\* ends with the one who takes the last place.
Processed ==
    LET leaders == Timeshare
    IN  IF Cardinality(leaders) < Places
        THEN known
        ELSE {w \in known : \E t \in leaders : w = t \/ Earlier(w, t)}

\* The new lap of a processed witness does not fit into the time field.
Overflow(processed, time) == \E w \in processed : Wrap(time + LapTime(votes[w])) < time

Active == Elected \cup Timeshare

\* "number of active witnesses does not equal expected_active_witnesses": the
\* assertion throws, and the block is not applied.
CanBeFilled == Cardinality(Active) = Min({MaxWitnesses, Cardinality(known)})

\* Slip: the lap a witness has completed stays the one it is due for.
Advance_SameLap(processed, time) ==
    /\ now' = time
    /\ position' = [w \in Names |-> IF w \in processed THEN 0 ELSE position[w]]
    /\ lastUpdate' = [w \in Names |-> IF w \in processed THEN time ELSE lastUpdate[w]]
    /\ due' = [w \in Names |-> IF w \in processed THEN time ELSE due[w]]

\* The processed witnesses begin a lap.
Advance(processed, time) ==
    /\ now' = time
    /\ position' = [w \in Names |-> IF w \in processed THEN 0 ELSE position[w]]
    /\ lastUpdate' = [w \in Names |-> IF w \in processed THEN time ELSE lastUpdate[w]]
    /\ due' = [w \in Names |->
                  IF w \in processed THEN time + LapTime(votes[w]) ELSE due[w]]

\* Time begins again, for everyone.
ResetVirtualScheduleTime ==
    /\ now' = 0
    /\ position' = [w \in Names |-> 0]
    /\ lastUpdate' = [w \in Names |-> 0]
    /\ due' = [w \in Names |-> IF w \in known THEN LapTime(votes[w]) ELSE due[w]]

\* "everyone advances to at least this time": that of the last one processed.
UpdateWitnessSchedule ==
    /\ CanBeFilled
    /\ \E processed \in {Processed} : \E time \in {Max({due[w] : w \in processed})} :
           \/ ~Overflow(processed, time) /\ Advance(processed, time)
           \/ Overflow(processed, time) /\ ResetVirtualScheduleTime
    /\ scheduled' = Active
    /\ UNCHANGED <<known, key, votes>>

Next ==
    \/ \E w \in Names, valid \in BOOLEAN : WitnessUpdate(w, valid)
    \/ \E w \in Names, v \in 0 .. MaxVotes : AdjustWitnessVote(w, v)
    \/ UpdateWitnessSchedule

Spec == Init /\ [][Next]_vars

\* Blocks are produced, so that rounds end; nothing makes anybody vote.
FairSpec == Spec /\ WF_vars(UpdateWitnessSchedule)

-----------------------------------------------------------------------------
\* Virtual time never wraps around where the code does not look for it: nobody
\* is due in the past, and nobody has run more than a lap, so that the
\* products and differences of adjust_witness_vote fit their 128 bits.
VirtualTimeInLap ==
    \A w \in known :
        /\ lastUpdate[w] <= now /\ now <= due[w] /\ due[w] <= Lap
        /\ position[w] + votes[w] * (now - lastUpdate[w]) <= Lap

EnoughKeys == Keyed = known \/ Cardinality(Keyed) >= MaxWitnesses

\* The schedule can be filled whenever enough witnesses have a key: then the
\* assertion on the number of active witnesses does not stop the chain.
ScheduleCanBeFilled == EnoughKeys => CanBeFilled

\* "everyone else takes turns being scheduled proportional to their votes": as
\* long as enough witnesses have a key, one with a key and a vote is scheduled
\* again and again, however the votes change and time overflows in between.
TakesTurns ==
    \A w \in Names :
        []<>(w \in scheduled \/ w \notin Keyed \/ votes[w] = 0 \/ ~EnoughKeys)
=============================================================================
