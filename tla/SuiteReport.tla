----------------------------- MODULE SuiteReport ------------------------------
(***************************************************************************)
(* SuiteResult of giskard-checks: the counts and the pass rate of a suite, *)
(* and group_by, which breaks them down by the values of a tag key.  A     *)
(* scenario counts in every bucket it carries a tag for, once.             *)
(***************************************************************************)
EXTENDS Results

CONSTANTS Keys, Values,  \* of tags, written "key:value"
          MaxTags        \* bound on the tags of a scenario

ASSUME MaxTagsAssumption == MaxTags \in Nat

(* The bucket of the scenarios that carry no tag with the key.              *)
NoValue == "None"

ASSUME ValuesAssumption == NoValue \notin Values

VARIABLES results,   \* status and tags of each scenario, in suite order
          key,       \* argument key
          grouped,   \* the number of results the loop has dealt with
          buckets    \* counts by bucket; its domain grows

reportVars == <<results, key, grouped, buckets>>

TagLists == UNION {[1..k -> Keys \X Values] : k \in 0..MaxTags}

ReportInit ==
    /\ results = <<>>
    /\ key \in Keys
    /\ grouped = 0
    /\ buckets = <<>>

(* A scenario ends, and its result joins the suite. *)
AddResult(status, tags) ==
    /\ grouped = 0
    /\ results' = Append(results, [status |-> status, tags |-> tags])
    /\ UNCHANGED <<key, grouped, buckets>>

MatchedValues(result) ==
    {tag[2] : tag \in {result.tags[i] : i \in {j \in DOMAIN result.tags :
                                                  result.tags[j][1] = key}}}

(* Fault: scenarios without a matching tag are left out. *)
TaggedOnly(result) == MatchedValues(result)

BucketsOf(result) ==
    IF MatchedValues(result) = {} THEN {NoValue} ELSE MatchedValues(result)

NoCounts == [st \in Statuses |-> 0]

Counts(v) == IF v \in DOMAIN buckets THEN buckets[v] ELSE NoCounts

(* _record_into *)
RecordInto(counts, st) == [counts EXCEPT ![st] = @ + 1]

Group ==
    /\ grouped < Len(results)
    /\ LET result == results[grouped + 1]
           touched == BucketsOf(result)
       IN  buckets' = [v \in DOMAIN buckets \cup touched |->
                          IF v \in touched THEN RecordInto(Counts(v), result.status)
                          ELSE buckets[v]]
    /\ grouped' = grouped + 1
    /\ UNCHANGED <<results, key>>

-----------------------------------------------------------------------------
Suite == [i \in DOMAIN results |-> results[i].status]

(* GroupStats: total, non_skipped and pass_rate. *)
Total(counts) == counts["pass"] + counts["fail"] + counts["error"] + counts["skip"]

GroupPassRate(counts) ==
    IF Total(counts) - counts["skip"] = 0 THEN NoRate
    ELSE <<counts["pass"], Total(counts) - counts["skip"]>>

Perfect(rate) == rate = NoRate \/ rate[1] = rate[2]

Tabled == results # <<>> /\ grouped = Len(results)

(* The table hides nothing and invents nothing: every bucket is perfect     *)
(* just when the suite is, and has something to say just when the suite     *)
(* has; whatever tags a scenario repeats, it counts in no bucket twice, no  *)
(* status is lost, and the scenarios without a tag for the key are shown.   *)
TableTellsTheSuite ==
    Tabled =>
        /\ (\A v \in DOMAIN buckets : Perfect(GroupPassRate(buckets[v]))) <=> Perfect(PassRate(Suite))
        /\ (\A v \in DOMAIN buckets : GroupPassRate(buckets[v]) = NoRate) <=> PassRate(Suite) = NoRate
        /\ \A v \in DOMAIN buckets : Total(buckets[v]) \in 1..Len(results)
        /\ \A st \in Statuses : CountOf(Suite, st) > 0 =>
             \E v \in DOMAIN buckets : buckets[v][st] > 0
        /\ NoValue \in DOMAIN buckets <=> \E i \in DOMAIN results :
             \A j \in DOMAIN results[i].tags : results[i].tags[j][1] # key
=============================================================================
