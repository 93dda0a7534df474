---------------------------- MODULE BuiltinChecks -----------------------------
(***************************************************************************)
(* The builtin checks and the judges of giskard-checks: how what the keys  *)
(* of a check find in a trace, and what the engine behind it answers (a    *)
(* regex, a JSON schema, a policy, an embedding or a judge), make a        *)
(* verdict; and what Not makes of it.                                      *)
(***************************************************************************)
EXTENDS Results, SequencesExt

CONSTANTS MaxNumber,  \* bound on the numbers in a trace
          MaxItems    \* bound on what a key finds

ASSUME TraceAssumption == {MaxNumber, MaxItems} \subseteq Nat

(* Scalars are numbers: those up to MaxNumber stand for themselves, and the *)
(* next ones for None, the empty and some other text.                       *)
Null == MaxNumber + 1
Empty == MaxNumber + 2
Text == MaxNumber + 3

Scalars == 0..Text

(* Numbers are ordered, and texts; None is not, nor one with another.       *)
Ordered(a, b) == {a, b} \subseteq 0..MaxNumber \/ {a, b} \subseteq {Empty, Text}

(* resolve: the matches of a list expression, or several, make a list.  A   *)
(* list that is found as a whole is one, too.                               *)
NoMatch == [many |-> FALSE, items |-> <<>>]

Resolution(matches, wildcard) ==
    IF Len(matches) > 1 \/ wildcard THEN [many |-> TRUE, items |-> matches]
    ELSE IF matches # <<>> THEN [many |-> FALSE, items |-> matches]
    ELSE NoMatch

Found == {Resolution(matches, wildcard) : matches \in BoundedSeq(Scalars, MaxItems), wildcard \in BOOLEAN}

Is(value, S) == ~value.many /\ value.items # <<>> /\ value.items[1] \in S

IsText(value) == Is(value, {Empty, Text})

VARIABLES target,     \* what target_key finds, or the value given
          reference,  \* what the other key finds, if the check has one
          empty,      \* there is no interaction in the trace
          check,      \* the check that was run, and its options
          judged     \* "none", a status, or "raised"

builtinVars == <<target, reference, empty, check, judged>>

BuiltinInit ==
    /\ target \in Found /\ reference \in Found
    /\ empty \in BOOLEAN
    /\ check = <<"none", "none", "none">> /\ judged = "none"

Run(type, option, mode, status) ==
    /\ judged = "none"
    /\ check' = <<type, option, mode>> /\ judged' = status
    /\ UNCHANGED <<target, reference, empty>>

Verdict(passed) == IF passed THEN "pass" ELSE "fail"

-----------------------------------------------------------------------------
(* Comparisons.                                                            *)
Operators == {"==", "!=", "<", "<=", ">", ">="}

Complement(op) ==
    CASE op = "==" -> "!=" [] op = "<" -> ">=" [] op = ">" -> "<="
      [] op = "!=" -> "==" [] op = ">=" -> "<" [] op = "<=" -> ">"

Holds(op, m, n) ==
    CASE op = "==" -> m = n [] op = "<" -> m < n [] op = ">" -> m > n
      [] op = "!=" -> m # n [] op = ">=" -> m >= n [] op = "<=" -> m <= n

(* Lists are compared at the first place where they differ, if there is one. *)
Differing(a, b) ==
    {i \in DOMAIN a.items \cap DOMAIN b.items : a.items[i] # b.items[i]}

Supported(op, a, b) ==
    \/ op \in {"==", "!="}
    \/ a.many /\ b.many /\ (Differing(a, b) = {}
          \/ LET i == Min(Differing(a, b)) IN Ordered(a.items[i], b.items[i]))
    \/ ~a.many /\ ~b.many /\ Ordered(a.items[1], b.items[1])

Compares(op, a, b) ==
    IF op \in {"==", "!="} THEN (a = b) = (op = "==")
    ELSE IF Differing(a, b) = {} THEN Holds(op, Len(a.items), Len(b.items))
    ELSE LET i == Min(Differing(a, b)) IN Holds(op, a.items[i], b.items[i])

Single(item) == [many |-> FALSE, items |-> <<item>>]

Items(value) == {Single(item) : item \in ToSet(value.items)}

(* Fault: the first match ends the loop, whatever would come after it.     *)
FirstMatch(op, match, actual, expected) ==
    LET hits == {i \in DOMAIN actual.items : /\ Supported(op, Single(actual.items[i]), expected)
                                             /\ Compares(op, Single(actual.items[i]), expected)}
        last == IF hits = {} THEN Len(actual.items) ELSE Min(hits)
    IN  IF ~actual.many THEN "error"
        ELSE IF \E i \in 1..last : ~Supported(op, Single(actual.items[i]), expected) THEN "error"
        ELSE CASE match = "any" -> Verdict(hits # {})
               [] match = "all" -> Verdict(hits = DOMAIN actual.items)
               [] match = "none" -> Verdict(hits = {})

(* _run_collection_match: all items are compared before there is a verdict. *)
CollectionMatch(op, match, actual, expected) ==
    IF ~actual.many \/ \E item \in Items(actual) : ~Supported(op, item, expected) THEN "error"
    ELSE CASE match = "any" -> Verdict(\E item \in Items(actual) : Compares(op, item, expected))
           [] match = "all" -> Verdict(\A item \in Items(actual) : Compares(op, item, expected))
           [] match = "none" -> Verdict(\A item \in Items(actual) : ~Compares(op, item, expected))

Comparison(op, match, actual, expected) ==
    IF NoMatch \in {expected, actual} THEN "error"
    ELSE IF match # "direct" THEN CollectionMatch(op, match, actual, expected)
    ELSE IF Supported(op, actual, expected) THEN Verdict(Compares(op, actual, expected))
    ELSE "error"

RunComparison ==
    \E op \in Operators, match \in {"direct", "any", "all", "none"} :
        Run("comparison", op, match, Comparison(op, match, target, reference))

-----------------------------------------------------------------------------
(* Texts, documents and policies.                                          *)
RunStringMatching ==
    \E contained \in BOOLEAN :
        Run("string_matching", "none", "none",
            IF IsText(reference) /\ IsText(target) THEN Verdict(contained) ELSE "error")

(* A pattern may be invalid, or take too long.                             *)
RunRegexMatching ==
    \E answer \in {"pass", "fail", "error"} :
        Run("regex_matching", "none", "none",
            IF IsText(reference) /\ IsText(target) THEN answer ELSE "error")

(* Fault: that a key finds nothing is left to the serializer to complain of. *)
JsonOfAnything(mode, json, schema) ==
    IF mode = "parse" /\ ~IsText(target) THEN "error"
    ELSE IF json /\ target # NoMatch THEN schema
    ELSE "fail"

(* JsonValid: the value is JSON, or not, and meets the schema, if there is  *)
(* one, or not, or the schema refers to what cannot be found.               *)
Json(mode, json, schema) ==
    IF target = NoMatch \/ (mode = "parse" /\ ~IsText(target)) THEN "error"
    ELSE IF json THEN schema
    ELSE "fail"

RunJsonValid ==
    \E mode \in {"parse", "parsed"}, json \in BOOLEAN, schema \in {"pass", "fail", "error"} :
        Run("json_valid", "none", mode, Json(mode, json, schema))

(* The score is within the limits or not, or cannot be computed.           *)
RunReadability ==
    \E score \in {"pass", "fail", "error"} :
        Run("readability", "none", "none", IF IsText(target) THEN score ELSE "error")

(* A rule is true, or false or undefined, or no boolean; or it fails.      *)
RunRegoPolicy ==
    \E rule \in {"pass", "fail", "error"} :
        Run("rego_policy", "none", "none", IF target = NoMatch THEN "error" ELSE rule)

(* SemanticSimilarity: nothing to compare is an error, and a list a failure; *)
(* an embedding model that fails raises.                                     *)
Similarity(similar) ==
    IF \E value \in {reference, target} : value = NoMatch \/ Is(value, {Null, Empty}) THEN "error"
    ELSE IF reference.many \/ target.many THEN "fail"
    ELSE similar

RunSemanticSimilarity ==
    \E similar \in {"pass", "fail", "raised"} :
        Run("semantic_similarity", "none", "none", Similarity(similar))

-----------------------------------------------------------------------------
(* Judges, and functions of the user.                                      *)

(* error_if_unresolved: a judge looks at the whole trace, or at one or two  *)
(* of its values.                                                           *)
Unresolved(mode) ==
    \/ mode # "trace" /\ target = NoMatch
    \/ mode = "values" /\ reference = NoMatch

(* A SOM needs something to look at; values make up for an empty trace.     *)
Judge(mode, backend, answer) ==
    IF Unresolved(mode) THEN "error"
    ELSE IF backend = "som" /\ empty /\ mode = "trace" THEN "error"
    ELSE answer

(* The answer comes from the model of the judge, which may fail.           *)
Ask(type, mode) ==
    \E backend \in {"llm", "som"}, answer \in {"pass", "fail", "raised"} :
        Run(type, backend, mode, Judge(mode, backend, answer))

RunLLMJudge == Ask("llm_judge", "trace")
RunConformity == Ask("conformity", "trace")
RunToxicity == Ask("toxicity", "value")
RunGroundedness == Ask("groundedness", "values")
RunContradiction == Ask("contradiction", "values")
RunAnswerRelevance == Ask("answer_relevance", "values")

Judges == {"llm_judge", "conformity", "toxicity", "groundedness", "contradiction", "answer_relevance"}

RunJudge ==
    \/ RunLLMJudge \/ RunConformity \/ RunToxicity
    \/ RunGroundedness \/ RunContradiction \/ RunAnswerRelevance

(* A function gives a boolean or a result; anything else is an exception.   *)
RunFunction ==
    \E answer \in Statuses \cup {"raised"} : Run("function", "none", "none", answer)

(* _run_check under return_exception.                                      *)
Recover ==
    /\ judged = "raised"
    /\ judged' = "error"
    /\ UNCHANGED <<target, reference, empty, check>>

Negate ==
    /\ judged \in Statuses /\ check[1] # "not"
    /\ check' = <<"not", check[1], check[3]>> /\ judged' = Not(judged)
    /\ UNCHANGED <<target, reference, empty>>

Judged == judged # "none" /\ UNCHANGED builtinVars

BuiltinNext ==
    \/ RunComparison \/ RunStringMatching \/ RunRegexMatching \/ RunJsonValid
    \/ RunReadability \/ RunRegoPolicy \/ RunSemanticSimilarity
    \/ RunJudge \/ RunFunction \/ Recover \/ Negate \/ Judged

BuiltinSpec == BuiltinInit /\ [][BuiltinNext]_builtinVars

-----------------------------------------------------------------------------
(* The check in hand, without a Not around it, and the keys it needs.       *)
Kind == IF check[1] = "not" THEN check[2] ELSE check[1]

Needed ==
    (IF Kind \in {"none", "function"} \/ (Kind \in Judges /\ check[3] = "trace")
     THEN {} ELSE {target})
    \cup
    (IF Kind \in {"comparison", "string_matching", "regex_matching", "semantic_similarity"}
        \/ (Kind \in Judges /\ check[3] = "values")
     THEN {reference} ELSE {})

(* "A broken key cannot be laundered into a green result" (_inputs.py:48):  *)
(* a check with a key that finds nothing is an error, whatever else holds   *)
(* and also under Not; and so is one that lost its engine.                  *)
BrokenKeysStayErrors ==
    NoMatch \in Needed => judged = "error"

(* The modes of comparisons obey the laws of quantifiers, also where values *)
(* do not compare: none is the negation of any, all is none of the opposite, *)
(* an operator is the negation of its complement.  And the order of the     *)
(* items does not matter, as that of a set is arbitrary.                    *)
MatchLaws ==
    judged = "none" =>
        \A op \in Operators :
            LET By(o, match) == Comparison(o, match, target, reference)
            IN  /\ By(op, "none") = Not(By(op, "any"))
                /\ By(op, "all") = By(Complement(op), "none")
                /\ By(op, "direct") = Not(By(Complement(op), "direct"))
                /\ target.many => \A match \in {"any", "all", "none"} :
                     By(op, match) =
                         Comparison(op, match, [many |-> TRUE, items |-> Reverse(target.items)], reference)
=============================================================================
