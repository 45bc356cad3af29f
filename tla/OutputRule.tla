----------------------------- MODULE OutputRule -----------------------------
(***************************************************************************)
(* Output rules of a job (src/server/src/api/user.rs): job_submit parses   *)
(* each rule with parse_output_rule, a state machine over the characters  *)
(* of the string that reads the sigils "!" (ignore), "=" (require_match)   *)
(* and "%" (size_change_ok) before an absolute path; format_job writes the *)
(* stored rule back out as a string for job_get.                           *)
(*                                                                         *)
(* Strings are sequences of characters over Chars; "x" stands for every   *)
(* character with no meaning to the parser.                               *)
(***************************************************************************)
EXTENDS Naturals, Sequences, SequencesExt

CONSTANTS
    Chars,      \* the characters of the inputs
    MaxLen      \* the longest input

VARIABLE input

\* The parser's state between two characters; a client error is the state
\* "err", after which no character is read.
Start == [s |-> "Start", rule |-> <<>>, ignore |-> FALSE,
          size_change_ok |-> FALSE, require_match |-> FALSE]

\* The states that still read sigils.
Sigilled == {"Start", "SlashOrEquals", "SlashOrPercent", "Slash"}

\* Mutant of Step: after "%=", a second "%" is still accepted.
StepEqualsThenPercent(a, c) ==
    CASE a.s = "err" -> a
      [] a.s = "Rule" -> [a EXCEPT !.rule = Append(@, c)]
      [] c = "/" /\ a.s \in Sigilled ->
             [a EXCEPT !.s = "Rule", !.rule = Append(@, c)]
      [] a.s = "Start" /\ c = "!" -> [a EXCEPT !.s = "Slash", !.ignore = TRUE]
      [] a.s = "Start" /\ c = "=" ->
             [a EXCEPT !.s = "SlashOrPercent", !.require_match = TRUE]
      [] a.s = "Start" /\ c = "%" ->
             [a EXCEPT !.s = "SlashOrEquals", !.size_change_ok = TRUE]
      [] a.s = "SlashOrEquals" /\ c = "=" ->
             [a EXCEPT !.s = "SlashOrPercent", !.require_match = TRUE]
      [] a.s = "SlashOrPercent" /\ c = "%" ->
             [a EXCEPT !.s = "Slash", !.size_change_ok = TRUE]
      [] OTHER -> [a EXCEPT !.s = "err"]

\* One character, read in state a.s.
Step(a, c) ==
    LET to(st)   == [a EXCEPT !.s = st]
        push     == [a EXCEPT !.s = "Rule", !.rule = Append(@, c)]
        fail     == [a EXCEPT !.s = "err"]
    IN CASE a.s = "err" -> a
         [] a.s = "Rule" -> [a EXCEPT !.rule = Append(@, c)]
         [] c = "/" /\ a.s \in Sigilled -> push
         [] a.s = "Start" /\ c = "!" -> [to("Slash") EXCEPT !.ignore = TRUE]
         [] a.s = "Start" /\ c = "=" ->
                [to("SlashOrPercent") EXCEPT !.require_match = TRUE]
         [] a.s = "Start" /\ c = "%" ->
                [to("SlashOrEquals") EXCEPT !.size_change_ok = TRUE]
         [] a.s = "SlashOrEquals" /\ c = "=" ->
                [to("Slash") EXCEPT !.require_match = TRUE]
         [] a.s = "SlashOrPercent" /\ c = "%" ->
                [to("Slash") EXCEPT !.size_change_ok = TRUE]
         [] OTHER -> fail

\* parse_output_rule: the characters, then the check that the pattern is
\* an absolute path.  The result is {CreateOutputRule}, or {} for a client
\* error.
parse_output_rule(str) ==
    LET a == FoldLeft(Step, Start, str) IN
    IF a.s = "err" \/ a.rule = <<>> \/ a.rule[1] # "/" THEN {}
    ELSE {[rule |-> a.rule, ignore |-> a.ignore,
           size_change_ok |-> a.size_change_ok,
           require_match |-> a.require_match]}

\* Mutant of format_output_rule: the "%" sigil is left out.
format_output_rule_no_size(jor) ==
    (IF jor.ignore THEN <<"!">> ELSE <<>>)
    \o (IF jor.require_match THEN <<"=">> ELSE <<>>)
    \o jor.rule

\* format_job: the sigils in the order "!", "%", "=", then the pattern.
format_output_rule(jor) ==
    (IF jor.ignore THEN <<"!">> ELSE <<>>)
    \o (IF jor.size_change_ok THEN <<"%">> ELSE <<>>)
    \o (IF jor.require_match THEN <<"=">> ELSE <<>>)
    \o jor.rule

(***************************************************************************)
(* The rules are parsed one input at a time.                               *)
(***************************************************************************)
Inputs == BoundedSeq(Chars, MaxLen)

Init == input \in Inputs

Next == UNCHANGED input

Spec == Init /\ [][Next]_input

(***************************************************************************)
(* Properties                                                              *)
(***************************************************************************)

\* The grammar the parser's tests and error messages describe: at most one
\* "=" and one "%" in either order, or a lone "!", then a pattern starting
\* with "/".  parse_output_rule accepts exactly these strings, sets the
\* flag of each sigil present, and never reaches its assertion that an
\* ignored rule has no other flag.
ParseMatchesGrammar ==
    LET Sigils == {<<>>, <<"!">>, <<"=">>, <<"%">>, <<"=", "%">>, <<"%", "=">>}
        ok == {sg \in Sigils : \E pat \in Inputs :
                  /\ input = sg \o pat
                  /\ pat # <<>> /\ pat[1] = "/"}
        r  == parse_output_rule(input)
    IN
    IF ok = {} THEN r = {}
    ELSE \E sg \in ok, x \in r :
           /\ x.rule = SubSeq(input, Len(sg) + 1, Len(input))
           /\ x.ignore = Contains(sg, "!")
           /\ x.require_match = Contains(sg, "=")
           /\ x.size_change_ok = Contains(sg, "%")
           /\ x.ignore => ~x.require_match /\ ~x.size_change_ok

\* job_get shows each rule as format_job writes it; parsing that string
\* again gives back the rule stored, so a job's rules can be resubmitted.
FormatRoundTrips ==
    \A x \in parse_output_rule(input) :
        parse_output_rule(format_output_rule(x)) = {x}

=============================================================================
