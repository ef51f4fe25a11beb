-------------------------- MODULE OscPatternMatch --------------------------
(***************************************************************************)
(* The pattern language of OSC addresses (OSC-Kit/OSC-pattern-match.c):    *)
(* PatternMatch as the code computes it, and what the parts of a pattern   *)
(* mean to its reader.  Characters are their ASCII codes, a C string is a  *)
(* sequence of them without the null byte.                                 *)
(***************************************************************************)
EXTENDS Integers, Sequences, SequencesExt

CONSTANTS
    Letters,        \* the characters of names
    LongestName     \* bound on the names that are matched

Bang == 33  Star == 42  Comma == 44  Dash == 45  Question == 63
OpenBracket == 91  Backslash == 92  CloseBracket == 93
OpenBrace == 123  CloseBrace == 125

From(s, i) == SubSeq(s, i, Len(s))
Places(p, chars) == {i \in DOMAIN p : p[i] \in chars}
Smallest(S) == CHOOSE i \in S : \A j \in S : i <= j

-----------------------------------------------------------------------------
RECURSIVE PatternMatch(_, _)

(* A character between the brackets, or one in a range.  The code starts   *)
(* to look at the bracket or at the exclamation mark itself.               *)
IsAt(p, i, c) ==
    \/ p[i] = c
    \/ i + 2 <= Len(p) /\ p[i + 1] = Dash /\ c \in p[i] .. p[i + 2]

MatchBrackets(p, t) ==
    LET negated == Len(p) > 1 /\ p[2] = Bang
        first == IF negated THEN 2 ELSE 1
        close == Places(p, {CloseBracket})
    IN  /\ close # {}
        /\ (\E i \in first .. Smallest(close) - 1 : IsAt(p, i, t[1])) # negated
        /\ PatternMatch(From(p, Smallest(close) + 1), Tail(t))

(* The loop over the alternatives: at place i of the pattern, k characters *)
(* of the name agree with the alternative so far.                          *)
RECURSIVE MatchAlternatives(_, _, _, _)

\* The characters that agreed with an alternative are not taken back.
MatchAlternatives_KeepsPlace(p, i, t, k) ==
    LET rest == From(p, Smallest(Places(p, {CloseBrace})) + 1)
        ends == {j \in Places(p, {Comma, CloseBrace}) : j >= i}
        end == Smallest(ends)
    IN  IF p[i] = Comma
        THEN PatternMatch(rest, From(t, k + 1)) \/ MatchAlternatives(p, i + 1, t, k)
        ELSE IF p[i] = CloseBrace THEN PatternMatch(rest, From(t, k + 1))
        ELSE IF k < Len(t) /\ p[i] = t[k + 1] THEN MatchAlternatives(p, i + 1, t, k + 1)
        ELSE MatchAlternatives(p, IF p[end] = Comma THEN end + 1 ELSE end, t, k)

MatchAlternatives(p, i, t, k) ==
    LET rest == From(p, Smallest(Places(p, {CloseBrace})) + 1)
        end == Smallest({j \in Places(p, {Comma, CloseBrace}) : j >= i})
    IN  IF p[i] = Comma
        THEN PatternMatch(rest, From(t, k + 1)) \/ MatchAlternatives(p, i + 1, t, 0)
        ELSE IF p[i] = CloseBrace THEN PatternMatch(rest, From(t, k + 1))
        ELSE IF k < Len(t) /\ p[i] = t[k + 1] THEN MatchAlternatives(p, i + 1, t, k + 1)
        ELSE MatchAlternatives(p, IF p[end] = Comma THEN end + 1 ELSE end, t, 0)

MatchList(p, t) == Places(p, {CloseBrace}) # {} /\ MatchAlternatives(p, 2, t, 0)

PatternMatch(p, t) ==
    IF p = <<>> THEN t = <<>>
    ELSE IF t = <<>> THEN p[1] = Star /\ PatternMatch(Tail(p), t)
    ELSE CASE p[1] = Question -> PatternMatch(Tail(p), Tail(t))
           [] p[1] = Star -> PatternMatch(Tail(p), t) \/ PatternMatch(p, Tail(t))
           [] p[1] \in {CloseBracket, CloseBrace} -> FALSE
           [] p[1] = OpenBracket -> MatchBrackets(p, t)
           [] p[1] = OpenBrace -> MatchList(p, t)
           [] p[1] = Backslash ->
                Len(p) > 1 /\ p[2] = t[1] /\ PatternMatch(From(p, 3), Tail(t))
           [] OTHER -> p[1] = t[1] /\ PatternMatch(Tail(p), Tail(t))

-----------------------------------------------------------------------------
(* Parts of a pattern, how they are written, and what they mean.           *)
Literal(c) == [is |-> "literal", text |-> <<c>>, one |-> {c}]
Escaped(c) == [is |-> "literal", text |-> <<Backslash, c>>, one |-> {c}]
AnyOne == [is |-> "literal", text |-> <<Question>>, one |-> Letters]
AnyMany == [is |-> "many", text |-> <<Star>>]
FromTo(lo, hi) == <<lo, Dash, hi>>
OneOf(text, chars) ==
    [is |-> "literal", text |-> <<OpenBracket>> \o text \o <<CloseBracket>>, one |-> chars]
NoneOf(text, chars) ==
    [is |-> "literal", text |-> <<OpenBracket, Bang>> \o text \o <<CloseBracket>>,
     one |-> Letters \ chars]
Alternatives(list) ==
    [is |-> "list", alternatives |-> {list[i] : i \in DOMAIN list},
     text |-> <<OpenBrace>> \o FlattenSeq([i \in DOMAIN list |->
                 Append(list[i], IF i = Len(list) THEN CloseBrace ELSE Comma)])]
Broken(text) == [is |-> "broken", text |-> text]

RECURSIVE Means(_, _)
Means(ps, t) ==
    IF ps = <<>> THEN t = <<>>
    ELSE CASE ps[1].is = "literal" ->
                t # <<>> /\ t[1] \in ps[1].one /\ Means(Tail(ps), Tail(t))
           [] ps[1].is = "many" -> \E k \in 1 .. Len(t) + 1 : Means(Tail(ps), From(t, k))
           [] ps[1].is = "list" ->
                \E a \in ps[1].alternatives : IsPrefix(a, t) /\ Means(Tail(ps), From(t, Len(a) + 1))
           [] ps[1].is = "broken" -> FALSE

ShortNames == UNION {[1 .. n -> Letters] : n \in 0 .. LongestName}
=============================================================================
