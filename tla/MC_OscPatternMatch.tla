------------------------- MODULE MC_OscPatternMatch ------------------------
(***************************************************************************)
(* PatternMatch with many patterns and every short name: the specification *)
(* writes a pattern part by part.                                          *)
(***************************************************************************)
EXTENDS OscPatternMatch

CONSTANT MaxParts   \* bound on the parts of a pattern

A == 97
B == 98
C == 99

\* Parts that a writer uses, and parts that cannot be finished or are
\* closed twice.
Parts ==
    { Literal(A), Literal(B), Escaped(A), AnyOne, AnyMany,
      OneOf(FromTo(A, B), {A, B}), OneOf(<<B, C>>, {B, C}),
      NoneOf(<<B>>, {B}), NoneOf(FromTo(B, C), {B, C}),
      Alternatives(<< <<A>>, <<B, C>> >>), Alternatives(<< <<A, B>>, <<A>>, <<B>> >>) }
Damaged ==
    { Broken(<<OpenBracket, A>>), Broken(<<OpenBracket, Bang, A>>), Broken(<<OpenBracket>>),
      Broken(<<OpenBrace, A>>), Broken(<<OpenBrace, A, Comma>>),
      Broken(<<CloseBracket>>), Broken(<<CloseBrace>>), Broken(<<Backslash>>) }

VARIABLE parts      \* the pattern

Pattern == FlattenSeq([i \in DOMAIN parts |-> parts[i].text])

Init == parts = <<>>

Write(part) ==
    /\ Len(parts) < MaxParts
    /\ parts # <<>> => Last(parts).is # "broken"
    /\ parts' = Append(parts, part)

Next == \E part \in Parts \union Damaged : Write(part)

-----------------------------------------------------------------------------
(* A list that is not the last part: when its last alternative does not    *)
(* match, the code goes on behind the list as if it had matched nothing.   *)
ListInside == \E i \in 1 .. Len(parts) - 1 : parts[i].is = "list"

(* Whatever a pattern means is matched: backtracking over stars and        *)
(* alternatives finds every way to read it (PatternMatch, MatchBrackets,   *)
(* MatchList).                                                             *)
FindsEveryMatch == \A t \in ShortNames : Means(parts, t) => PatternMatch(Pattern, t)

(* Nothing else is matched, and a pattern that is not finished or has a    *)
(* spurious bracket matches nothing, as far as no list is followed by      *)
(* another part.                                                           *)
NoFalseMatch ==
    ~ListInside => \A t \in ShortNames : PatternMatch(Pattern, t) => Means(parts, t)
=============================================================================
