---------------------------- MODULE NameMatcher ----------------------------
(***************************************************************************)
(* _match_name() of the binding loader: a file name against a pattern in   *)
(* which "*" stands for any characters and "?" for one.  The walk goes     *)
(* over both with two pointers, one turn of its loops at a time, and when  *)
(* it is stuck lets the last star it met eat one more character.  Strings  *)
(* are sequences of characters.                                            *)
(***************************************************************************)
EXTENDS Naturals, Sequences

CONSTANTS
  Characters,
  Patterns,    \* the patterns a caller may give
  FileNames    \* the names of the files found

ASSUME MatcherAssumption ==
  Patterns \subseteq Seq(Characters) /\ FileNames \subseteq Seq(Characters)

VARIABLES
  pattern, name,  \* the arguments
  walk,           \* [p, n]: the next characters; [star, mark]: the last star
                  \* met (0: none) and where its extent ends; [turns]: history
  verdict         \* "none" until the walk has ended

arguments == <<pattern, name>>
matching == <<arguments, walk, verdict>>

InitMatch ==
  /\ pattern \in Patterns /\ name \in FileNames
  /\ walk = [p |-> 1, n |-> 1, star |-> 0, mark |-> 1, turns |-> 0]
  /\ verdict = "none"

Walking == verdict = "none" /\ walk.n <= Len(name)
AtStar == walk.p <= Len(pattern) /\ pattern[walk.p] = "*"
AtSuiting == walk.p <= Len(pattern) /\ pattern[walk.p] \in {"?", name[walk.n]} \ {"*"}

Goes(w) ==
  /\ walk' = [w EXCEPT !.turns = @ + 1]
  /\ UNCHANGED <<arguments, verdict>>

Ends(v) == verdict' = v /\ UNCHANGED <<arguments, walk>>

\* One character of the name, taken literally or for "?".
TakeCharacter ==
  /\ Walking /\ AtSuiting
  /\ Goes([walk EXCEPT !.p = @ + 1, !.n = @ + 1])

\* A star eats nothing for now.
MeetStar ==
  /\ Walking /\ AtStar
  /\ Goes([walk EXCEPT !.star = walk.p, !.mark = walk.n, !.p = @ + 1])

\* Slip: the name is not rewound to where the star began.
RetryOnwards ==
  /\ Walking /\ ~AtStar /\ ~AtSuiting /\ walk.star > 0
  /\ Goes([walk EXCEPT !.p = walk.star + 1, !.n = @ + 1, !.mark = @ + 1])

\* Stuck: the last star eats one more character.
Retry ==
  /\ Walking /\ ~AtStar /\ ~AtSuiting /\ walk.star > 0
  /\ Goes([walk EXCEPT !.p = walk.star + 1, !.n = walk.mark + 1, !.mark = @ + 1])

GiveUp ==
  /\ Walking /\ ~AtStar /\ ~AtSuiting /\ walk.star = 0
  /\ Ends("mismatch")

\* The name is over: stars that are left may match nothing.
SkipStar ==
  /\ verdict = "none" /\ walk.n > Len(name) /\ AtStar
  /\ Goes([walk EXCEPT !.p = @ + 1])

Conclude ==
  /\ verdict = "none" /\ walk.n > Len(name) /\ ~AtStar
  /\ Ends(IF walk.p = Len(pattern) + 1 THEN "match" ELSE "mismatch")

NextMatch == TakeCharacter \/ MeetStar \/ Retry \/ GiveUp \/ SkipStar \/ Conclude

SpecMatch == InitMatch /\ [][NextMatch]_matching

-----------------------------------------------------------------------------
TypeOKMatch ==
  /\ pattern \in Seq(Characters) /\ name \in Seq(Characters)
  /\ walk \in [p : 1..(Len(pattern) + 1), n : 1..(Len(name) + 1), star : 0..Len(pattern),
               mark : 1..(Len(name) + 1), turns : Nat]
  /\ verdict \in {"none", "match", "mismatch"}

\* What character i of the pattern can stand for: the characters of the name
\* from one place up to another.
Covers(i, from, to) ==
  IF pattern[i] = "*" THEN from <= to
  ELSE to = from + 1 /\ pattern[i] \in {"?", name[from]}

\* An alignment says where in the name every character of the pattern begins.
Aligned(e) ==
  /\ e[1] = 1 /\ e[Len(pattern) + 1] = Len(name) + 1
  /\ \A i \in 1..Len(pattern) : Covers(i, e[i], e[i + 1])

Fits == \E e \in [1..(Len(pattern) + 1) -> 1..(Len(name) + 1)] : Aligned(e)

\* The walk, which goes back to the last star only, says that a name matches
\* exactly when there is some alignment of the pattern with it (_match_name).
NamesMatchTheirMeaning ==
  /\ verdict = "match" => Fits
  /\ verdict = "mismatch" => ~Fits

\* "O(len(pattern) x len(name)) worst case" (binding_loader.py:82): the loops
\* take no more turns than the two lengths multiplied, whatever the pattern.
WalkIsShort == walk.turns <= (Len(pattern) + 1) * (Len(name) + 1)
=============================================================================
