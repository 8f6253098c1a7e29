---------------------------------- MODULE Glob ----------------------------------
(***************************************************************************)
(* `glob`, by which a filter's matcher asks for a kind: `*` stands for any *)
(* run of characters and every other character for itself.  The loop keeps *)
(* one place to come back to, the last `*` it passed, and never one before *)
(* it.  A step of the machine is a pass of the loop.                       *)
(***************************************************************************)
EXTENDS Integers, Sequences

CONSTANTS
  Letters,      \* the characters of texts
  Star,         \* the `*` of patterns
  MaxPattern,   \* how long a pattern is at most
  MaxText       \* and a text

ASSUME GlobAssumption == Star \notin Letters /\ {MaxPattern, MaxText} \subseteq Nat

VARIABLES
  pattern,
  text,
  p,            \* where in the pattern: what is before it is matched
  t,            \* where in the text
  star,         \* the last `*` passed, or 0
  resume,       \* the text from where on that `*` has taken nothing
  holds         \* what the loop has found

globVars == <<pattern, text, p, t, star, resume, holds>>

Upto(n, set) == UNION {[1..k -> set] : k \in 0..n}

GlobInit ==
  /\ pattern \in Upto(MaxPattern, Letters \cup {Star}) /\ text \in Upto(MaxText, Letters)
  /\ p = 1 /\ t = 1 /\ star = 0 /\ resume = 1 /\ holds = "unknown"

More == holds = "unknown" /\ t <= Len(text)
Scans(c) == p <= Len(pattern) /\ pattern[p] = c

PassStar ==
  /\ More /\ Scans(Star)
  /\ star' = p /\ resume' = t /\ p' = p + 1
  /\ UNCHANGED <<pattern, text, t, holds>>

PassCharacter ==
  /\ More /\ Scans(text[t])
  /\ p' = p + 1 /\ t' = t + 1
  /\ UNCHANGED <<pattern, text, star, resume, holds>>

Backtrack_FromHere == resume' = t + 1 /\ t' = t + 1

\* The last `*` stands for one character more.
Backtrack ==
  /\ resume' = resume + 1 /\ t' = resume + 1

TakeMore ==
  /\ More /\ ~Scans(Star) /\ ~Scans(text[t]) /\ star # 0
  /\ p' = star + 1 /\ Backtrack
  /\ UNCHANGED <<pattern, text, star, holds>>

GiveUp ==
  /\ More /\ ~Scans(Star) /\ ~Scans(text[t]) /\ star = 0
  /\ holds' = "no"
  /\ UNCHANGED <<pattern, text, p, t, star, resume>>

\* The text is over: what is left of the pattern has to be stars.
EndOfText ==
  /\ holds = "unknown" /\ t > Len(text)
  /\ holds' = IF \A i \in p..Len(pattern) : pattern[i] = Star THEN "yes" ELSE "no"
  /\ UNCHANGED <<pattern, text, p, t, star, resume>>

GlobNext == PassStar \/ PassCharacter \/ TakeMore \/ GiveUp \/ EndOfText

GlobSpec == GlobInit /\ [][GlobNext]_globVars

-----------------------------------------------------------------------------
\* What a pattern means, without going back: where in the text what is left of the pattern
\* from i on matches all that is left of the text.
MatchesFrom(pat, txt) ==
  LET from[i \in 1..Len(pat) + 1] ==
        CASE i > Len(pat) -> {Len(txt) + 1}
          [] i <= Len(pat) /\ pat[i] = Star -> {j \in 1..Len(txt) + 1 : \E k \in from[i + 1] : j <= k}
          [] OTHER -> {j \in 1..Len(txt) : txt[j] = pat[i] /\ j + 1 \in from[i + 1]}
  IN  from

Means(pat, txt) == 1 \in MatchesFrom(pat, txt)[1]

\* Coming back to the last `*` alone loses no match: what `glob` answers of a kind
\* is what its pattern means.
GlobMeansIt == holds # "unknown" => (holds = "yes" <=> Means(pattern, text))
=============================================================================
